---------------------------- MODULE MeterManager ----------------------------
(* The meter manager: telegrams are offered to the meters, and if none has  *)
(* their address, to the templates of the configuration, which create new  *)
(* meters.  Everything happens in the event loop thread; every update of a *)
(* meter is printed and then checked for --oneshot.                         *)
EXTENDS Address

CONSTANTS
    Templates,   \* meter_templates_: a sequence of [es, mode]
    Fixed,       \* meters that exist from the start: a sequence of [es, mode]
    Telegrams,   \* what is received: records [ok, addresses, undecodable, discarded]
    Oneshot,     \* --oneshot was given
    MaxMeters    \* bound: no telegram arrives when there are this many meters

ASSUME ConfigAssumption == Oneshot \in BOOLEAN /\ MaxMeters \in Nat

\* The configuration is parsed into expressions that are not required.
ASSUME TemplatesAssumption ==
    /\ Templates \in Seq([es : Seq(AddressExpressions), mode : IdentityModes])
    /\ Fixed \in Seq([es : Seq(AddressExpressions), mode : IdentityModes])
    /\ \A s \in DOMAIN Templates : \A ae \in Elements(Templates[s].es) : ~ae.required

\* A header that parses has at least one address, with an id.
ASSUME TelegramsAssumption ==
    \A t \in Telegrams :
        t.ok => t.addresses \in Seq(Addresses) /\ t.addresses # <<>> /\ LastOf(t.addresses).id # <<>>

\* The sources of meters: a template, or the configuration of a fixed meter.
Config == Templates \o Fixed
Sources == DOMAIN Config

VARIABLES
    meters_,    \* sequence of [source, es, updated, content]
    running_,   \* of the serial manager
    pc,         \* where the event loop is in handleTelegram
    telegram,   \* the telegram it handles
    i,          \* the meter or template it looks at
    handled,
    exact_id_match

vars == <<meters_, running_, pc, telegram, i, handled, exact_id_match>>

\* content: the identities whose values were stored in the meter.
NewMeter(s, es) == [source |-> s, es |-> es, updated |-> FALSE, content |-> {}]

\* setup_meters.
Init ==
    /\ meters_ = [n \in DOMAIN Fixed |-> NewMeter(Len(Templates) + n, Fixed[n].es)]
    /\ running_ = TRUE
    /\ pc = "idle"
    /\ telegram \in Telegrams
    /\ i = 1
    /\ handled = FALSE
    /\ exact_id_match = FALSE

Mode(s) == Config[s].mode

\* The header parses, and isTelegramForMeter.
ForMe(es) == telegram.ok /\ doesTelegramMatchExpressions(telegram.addresses, es)

\* The meter's key does not fit, or its driver cannot parse the telegram.
Decodes(s) == s \notin telegram.undecodable

Updated(m) ==
    [m EXCEPT !.updated = TRUE,
              !.content = @ \cup {build_id(LastOf(telegram.addresses), Mode(m.source))}]

hasAllMetersReceivedATelegram(meters) ==
    Len(meters) >= Len(Templates) /\ \A n \in DOMAIN meters : meters[n].updated

\* triggerUpdate of a meter of meters: printed, then oneshot_check.
Update(meters, n) ==
    LET updated == [meters EXCEPT ![n] = Updated(@)]
    IN  IF Decodes(meters[n].source) /\ ~telegram.discarded
          THEN /\ meters_' = updated
               /\ running_' = (running_ /\ ~(Oneshot /\ hasAllMetersReceivedATelegram(updated)))
          ELSE /\ meters_' = meters
               /\ UNCHANGED running_

-----------------------------------------------------------------------------

Receive ==
    /\ pc = "idle" /\ running_ /\ Len(meters_) < MaxMeters
    /\ telegram' \in Telegrams
    /\ handled' = FALSE /\ exact_id_match' = FALSE
    /\ i' = 1
    /\ pc' = "meters"
    /\ UNCHANGED <<meters_, running_>>

\* handleTelegram of meter i.
OfferToMeter ==
    /\ pc = "meters" /\ i <= Len(meters_)
    /\ IF ForMe(meters_[i].es)
         THEN /\ exact_id_match' = TRUE
              /\ handled' = (handled \/ Decodes(meters_[i].source))
              /\ Update(meters_, i)
         ELSE UNCHANGED <<exact_id_match, handled, meters_, running_>>
    /\ i' = i + 1
    /\ UNCHANGED <<pc, telegram>>

\* Fault: the templates are asked again while no meter could decode the telegram.
AskTemplatesAgain ==
    /\ pc = "meters" /\ i > Len(meters_)
    /\ pc' = IF handled THEN "idle" ELSE "templates"
    /\ i' = 1
    /\ UNCHANGED <<meters_, running_, telegram, handled, exact_id_match>>

AskTemplates ==
    /\ pc = "meters" /\ i > Len(meters_)
    /\ pc' = IF handled \/ exact_id_match THEN "idle" ELSE "templates"
    /\ i' = 1
    /\ UNCHANGED <<meters_, running_, telegram, handled, exact_id_match>>

\* Fault: the first template that fits is the only one used.
OfferToTemplateOnce ==
    /\ pc = "templates" /\ i <= Len(Templates)
    /\ LET es == appendIdentity(Mode(i), telegram.addresses, Templates[i].es)
           added == Append(meters_, NewMeter(i, es))
       IN  IF ForMe(Templates[i].es) /\ ~handled
             THEN /\ handled' = (handled \/ Decodes(i))
                  /\ Update(added, Len(added))
             ELSE UNCHANGED <<handled, meters_, running_>>
    /\ i' = i + 1
    /\ UNCHANGED <<pc, telegram, exact_id_match>>

\* A template that fits makes a meter for the identity of the telegram, which
\* then handles the telegram.
OfferToTemplate ==
    /\ pc = "templates" /\ i <= Len(Templates)
    /\ LET es == appendIdentity(Mode(i), telegram.addresses, Templates[i].es)
           added == Append(meters_, NewMeter(i, es))
       IN  IF ForMe(Templates[i].es)
             THEN IF ForMe(es)
                    THEN handled' = (handled \/ Decodes(i)) /\ Update(added, Len(added))
                    ELSE meters_' = added /\ UNCHANGED <<handled, running_>>
             ELSE UNCHANGED <<handled, meters_, running_>>
    /\ i' = i + 1
    /\ UNCHANGED <<pc, telegram, exact_id_match>>

Finish ==
    /\ pc = "templates" /\ i > Len(Templates)
    /\ pc' = "idle" /\ i' = 1
    /\ UNCHANGED <<meters_, running_, telegram, handled, exact_id_match>>

\* The program was stopped, or the bound is reached.
Ended == pc = "idle" /\ (~running_ \/ Len(meters_) >= MaxMeters) /\ UNCHANGED vars

Next == Receive \/ OfferToMeter \/ AskTemplates \/ OfferToTemplate \/ Finish \/ Ended

Spec == Init /\ [][Next]_vars

-----------------------------------------------------------------------------
(* Properties.                                                              *)

Identities ==
    {build_id(LastOf(p[2].addresses), Mode(p[1])) : p \in Sources \X {t \in Telegrams : t.ok}}
Meters ==
    [source : Sources, es : Seq(AddressExpressions), updated : BOOLEAN, content : SUBSET Identities]

\* The variables stay in their domains, and the index in its list.
TypeOK ==
    /\ meters_ \in Seq(Meters)
    /\ running_ \in BOOLEAN
    /\ pc \in {"idle", "meters", "templates"}
    /\ telegram \in Telegrams
    /\ i \in 1..(1 + IF pc = "templates" THEN Len(Templates) ELSE Len(meters_))
    /\ handled \in BOOLEAN /\ exact_id_match \in BOOLEAN

\* metermanager.cc: "When instantiating a meter from a template we make sure the
\* meter triggers exactly on this identity": the state of a meter is never a
\* mixture of the content of telegrams with different identities, unless its
\* identity mode is none.
MetersSeparated ==
    \A n \in DOMAIN meters_ :
        Mode(meters_[n].source) # "none" => \A x, y \in meters_[n].content : x = y

\* No template makes two meters with the same address expressions, however
\* often the telegrams of a meter could not be decoded.
NoDuplicateMeters ==
    \A m, n \in DOMAIN meters_ :
        meters_[m].source = meters_[n].source /\ meters_[m].es = meters_[n].es => m = n

\* When a telegram was handled, every template that selects it has a meter
\* that selects it, although the templates are only asked when no meter has
\* the address.
Served ==
    telegram.ok => \A s \in DOMAIN Templates :
        ForMe(Templates[s].es) =>
            \E n \in DOMAIN meters_ : meters_[n].source = s /\ ForMe(meters_[n].es)
TemplatesServed == [][pc # "idle" /\ pc' = "idle" => Served']_vars

=============================================================================
