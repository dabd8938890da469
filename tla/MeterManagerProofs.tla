------------------------- MODULE MeterManagerProofs -------------------------
(* For every configuration and every set of telegrams: a meter made from a  *)
(* template selects the telegram it was made for, no template makes two     *)
(* meters with the same address expressions, and, where the configuration   *)
(* allows it, a meter has the content of one identity only.                 *)
EXTENDS MeterManager, TLAPS

\* The elements of a sequence that was appended to.
LEMMA ElementsAppend ==
  ASSUME NEW S, NEW s \in Seq(S), NEW x \in S
  PROVE  Elements(Append(s, x)) = Elements(s) \cup {x}
<1>1. DOMAIN Append(s, x) = DOMAIN s \cup {Len(s) + 1}
  OBVIOUS
<1>2. \A n \in DOMAIN s : Append(s, x)[n] = s[n]
  OBVIOUS
<1>3. Append(s, x)[Len(s) + 1] = x
  OBVIOUS
<1> QED
  BY <1>1, <1>2, <1>3 DEF Elements

\* An identity expression is an address expression.
LEMMA IdentityType ==
  ASSUME NEW a \in Addresses, NEW mode
  PROVE  trimToIdentity(mode, a) \in AddressExpressions
  BY AnyAssumption, Zenon DEF trimToIdentity, Addresses, AddressExpressions

\* An address matches the expression of its own identity.
LEMMA IdentityMatches ==
  ASSUME NEW a \in Addresses, a.id # <<>>, NEW mode
  PROVE  match(trimToIdentity(mode, a), a)
  BY DEF match, trimToIdentity, doesIdMatchExpression, Addresses

\* metermanager.cc: "newly created meter did not match telegram! This is
\* probably an error in wmbusmeters": it cannot happen.  appendIdentity keeps
\* an expression list that selects a telegram selecting it.
THEOREM NewMeterMatches ==
  ASSUME NEW addresses \in Seq(Addresses), addresses # <<>>,
         LastOf(addresses).id # <<>>,
         NEW es \in Seq(AddressExpressions), NEW mode,
         \A ae \in Elements(es) : ~ae.required,
         doesTelegramMatchExpressions(addresses, es)
  PROVE  doesTelegramMatchExpressions(addresses, appendIdentity(mode, addresses, es))
<1> DEFINE a == LastOf(addresses)
           identity == trimToIdentity(mode, a)
<1>1. a \in Addresses /\ a \in Elements(addresses)
  BY DEF LastOf, Elements
<1>2. CASE appendIdentity(mode, addresses, es) = es
  BY <1>2, Zenon
<1>3. CASE appendIdentity(mode, addresses, es) = Append(es, identity)
  <2>1. identity \in AddressExpressions
    BY <1>1, IdentityType, Zenon
  <2>2. Elements(Append(es, identity)) = Elements(es) \cup {identity}
    BY <2>1, ElementsAppend
  <2>3. match(identity, a)
    BY <1>1, IdentityMatches, Zenon
  <2>4. identity.required = TRUE /\ identity.filter_out = FALSE
    BY Zenon DEF trimToIdentity
  <2>5. Matches(addresses, Append(es, identity), FALSE, FALSE)
    BY <2>2, Zenon DEF Matches, doesTelegramMatchExpressions
  <2>6. ~Matches(addresses, Append(es, identity), TRUE, FALSE)
    BY <2>2, <2>4, Zenon DEF Matches, doesTelegramMatchExpressions
  <2>7. Matches(addresses, Append(es, identity), FALSE, TRUE)
    BY <1>1, <2>2, <2>3, <2>4, Zenon DEF Matches
  <2> QED
    BY <1>3, <2>5, <2>6, <2>7, Zenon DEF doesTelegramMatchExpressions
<1> QED
  BY <1>2, <1>3, Zenon DEF appendIdentity

-----------------------------------------------------------------------------

\* The meters that were looked at and have the address are remembered.
Scanned == pc = "meters" => \A n \in 1..(i - 1) : ForMe(meters_[n].es) => exact_id_match

\* While the templates are asked, only the meters made for this telegram have
\* its address.
NewForMe ==
    pc = "templates" =>
        \A n \in DOMAIN meters_ : ForMe(meters_[n].es) => meters_[n].source < i

IInv == TypeOK /\ Scanned /\ NewForMe /\ NoDuplicateMeters

\* A source is a template, or comes after the templates.
LEMMA SourcesOfTemplates ==
  /\ Sources = 1..(Len(Templates) + Len(Fixed))
  /\ DOMAIN Templates = 1..Len(Templates)
  /\ \A s \in DOMAIN Templates : s \in Sources /\ Config[s] = Templates[s]
  /\ \A s \in Sources : Mode(s) \in IdentityModes
  /\ \A s \in DOMAIN Templates : Templates[s].es \in Seq(AddressExpressions)
  /\ DOMAIN Fixed = 1..Len(Fixed) /\ Len(Fixed) \in Nat /\ Len(Templates) \in Nat
  /\ \A s \in DOMAIN Fixed : Fixed[s].es \in Seq(AddressExpressions)
<1> DEFINE C == [es : Seq(AddressExpressions), mode : IdentityModes]
<1>1. Templates \in Seq(C) /\ Fixed \in Seq(C)
  BY TemplatesAssumption, Zenon
<1> HIDE DEF C
<1>2. /\ Templates \o Fixed \in Seq(C)
      /\ Len(Templates \o Fixed) = Len(Templates) + Len(Fixed)
      /\ \A s \in 1..Len(Templates) : (Templates \o Fixed)[s] = Templates[s]
  BY <1>1
<1>3. \A s \in Sources : Config[s] \in C
  BY <1>2 DEF Sources, Config
<1>4. \A s \in Sources : Mode(s) \in IdentityModes
  BY <1>3, Zenon DEF Mode, C
<1>5. /\ \A s \in DOMAIN Templates : Templates[s] \in C
      /\ \A s \in DOMAIN Fixed : Fixed[s] \in C
  BY <1>1
<1>6. /\ \A s \in DOMAIN Templates : Templates[s].es \in Seq(AddressExpressions)
      /\ \A s \in DOMAIN Fixed : Fixed[s].es \in Seq(AddressExpressions)
  BY <1>5, Zenon DEF C
<1> QED
  BY <1>1, <1>2, <1>4, <1>6 DEF Sources, Config

\* The source of a meter is a number.
LEMMA SourceIsNumber ==
  ASSUME NEW meters \in Seq(Meters), NEW k \in DOMAIN meters
  PROVE  meters[k].source \in Nat
<1>1. meters[k] \in Meters
  OBVIOUS
<1>2. meters[k].source \in Sources
  BY <1>1, Zenon DEF Meters
<1> QED
  BY <1>2, SourcesOfTemplates

\* Update keeps the sources and the expressions of the meters.
LEMMA UpdateKeeps ==
  ASSUME telegram \in Telegrams, telegram.ok,
         NEW meters \in Seq(Meters), NEW n \in DOMAIN meters, running_ \in BOOLEAN,
         Update(meters, n)
  PROVE  /\ meters_' \in Seq(Meters) /\ Len(meters_') = Len(meters)
         /\ \A k \in DOMAIN meters :
               meters_'[k].source = meters[k].source /\ meters_'[k].es = meters[k].es
         /\ running_' \in BOOLEAN
<1>1. meters[n] \in Meters
  OBVIOUS
<1>2. build_id(LastOf(telegram.addresses), Mode(meters[n].source)) \in Identities
  <2>1. <<meters[n].source, telegram>> \in Sources \X {t \in Telegrams : t.ok}
    BY <1>1, Zenon DEF Meters
  <2> QED
    BY <2>1 DEF Identities
<1>3. /\ Updated(meters[n]) \in Meters
      /\ Updated(meters[n]).source = meters[n].source
      /\ Updated(meters[n]).es = meters[n].es
  BY <1>1, <1>2, Zenon DEF Updated, Meters
<1>4. CASE meters_' = meters /\ running_' = running_
  BY <1>4, Zenon
<1>5. CASE meters_' = [meters EXCEPT ![n] = Updated(@)] /\ running_' \in BOOLEAN
  BY <1>3, <1>5
<1>6. running_' \in BOOLEAN \/ running_' = running_
  BY Zenon DEF Update
<1> QED
  BY <1>4, <1>5, <1>6, Zenon DEF Update

\* At the start there is one meter for each fixed meter.
LEMMA InitInvariant == Init => IInv
<1> SUFFICES ASSUME Init
             PROVE  IInv
  BY Zenon
<1>1. \A n \in DOMAIN Fixed : NewMeter(Len(Templates) + n, Fixed[n].es) \in Meters
  <2> SUFFICES ASSUME NEW n \in DOMAIN Fixed
               PROVE  NewMeter(Len(Templates) + n, Fixed[n].es) \in Meters
    BY Zenon
  <2>1. Len(Templates) + n \in Sources
    BY SourcesOfTemplates
  <2>2. Fixed[n].es \in Seq(AddressExpressions)
    BY SourcesOfTemplates, Zenon
  <2> QED
    BY <2>1, <2>2, Zenon DEF NewMeter, Meters
<1>2. meters_ \in Seq(Meters) /\ Len(meters_) = Len(Fixed)
  <2>1. meters_ \in [1..Len(Fixed) -> Meters]
    BY <1>1, SourcesOfTemplates, Zenon DEF Init
  <2> QED
    BY <2>1, SourcesOfTemplates
<1>3. TypeOK
  <2>1. i \in 1..(1 + Len(meters_))
    BY <1>2, SourcesOfTemplates DEF Init
  <2> QED
    BY <1>2, <2>1, Zenon DEF Init, TypeOK
<1>4. NoDuplicateMeters
  BY <1>2, SourcesOfTemplates DEF Init, NoDuplicateMeters, NewMeter
<1> QED
  BY <1>3, <1>4, Zenon DEF Init, IInv, Scanned, NewForMe

\* A step of handleTelegram keeps the invariant.
LEMMA StepInvariant == IInv /\ [Next]_vars => IInv'
<1> SUFFICES ASSUME IInv, [Next]_vars
             PROVE  IInv'
  BY Zenon
<1> USE DEF IInv
<1>1. CASE Receive
  <2>1. i' \in 1..(1 + Len(meters_'))
    BY <1>1 DEF Receive, TypeOK
  <2>2. TypeOK'
    BY <1>1, <2>1, Zenon DEF Receive, TypeOK
  <2>3. Scanned'
    BY <1>1 DEF Receive, Scanned
  <2> QED
    BY <1>1, <2>2, <2>3, Zenon DEF Receive, NewForMe, NoDuplicateMeters
<1>2. CASE OfferToMeter
  <2>1. i \in DOMAIN meters_ /\ telegram' = telegram /\ pc' = pc /\ pc = "meters" /\ i' = i + 1
    BY <1>2 DEF OfferToMeter, TypeOK
  <2>2. CASE ForMe(meters_[i].es)
    <3>1. telegram.ok /\ telegram \in Telegrams
      BY <2>2, Zenon DEF ForMe, TypeOK
    <3>2. Update(meters_, i) /\ exact_id_match' = TRUE
      BY <1>2, <2>2, Zenon DEF OfferToMeter
    <3>3. /\ meters_' \in Seq(Meters) /\ Len(meters_') = Len(meters_)
          /\ \A k \in DOMAIN meters_ :
                meters_'[k].source = meters_[k].source /\ meters_'[k].es = meters_[k].es
          /\ running_' \in BOOLEAN
      BY <2>1, <3>1, <3>2, UpdateKeeps, Zenon DEF TypeOK
    <3>4. handled' \in BOOLEAN
      BY <1>2, <2>2, Zenon DEF OfferToMeter
    <3>5. TypeOK'
      BY <2>1, <3>2, <3>3, <3>4 DEF TypeOK
    <3>6. NoDuplicateMeters'
      BY <3>3 DEF NoDuplicateMeters, TypeOK
    <3> QED
      BY <2>1, <3>2, <3>5, <3>6, Zenon DEF Scanned, NewForMe
  <2>3. CASE ~ForMe(meters_[i].es)
    <3>1. UNCHANGED <<meters_, running_, handled, exact_id_match>>
      BY <1>2, <2>3, Zenon DEF OfferToMeter
    <3>2. TypeOK'
      BY <2>1, <3>1 DEF TypeOK
    <3>3. Scanned'
      BY <2>1, <2>3, <3>1 DEF Scanned, ForMe, TypeOK
    <3> QED
      BY <2>1, <3>1, <3>2, <3>3 DEF NewForMe, NoDuplicateMeters
  <2> QED
    BY <2>2, <2>3, Zenon
<1>3. CASE AskTemplates
  <2>1. TypeOK'
    BY <1>3, TemplatesAssumption DEF AskTemplates, TypeOK
  <2>2. NewForMe'
    BY <1>3 DEF AskTemplates, TypeOK, Scanned, NewForMe, ForMe
  <2> QED
    BY <1>3, <2>1, <2>2, Zenon DEF AskTemplates, Scanned, NoDuplicateMeters
<1>4. CASE OfferToTemplate
  <2>1. /\ pc = "templates" /\ pc' = "templates" /\ i \in DOMAIN Templates /\ i' = i + 1
        /\ telegram' = telegram /\ exact_id_match' = exact_id_match
    BY <1>4, TemplatesAssumption DEF OfferToTemplate, TypeOK
  <2> DEFINE es == appendIdentity(Mode(i), telegram.addresses, Templates[i].es)
             added == Append(meters_, NewMeter(i, es))
  <2>2. CASE ForMe(Templates[i].es)
    <3>1. telegram \in Telegrams /\ telegram.ok
      BY <2>2, Zenon DEF ForMe, TypeOK
    <3>2. Templates[i].es \in Seq(AddressExpressions)
          /\ \A ae \in Elements(Templates[i].es) : ~ae.required
      BY <2>1, TemplatesAssumption, SourcesOfTemplates, Zenon
    <3>3. telegram.addresses \in Seq(Addresses) /\ telegram.addresses # <<>>
          /\ LastOf(telegram.addresses).id # <<>>
      BY <3>1, TelegramsAssumption, Zenon
    <3>4. es \in Seq(AddressExpressions)
      <4>1. LastOf(telegram.addresses) \in Addresses
        BY <3>3 DEF LastOf
      <4>2. trimToIdentity(Mode(i), LastOf(telegram.addresses)) \in AddressExpressions
        BY <4>1, IdentityType, Zenon
      <4> QED
        BY <3>2, <4>2 DEF appendIdentity
    <3>5. ForMe(es)
      BY <2>2, <3>1, <3>2, <3>3, NewMeterMatches, Zenon DEF ForMe
    <3>6. NewMeter(i, es) \in Meters
      BY <2>1, <3>4, SourcesOfTemplates, Zenon DEF NewMeter, Meters
    <3> HIDE DEF es
    <3>7. /\ added \in Seq(Meters) /\ Len(added) = Len(meters_) + 1
          /\ added[Len(added)] = NewMeter(i, es)
          /\ \A k \in DOMAIN meters_ : added[k] = meters_[k]
      BY <3>6 DEF TypeOK
    <3>8. Update(added, Len(added)) /\ handled' \in BOOLEAN
      BY <1>4, <2>2, <3>5, Zenon DEF OfferToTemplate, TypeOK, es
    <3> HIDE DEF added
    <3>9. /\ meters_' \in Seq(Meters) /\ Len(meters_') = Len(added)
          /\ \A k \in DOMAIN added :
                meters_'[k].source = added[k].source /\ meters_'[k].es = added[k].es
          /\ running_' \in BOOLEAN
      BY <3>1, <3>7, <3>8, UpdateKeeps DEF TypeOK
    <3>10. /\ Len(meters_') = Len(meters_) + 1 /\ DOMAIN meters_' = DOMAIN meters_ \cup {Len(meters_')}
           /\ meters_'[Len(meters_')].source = i /\ meters_'[Len(meters_')].es = es
           /\ \A k \in DOMAIN meters_ : /\ k # Len(meters_')
                                       /\ meters_'[k].source = meters_[k].source
                                       /\ meters_'[k].es = meters_[k].es
      BY <3>7, <3>9 DEF NewMeter, TypeOK
    <3>11. TypeOK'
      BY <2>1, <3>8, <3>9, TemplatesAssumption DEF TypeOK
    <3>12. \A k \in DOMAIN meters_ : ForMe(meters_[k].es) => meters_[k].source < i
      BY <2>1, Zenon DEF NewForMe
    <3>13. NewForMe'
      <4> SUFFICES ASSUME NEW k \in DOMAIN meters_', ForMe(meters_[k].es)'
                   PROVE  meters_'[k].source < i + 1
        BY <2>1, Zenon DEF NewForMe
      <4>1. ForMe(meters_'[k].es)
        BY <2>1, Zenon DEF ForMe
      <4>2. i \in Nat
        BY <2>1, SourcesOfTemplates
      <4>3. CASE k = Len(meters_')
        BY <3>10, <4>2, <4>3
      <4>4. CASE k \in DOMAIN meters_
        <5>1. meters_[k].source \in Nat
          BY <4>4, SourceIsNumber, Zenon DEF TypeOK
        <5> QED
          BY <3>10, <3>12, <4>1, <4>2, <4>4, <5>1
      <4> QED
        BY <3>10, <4>3, <4>4, Zenon
    <3>14. \A k \in DOMAIN meters_ : ~(meters_[k].source = i /\ meters_[k].es = es)
      BY <2>1, <3>5, <3>12, SourcesOfTemplates
    <3>15. NoDuplicateMeters'
      BY <3>10, <3>14 DEF NoDuplicateMeters
    <3> QED
      BY <2>1, <3>11, <3>13, <3>15, Zenon DEF Scanned
  <2>3. CASE ~ForMe(Templates[i].es)
    <3>1. UNCHANGED <<handled, meters_, running_>>
      BY <1>4, <2>3, Zenon DEF OfferToTemplate
    <3>2. TypeOK'
      BY <2>1, <3>1, TemplatesAssumption DEF TypeOK
    <3>3. NewForMe'
      <4> SUFFICES ASSUME NEW k \in DOMAIN meters_, ForMe(meters_[k].es)'
                   PROVE  meters_[k].source < i + 1
        BY <2>1, <3>1, Zenon DEF NewForMe
      <4>1. ForMe(meters_[k].es)
        BY <2>1, <3>1, Zenon DEF ForMe
      <4>2. i \in Nat /\ meters_[k].source \in Nat
        BY <2>1, SourcesOfTemplates, SourceIsNumber DEF TypeOK
      <4> QED
        BY <2>1, <4>1, <4>2 DEF NewForMe
    <3> QED
      BY <2>1, <3>1, <3>2, <3>3, Zenon DEF Scanned, NoDuplicateMeters
  <2> QED
    BY <2>2, <2>3, Zenon
<1>5. CASE Finish
  BY <1>5 DEF Finish, TypeOK, Scanned, NewForMe, NoDuplicateMeters
<1>6. CASE Ended \/ UNCHANGED vars
  BY <1>6, Zenon DEF Ended, vars, TypeOK, Scanned, NewForMe, NoDuplicateMeters, ForMe
<1> QED
  BY <1>1, <1>2, <1>3, <1>4, <1>5, <1>6, Zenon DEF Next

\* For every configuration: whatever telegrams arrive and however many of them
\* cannot be decoded, a template never makes two meters with the same address
\* expressions, and the types hold.
THEOREM NoMeterTwice == Spec => [](TypeOK /\ NoDuplicateMeters)
<1>1. IInv => TypeOK /\ NoDuplicateMeters
  BY Zenon DEF IInv
<1> QED
  BY <1>1, InitInvariant, StepInvariant, PTL DEF Spec

-----------------------------------------------------------------------------
(* Meters keep the content of telegrams with different identities apart.    *)

Good == {t \in Telegrams : t.ok}
Identity(t, mode) == build_id(LastOf(t.addresses), mode)
Selects(es, t) == doesTelegramMatchExpressions(t.addresses, es)

\* The expressions select the telegrams of one identity only.
Selective(es, mode) ==
    \A t, u \in Good : Selects(es, t) /\ Selects(es, u) => Identity(t, mode) = Identity(u, mode)

\* An exact expression of a list is the only one in it that selects.
OneNamed(es) ==
    \A x, y \in Elements(es) : ~x.filter_out /\ ~x.has_wildcard /\ ~y.filter_out => x = y

\* When the promise is made: no template lists several ids, a fixed meter is
\* configured for one identity, a telegram does not carry the identity of another
\* meter as an additional address, and no meter calls itself "any".
Separable ==
    /\ \A s \in DOMAIN Templates : Templates[s].mode = "none" \/ OneNamed(Templates[s].es)
    /\ \A s \in DOMAIN Fixed : Fixed[s].mode = "none" \/ Selective(Fixed[s].es, Fixed[s].mode)
    /\ \A t, u \in Good : \A a \in Elements(u.addresses) : \A mode \in IdentityModes :
          build_id(a, mode) = Identity(t, mode) => Identity(u, mode) = Identity(t, mode)
    /\ \A t \in Good : LET a == LastOf(t.addresses) IN
          a.mfct # AnyMfct /\ a.version # AnyVersion /\ a.type # AnyType

\* The address that matches the expression of an identity has the identity.
LEMMA MatchIsIdentity ==
  ASSUME NEW a \in Addresses, NEW b \in Addresses, NEW mode \in IdentityModes,
         a.mfct # AnyMfct, a.version # AnyVersion, a.type # AnyType,
         NEW ae \in AddressExpressions, SameExpression(ae, trimToIdentity(mode, a)), match(ae, b)
  PROVE  build_id(b, mode) = build_id(a, mode)
<1>1. /\ ae.id = a.id /\ ae.has_wildcard = FALSE
      /\ ae.mfct = IF mode \in {"id-mfct", "full"} THEN a.mfct ELSE AnyMfct
      /\ ae.version = IF mode = "full" THEN a.version ELSE AnyVersion
      /\ ae.type = IF mode = "full" THEN a.type ELSE AnyType
  BY Zenon DEF SameExpression, trimToIdentity, AddressExpressions
<1>2. a.id = b.id
  <2>1. a.id \in Seq(Digits) /\ b.id \in Seq(Digits)
    BY Zenon DEF Addresses
  <2>2. Len(a.id) = Len(b.id) /\ \A k \in DOMAIN a.id : a.id[k] = b.id[k]
    BY <1>1, Zenon DEF match, doesIdMatchExpression
  <2> QED
    BY <2>1, <2>2
<1>3. /\ mode \in {"id-mfct", "full"} => a.mfct = b.mfct
      /\ mode = "full" => a.version = b.version /\ a.type = b.type
  BY <1>1, Zenon DEF match
<1> QED
  BY <1>2, <1>3, Zenon DEF build_id, IdentityModes

\* A meter made from a template selects the identity it was made for.
LEMMA NewMeterSelective ==
  ASSUME Separable, NEW s \in DOMAIN Templates, Templates[s].mode # "none", NEW t \in Good
  PROVE  Selective(appendIdentity(Templates[s].mode, t.addresses, Templates[s].es), Templates[s].mode)
<1> DEFINE mode == Templates[s].mode
           es == Templates[s].es
           a == LastOf(t.addresses)
           identity == trimToIdentity(mode, a)
           es2 == appendIdentity(mode, t.addresses, es)
<1>1. /\ es \in Seq(AddressExpressions) /\ mode \in IdentityModes /\ \A ae \in Elements(es) : ~ae.required
      /\ \A ae \in Elements(es) : ae \in AddressExpressions
  <2>1. es \in Seq(AddressExpressions) /\ mode \in IdentityModes
    BY SourcesOfTemplates, Zenon DEF Mode
  <2> QED
    BY <2>1, TemplatesAssumption DEF Elements
<1>2. /\ a \in Addresses /\ a.mfct # AnyMfct /\ a.version # AnyVersion /\ a.type # AnyType
      /\ identity \in AddressExpressions
  <2>1. a \in Addresses
    BY TelegramsAssumption DEF Good, LastOf
  <2>2. a.mfct # AnyMfct /\ a.version # AnyVersion /\ a.type # AnyType
    BY Zenon DEF Separable
  <2> QED
    BY <2>1, <2>2, IdentityType, Zenon
<1>3. ASSUME NEW u \in Good, Selects(es2, u) PROVE Identity(u, mode) = Identity(t, mode)
  <2>1. \A b \in Elements(u.addresses) : b \in Addresses
    BY TelegramsAssumption DEF Good, Elements
  <2>2. ASSUME NEW b \in Elements(u.addresses), NEW ae \in AddressExpressions,
               SameExpression(ae, identity), match(ae, b)
        PROVE  Identity(u, mode) = Identity(t, mode)
    <3>1. build_id(b, mode) = build_id(a, mode)
      BY <1>1, <1>2, <2>1, <2>2, MatchIsIdentity, Zenon
    <3> QED
      BY <1>1, <3>1, Zenon DEF Separable, Identity
  <2>3. CASE es2 = es /\ \E ae \in Elements(es) : SameExpression(ae, identity)
    <3>1. PICK ae \in Elements(es) : SameExpression(ae, identity)
      BY <2>3, Zenon
    <3>2. ~ae.filter_out /\ ~ae.has_wildcard
      BY <1>1, <3>1, Zenon DEF SameExpression, trimToIdentity, AddressExpressions
    <3>3. PICK b \in Elements(u.addresses), x \in Elements(es) : x.filter_out = FALSE /\ match(x, b)
      BY <1>3, <2>3, Zenon DEF Selects, doesTelegramMatchExpressions, Matches
    <3>4. x = ae
      BY <3>1, <3>2, <3>3, Zenon DEF Separable, OneNamed
    <3> QED
      BY <1>1, <2>2, <3>1, <3>3, <3>4, Zenon
  <2>4. CASE es2 = Append(es, identity)
    <3>1. Elements(es2) = Elements(es) \cup {identity}
      BY <1>1, <1>2, <2>4, ElementsAppend
    <3>2. identity.required = TRUE
      BY Zenon DEF trimToIdentity
    <3>3. PICK b \in Elements(u.addresses), x \in Elements(es2) : x.required = TRUE /\ match(x, b)
      BY <1>3, <3>1, <3>2, Zenon DEF Selects, doesTelegramMatchExpressions, Matches
    <3>4. x = identity /\ SameExpression(identity, identity)
      BY <1>1, <3>1, <3>3, Zenon DEF SameExpression
    <3> QED
      BY <1>2, <2>2, <3>3, <3>4, Zenon
  <2> QED
    BY <2>3, <2>4, Zenon DEF appendIdentity
<1> QED
  BY <1>3, Zenon DEF Selective

\* The content of a meter comes from telegrams that it selects, and these have
\* one identity.
Chosen(m) ==
    /\ \A x \in m.content : \E t \in Good : Selects(m.es, t) /\ x = Identity(t, Mode(m.source))
    /\ Mode(m.source) # "none" => Selective(m.es, Mode(m.source))
AllChosen == \A n \in DOMAIN meters_ : Chosen(meters_[n])
SeparatedInv == IInv /\ AllChosen

\* An update of a meter that selects the telegram.
LEMMA UpdateChosen ==
  ASSUME telegram \in Telegrams,
         NEW meters \in Seq(Meters), NEW n \in DOMAIN meters, ForMe(meters[n].es),
         \A k \in DOMAIN meters : Chosen(meters[k]),
         Update(meters, n)
  PROVE  AllChosen'
<1>1. telegram \in Good /\ Selects(meters[n].es, telegram)
  BY Zenon DEF ForMe, Good, Selects
<1>2. Chosen(Updated(meters[n]))
  <2> DEFINE m == meters[n]
             u == Updated(m)
  <2>1. m \in Meters /\ Chosen(m)
    OBVIOUS
  <2>2. u.source = m.source /\ u.es = m.es
        /\ u.content = m.content \cup {Identity(telegram, Mode(m.source))}
    BY <2>1, Zenon DEF Updated, Meters, Identity
  <2> HIDE DEF m, u
  <2>3. Selects(m.es, telegram)
    BY <1>1, Zenon DEF m
  <2> QED
    BY <1>1, <2>1, <2>2, <2>3 DEF Chosen, m, u
<1>3. meters_' = meters \/ meters_' = [meters EXCEPT ![n] = Updated(@)]
  BY Zenon DEF Update
<1>4. \A k \in DOMAIN meters_' : Chosen(meters_'[k])
  BY <1>2, <1>3, Zenon
<1> QED
  BY <1>4, Zenon DEF AllChosen, Chosen

\* At the start no meter has content.
LEMMA InitChosen ==
  ASSUME Separable, Init
  PROVE  AllChosen
<1> SUFFICES ASSUME NEW n \in DOMAIN meters_
             PROVE  Chosen(meters_[n])
  BY Zenon DEF AllChosen
<1>1. n \in DOMAIN Fixed /\ meters_[n] = NewMeter(Len(Templates) + n, Fixed[n].es)
  BY Zenon DEF Init
<1>2. Mode(Len(Templates) + n) = Fixed[n].mode
  BY <1>1, TemplatesAssumption DEF Mode, Config
<1>3. Fixed[n].mode = "none" \/ Selective(Fixed[n].es, Fixed[n].mode)
  BY <1>1, Zenon DEF Separable
<1>4. /\ meters_[n].content = {} /\ meters_[n].es = Fixed[n].es
      /\ meters_[n].source = Len(Templates) + n
  BY <1>1 DEF NewMeter
<1> QED
  BY <1>2, <1>3, <1>4, Zenon DEF Chosen

\* A step of handleTelegram keeps the content of the meters apart.
LEMMA StepChosen ==
  ASSUME Separable, SeparatedInv, [Next]_vars
  PROVE  AllChosen'
<1> USE DEF SeparatedInv, IInv
<1>1. CASE UNCHANGED meters_
  BY <1>1 DEF AllChosen, Chosen
<1>2. CASE OfferToMeter /\ ForMe(meters_[i].es)
  <2>1. Update(meters_, i) /\ i \in DOMAIN meters_
    BY <1>2 DEF OfferToMeter, TypeOK
  <2> QED
    BY <1>2, <2>1, UpdateChosen, Zenon DEF TypeOK, AllChosen
<1>3. CASE OfferToTemplate /\ ForMe(Templates[i].es)
  <2> DEFINE es == appendIdentity(Mode(i), telegram.addresses, Templates[i].es)
             added == Append(meters_, NewMeter(i, es))
  <2>1. i \in DOMAIN Templates /\ i \in Sources /\ Mode(i) = Templates[i].mode
    BY <1>3, SourcesOfTemplates DEF OfferToTemplate, TypeOK, Mode
  <2>2. telegram \in Good
    BY <1>3, Zenon DEF ForMe, Good, TypeOK
  <2>3. telegram.addresses \in Seq(Addresses) /\ telegram.addresses # <<>>
        /\ LastOf(telegram.addresses).id # <<>>
    BY <2>2, TelegramsAssumption, Zenon DEF Good
  <2>4. Templates[i].es \in Seq(AddressExpressions)
        /\ \A ae \in Elements(Templates[i].es) : ~ae.required
    BY <2>1, TemplatesAssumption, SourcesOfTemplates, Zenon
  <2>5. es \in Seq(AddressExpressions)
    <3>1. LastOf(telegram.addresses) \in Addresses
      BY <2>3 DEF LastOf
    <3>2. trimToIdentity(Mode(i), LastOf(telegram.addresses)) \in AddressExpressions
      BY <3>1, IdentityType, Zenon
    <3> QED
      BY <2>4, <3>2 DEF appendIdentity
  <2>6. ForMe(es)
    BY <1>3, <2>3, <2>4, NewMeterMatches, Zenon DEF ForMe
  <2>7. Mode(i) # "none" => Selective(es, Mode(i))
    BY <2>1, <2>2, NewMeterSelective, Zenon
  <2>8. Update(added, Len(added))
    BY <1>3, <2>6, Zenon DEF OfferToTemplate
  <2> HIDE DEF es
  <2>9. NewMeter(i, es) \in Meters /\ Chosen(NewMeter(i, es)) /\ NewMeter(i, es).es = es
    BY <2>1, <2>5, <2>7, Zenon DEF NewMeter, Meters, Chosen
  <2>10. /\ added \in Seq(Meters) /\ Len(added) \in DOMAIN added
         /\ added[Len(added)] = NewMeter(i, es)
         /\ \A k \in DOMAIN added : \/ added[k] = NewMeter(i, es)
                                    \/ k \in DOMAIN meters_ /\ added[k] = meters_[k]
    <3> DEFINE m == NewMeter(i, es)
    <3>1. m \in Meters /\ meters_ \in Seq(Meters)
      BY <2>9, Zenon DEF TypeOK
    <3> HIDE DEF m
    <3> QED
      BY <3>1 DEF m
  <2> HIDE DEF added
  <2>11. \A k \in DOMAIN added : Chosen(added[k])
    BY <2>9, <2>10, Zenon DEF AllChosen
  <2>12. ForMe(added[Len(added)].es)
    BY <2>6, <2>9, <2>10, Zenon
  <2> QED
    BY <2>8, <2>10, <2>11, <2>12, UpdateChosen, Zenon DEF TypeOK
<1> QED
  BY <1>1, <1>2, <1>3, Zenon
  DEF Next, vars, Receive, OfferToMeter, AskTemplates, OfferToTemplate, Finish, Ended

\* metermanager.cc: "When instantiating a meter from a template we make sure the
\* meter triggers exactly on this identity".  It does when no template lists an
\* exact id beside other ids: appendIdentity then never leaves out the required
\* expression that keeps the content of a meter apart.
THEOREM MetersStaySeparated == Separable => (Spec => []MetersSeparated)
<1> SUFFICES ASSUME Separable
             PROVE  Spec => []MetersSeparated
  BY Zenon
<1>1. Init => SeparatedInv
  BY InitInvariant, InitChosen, Zenon DEF SeparatedInv
<1>2. SeparatedInv /\ [Next]_vars => SeparatedInv'
  BY StepInvariant, StepChosen, Zenon DEF SeparatedInv
<1>3. SeparatedInv => MetersSeparated
  <2> SUFFICES ASSUME SeparatedInv, NEW n \in DOMAIN meters_, Mode(meters_[n].source) # "none",
                      NEW x \in meters_[n].content, NEW y \in meters_[n].content
               PROVE  x = y
    BY Zenon DEF MetersSeparated
  <2>1. Chosen(meters_[n])
    BY Zenon DEF SeparatedInv, AllChosen
  <2> QED
    BY <2>1, Zenon DEF Chosen, Selective
<1> QED
  BY <1>1, <1>2, <1>3, PTL DEF Spec
=============================================================================
