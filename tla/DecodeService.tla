--------------------------- MODULE DecodeService ---------------------------
(* The devices SOCKET and XMQTTY: programs send lines that ask for a         *)
(* telegram to be decoded, with a key, and get an answer for each.  The      *)
(* meters made for this are kept in a cache.  The service runs on the event  *)
(* loop thread, like the telegrams of the other devices, and shares with     *)
(* them the formats that were learned.                                       *)
EXTENDS Telegram, FiniteSetsExt

CONSTANTS
    Clients,    \* the programs that connect to the socket
    Lines,      \* what they send: [cmd, telegram, key, driver]
    Heard,      \* bound: a receiver beside the service hears one of these, at first
    MaxLines,   \* bound: lines the clients send
    MaxUnread   \* answers that fit into the buffer of a connection

NoClient == "no client"
\* A line that is not xmq, json or xml.
Garbage == [cmd |-> "garbage", telegram |-> NoContent, key |-> NoKey, driver |-> "auto"]

ASSUME LinesAssumption ==
    \A l \in Lines :
        /\ l.cmd \in {"decode", "no telegram", "no hex", "list_drivers", "bogus", "garbage"}
        /\ l.cmd = "decode" => IsTelegram(l.telegram)
ASSUME ServiceAssumption ==
    Clients # {} /\ NoClient \notin Clients /\ Heard \subseteq Air /\ MaxLines \in Nat /\ MaxUnread \in Nat

VARIABLES
    service,      \* the device: "", "socket" or "xmqtty"
    backlog,      \* clients that wait for accept
    client_fd_,   \* the client that was accepted
    link,         \* of each client: its end of the connection
    data,         \* what was received and is not yet processed
    line_buffer_,
    meter_cache_, \* meters by id
    killed        \* the program was ended by SIGPIPE

serviceVars == <<service, backlog, client_fd_, link, data, line_buffer_, meter_cache_, killed>>
allVars == <<vars, serviceVars>>

-----------------------------------------------------------------------------
(* Decoding a line.                                                          *)

Error(l) == [line |-> l, status |-> "error", shown |-> NoContent]

DriverNames == {d.name : d \in Drivers} \union {"unknown"}

pickMeterDriver(a) ==
    LET fits == {d.name : d \in {d \in Drivers : a.mt \in d.mts}}
    IN IF fits = {} THEN "unknown" ELSE CHOOSE n \in fits : TRUE

defaultKeys(driver) ==
    LET named == {d \in Drivers : d.name = driver}
    IN IF named = {} THEN <<>> ELSE (CHOOSE d \in named : TRUE).default_keys

\* The id of the last address the header shows.
LastId(a, h) ==
    CASE a.tpl_id \in h.addresses -> a.tpl_id
      [] a.tpl_id \notin h.addresses /\ a.ell_id \in h.addresses -> a.ell_id
      [] OTHER -> a.dll

\* A meter for exactly this address, with the key of the request.
createMeter(l, driver) ==
    [mt |-> l.telegram.mt, driver |-> driver, key |-> l.key,
     meter_keys_ |-> NewKeys(l.key, defaultKeys(driver)), shown |-> NoContent]

ReusableAnyKey(cache, id, l) == id \in DOMAIN cache

\* A cached meter is used if the request has the key it was made with.
Reusable(cache, id, l) == id \in DOMAIN cache /\ cache[id].key = l.key

Unchanged(l) == [answer |-> Error(l), cache |-> meter_cache_, formats |-> hash_to_format_]

\* The meter's handleTelegram, which neither warns nor remembers to have warned.
Decoded(l, id, status, meter, formats) ==
    [answer |-> [line |-> l, status |-> status, shown |-> meter.shown],
     cache |-> [n \in DOMAIN meter_cache_ \union {id} |-> IF n = id THEN meter ELSE meter_cache_[n]],
     formats |-> formats]

DecodedFrom(l, id, meter, p) ==
    LET status == IF p.ok THEN "ok"
                  ELSE IF p.decryption_failed THEN "decryption failed" ELSE "decoding failed"
        after == [meter EXCEPT !.meter_keys_ = Keys(p), !.shown = IF p.ok THEN p.dv_entries ELSE @]
    IN Decoded(l, id, status, after, p.formats)

DecodeWith(l, id, h, meter) ==
    IF meter.mt = l.telegram.mt
    THEN DecodedFrom(l, id, meter, parse(l.telegram, SecondParse(h, meter.meter_keys_, FALSE, TRUE)))
    ELSE Decoded(l, id, "decoding failed", meter, h.formats)

driverOf(l) == IF l.driver = "auto" THEN pickMeterDriver(l.telegram) ELSE l.driver

DecodeHeader(cache, l, id, h) ==
    IF h.ok /\ Reusable(cache, id, l) THEN DecodeWith(l, id, h, cache[id])
    ELSE IF h.ok /\ driverOf(l) \in DriverNames THEN DecodeWith(l, id, h, createMeter(l, driverOf(l)))
    ELSE [Unchanged(l) EXCEPT !.formats = h.formats]

DecodeParsed(cache, l, h) == DecodeHeader(cache, l, LastId(l.telegram, h), h)

handleDecode(cache, l) == DecodeParsed(cache, l, parseHeader(l.telegram, NewTelegram))

\* The reply to a line is one answer; xmqtty goes on after a line it cannot parse,
\* and then misses the telegram in it.
Answers(l, answer) == IF service = "xmqtty" /\ l.cmd = "garbage" THEN <<answer, answer>> ELSE <<answer>>

\* xmqtty knows no other command than decode: it misses the telegram in them.
processLine(l) ==
    CASE l.cmd = "decode" -> handleDecode(meter_cache_, l)
      [] l.cmd = "list_drivers" /\ service = "socket" -> [Unchanged(l) EXCEPT !.answer.status = "drivers"]
      [] OTHER -> Unchanged(l)

-----------------------------------------------------------------------------
(* The clients.  A line arrives in two pieces, the second with its newline.  *)

Offline == [state |-> "off", lines |-> <<>>, begun |-> <<>>, inbox |-> <<>>, replies |-> <<>>, read |-> 0]

ServiceInit ==
    /\ Init
    /\ service \in {"", "socket", "xmqtty"}
    /\ service # "" => telegram \in Heard
    /\ backlog = <<>>
    /\ \/ service # "xmqtty" /\ client_fd_ = NoClient /\ link = [c \in Clients |-> Offline]
       \/ /\ service = "xmqtty"
          /\ client_fd_ = CHOOSE c \in Clients : TRUE
          /\ link = [c \in Clients |-> IF c = client_fd_ THEN [Offline EXCEPT !.state = "open"] ELSE Offline]
    /\ data = <<>>
    /\ line_buffer_ = <<>>
    /\ meter_cache_ = << >>
    /\ killed = FALSE

ClientStep(c, new) ==
    /\ ~killed /\ i > Len(Meters)
    /\ link' = [link EXCEPT ![c] = new]
    /\ UNCHANGED <<vars, service, client_fd_, data, line_buffer_, meter_cache_, killed>>

\* listen(listen_fd_, 1): the kernel lets two clients wait.
Connect(c) ==
    /\ service = "socket" /\ link[c].state = "off" /\ Len(backlog) < 2
    /\ backlog' = Append(backlog, c)
    /\ ClientStep(c, [link[c] EXCEPT !.state = "open"])

Begun == MapThenSumSet(LAMBDA c : Len(link[c].lines) + Len(link[c].begun), Clients)

BeginLine(c) ==
    /\ link[c].state = "open" /\ link[c].begun = <<>> /\ Begun < MaxLines
    /\ \E l \in Lines :
          ClientStep(c, [link[c] EXCEPT !.begun = <<l>>, !.inbox = Append(@, [line |-> l, newline |-> FALSE])])
    /\ UNCHANGED backlog

EndLine(c) ==
    /\ link[c].state = "open" /\ link[c].begun # <<>>
    /\ LET l == Head(link[c].begun)
       IN ClientStep(c, [link[c] EXCEPT !.begun = <<>>, !.lines = Append(@, l),
                                        !.inbox = Append(@, [line |-> l, newline |-> TRUE])])
    /\ UNCHANGED backlog

ReadAnswer(c) ==
    /\ link[c].state = "open" /\ link[c].read < Len(link[c].replies)
    /\ ClientStep(c, [link[c] EXCEPT !.read = @ + 1])
    /\ UNCHANGED backlog

CloseClient(c) ==
    /\ service = "socket" /\ link[c].state = "open"
    /\ ClientStep(c, [link[c] EXCEPT !.state = "closed"])
    /\ UNCHANGED backlog

-----------------------------------------------------------------------------
(* processSerialData, and the event loop that calls it.                      *)

\* The event loop thread handles neither a telegram nor a line.
EventLoopFree == ~killed /\ i > Len(Meters) /\ data = <<>>

KeepLine(buffer) == buffer
\* A new client starts with an empty line.
ClearLine(buffer) == <<>>

acceptClient ==
    /\ EventLoopFree /\ service = "socket"
    /\ client_fd_ = NoClient /\ backlog # <<>>
    /\ client_fd_' = Head(backlog)
    /\ backlog' = Tail(backlog)
    /\ line_buffer_' = ClearLine(line_buffer_)
    /\ UNCHANGED <<vars, service, link, data, meter_cache_, killed>>

receive ==
    /\ EventLoopFree
    /\ client_fd_ # NoClient /\ link[client_fd_].inbox # <<>>
    /\ data' = link[client_fd_].inbox
    /\ link' = [link EXCEPT ![client_fd_].inbox = <<>>]
    /\ UNCHANGED <<vars, service, backlog, client_fd_, line_buffer_, meter_cache_, killed>>

disconnectClientOnly ==
    /\ EventLoopFree
    /\ client_fd_ # NoClient /\ link[client_fd_].inbox = <<>> /\ link[client_fd_].state = "closed"
    /\ line_buffer_' = ClearLine(line_buffer_)
    /\ UNCHANGED <<vars, service, backlog, client_fd_, link, data, meter_cache_, killed>>

disconnectClient ==
    /\ EventLoopFree
    /\ client_fd_ # NoClient /\ link[client_fd_].inbox = <<>> /\ link[client_fd_].state = "closed"
    /\ client_fd_' = NoClient
    /\ line_buffer_' = ClearLine(line_buffer_)
    /\ UNCHANGED <<vars, service, backlog, link, data, meter_cache_, killed>>

processSerialData == acceptClient \/ receive \/ disconnectClient

\* The line the pieces make.
LineOf(pieces) ==
    LET l == Head(pieces).line
    IN IF pieces = <<[line |-> l, newline |-> FALSE], [line |-> l, newline |-> TRUE]>> THEN l ELSE Garbage

AddToLine ==
    /\ ~killed /\ data # <<>> /\ ~Head(data).newline
    /\ line_buffer_' = Append(line_buffer_, Head(data))
    /\ data' = Tail(data)
    /\ UNCHANGED <<vars, service, backlog, client_fd_, link, meter_cache_, killed>>

Unread(c) == Len(link[c].replies) - link[c].read

\* A write to a connection that the client has closed raises SIGPIPE, which
\* nobody handles; when the client does not read, what does not fit is cut off.
send(c, answers) ==
    /\ killed' = (link[c].state = "closed")
    /\ link' = IF killed' THEN link
               ELSE [link EXCEPT ![c].replies =
                        Append(@, IF service = "socket" /\ Unread(c) >= MaxUnread
                                  THEN [n \in DOMAIN answers |-> [answers[n] EXCEPT !.status = "cut"]]
                                  ELSE answers)]

Finish(done) ==
    /\ send(client_fd_, Answers(done.answer.line, done.answer))
    /\ meter_cache_' = done.cache
    /\ hash_to_format_' = done.formats

ProcessLine ==
    /\ ~killed /\ data # <<>> /\ Head(data).newline
    /\ Finish(processLine(LineOf(Append(line_buffer_, Head(data)))))
    /\ data' = IF killed' THEN <<>> ELSE Tail(data)
    /\ line_buffer_' = <<>>
    /\ UNCHANGED <<meter_keys_, warning_printed_for_telegrams, telegram, i, outcome, spoiled,
                   service, backlog, client_fd_>>

\* The telegrams of other devices.
ReceiveTelegram ==
    /\ service = ""
    /\ Receive
    /\ UNCHANGED serviceVars

HandleTelegram == ~killed /\ OfferToMeter /\ UNCHANGED serviceVars

ServiceNext ==
    \/ \E c \in Clients : Connect(c) \/ BeginLine(c) \/ EndLine(c) \/ ReadAnswer(c) \/ CloseClient(c)
    \/ processSerialData
    \/ AddToLine \/ ProcessLine
    \/ ReceiveTelegram \/ HandleTelegram

\* Every call of the event loop ends, and it calls every device that select
\* reports.
EventLoopRuns ==
    /\ []<>(killed \/ EventLoopFree)
    /\ WF_allVars(processSerialData)

ServiceSpec == ServiceInit /\ [][ServiceNext]_allVars /\ EventLoopRuns

-----------------------------------------------------------------------------
(* Properties.                                                               *)

\* processLine: a client gets one answer for each of its lines, in their order,
\* however they are cut into reads, and whatever clients before it left
\* unfinished: never the answer to a line of another client, or to a mixture.
OneAnswerEach ==
    \A c \in Clients :
        LET lines == link[c].lines
            replies == link[c].replies
        IN /\ Len(replies) <= Len(lines)
           /\ \A n \in DOMAIN replies :
                  [k \in DOMAIN replies[n] |-> replies[n][k].line] = Answers(lines[n], lines[n])
           /\ EventLoopFree /\ client_fd_ = c /\ link[c].inbox = <<>> => Len(replies) = Len(lines)

\* What a service that has just started would answer.
Fresh(l) == handleDecode(<<>>, l).answer

\* The cached meter is of another manufacturer or type with the same number, was
\* made with another driver, or its default keys have been used.
KeptOtherwiseAs(l, id) ==
    /\ id \in DOMAIN meter_cache_ /\ meter_cache_[id].key = l.key
    /\ LET m == meter_cache_[id]
       IN \/ m.mt # l.telegram.mt
          \/ m.driver # driverOf(l)
          \/ m.meter_keys_ # NewKeys(l.key, defaultKeys(m.driver))

KeptOtherwise(l) == KeptOtherwiseAs(l, LastId(l.telegram, parseHeader(l.telegram, NewTelegram)))

SameAnswer(answer, fresh) ==
    answer.status = fresh.status /\ (answer.status = "ok" => answer.shown = fresh.shown)

\* handleDecode: the cache does not show.  Whatever keys and telegrams the meter
\* has met before, the answer is the one of a new meter with the key of this
\* request; only the driver, the manufacturer and the default keys are those
\* of the first request.
CacheIsTransparent ==
    [][\A c \in Clients :
         link'[c].replies # link[c].replies =>
             LET answer == link'[c].replies[Len(link'[c].replies)][1]
             IN \/ answer.status = "cut" \/ answer.line.cmd # "decode"
                \/ KeptOtherwise(answer.line)
                \/ SameAnswer(answer, Fresh(answer.line))]_allVars

\* processSerialData: if every client leaves at some time, every client that has
\* connected is served, unless a client that left too early ended the program.
ClientsServed ==
    (\A d \in Clients : []<>(link[d].state # "open")) =>
        \A c \in Clients : c \in Range(backlog) ~> (client_fd_ = c \/ killed)

=============================================================================
