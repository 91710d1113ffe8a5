--------------------------- MODULE HostLinkProofs ---------------------------
(***************************************************************************)
(* What holds of a connection to another host for any tasks, sizes of the  *)
(* queues and bounds.                                                      *)
(***************************************************************************)
EXTENDS HostLink, FiniteSetTheorems, TLAPS

-----------------------------------------------------------------------------
(* Types *)

Stages == {"start", "clone", "gate", "making", "unlocked", "leaving", "watch", "ask",
           "asked", "read", "reading", "wait"}

TaskRecord == [stage : Stages, gate : Nat, link : 0 .. MaxLinks, report : BOOLEAN, read : Nat]

\* What a task asks, and what a connection sends.
TaskRequest == [kind : {"get", "watch"}, task : Task]
Setting == [kind : {"graphics"}, value : BOOLEAN, id : Nat]
Request == TaskRequest \cup Setting
Command == TaskRequest \cup [kind : {"watcher"}, task : Task]

\* What the host answers, and what it sends.
Answer == {a \in [kind : {"get"}, request : TaskRequest, version : Nat] : a.request.kind = "get"}
          \cup {a \in [kind : {"watch", "graphics"}, request : Request] : a.request.kind = a.kind}
Envelope == Answer \cup [kind : {"event"}, task : Task]

LinkRecord == [up : BOOLEAN, commands : Seq(Command), sending : Request \cup {NoRequest},
               inFlight : SUBSET Request, watchers : SUBSET Task, told : BOOLEAN,
               stale : BOOLEAN, out : Seq(Request), busy : Answer \cup {NoRequest},
               queue : Seq(Envelope), inbound : Seq(Envelope), subscribed : BOOLEAN,
               hostGraphics : BOOLEAN]

LinkTypes ==
    /\ task \in [Task -> TaskRecord]
    /\ gate \in Nat /\ open \in 0 .. MaxLinks /\ made \in 0 .. MaxLinks
    /\ link \in [Links -> LinkRecord]
    /\ graphics \in BOOLEAN
    /\ version \in [Task -> Nat] /\ unsaid \in [Task -> Nat]
    /\ budget \in [changes : Nat, toggles : Nat, faults : Nat]

-----------------------------------------------------------------------------
(* Who makes the connection *)

\* A task that waits for the host's gate, holds it or has just let go of it has
\* the one in the table, so that any other that comes finds it too.
HoldsTheGate ==
    \A t \in Task : task[t].stage \in {"gate", "making", "unlocked"} =>
        task[t].gate # 0 /\ task[t].gate = gate

\* Whoever makes the connection is alone, and there is none that is open.
OneMaker ==
    \A t \in Task : task[t].stage = "making" =>
        /\ ~ IsOpen(open)
        /\ \A u \in Task : task[u].stage = "making" => u = t

MakerInv == HoldsTheGate /\ OneMaker
-----------------------------------------------------------------------------
(* Settings of host graphics *)

\* A connection that is not up is as it was before it was made.
DownIsClosed == \A e \in Links : link[e].up \/ link[e] = Closed

\* Where a setting is among the requests the host has yet to take.
SettingsIn(s) == {i \in DOMAIN s : s[i].kind = "graphics"}

\* The host hears last what the connection sent last.
LastSent ==
    \A e \in Links :
        /\ SettingsIn(link[e].out) = {} => link[e].hostGraphics = link[e].told
        /\ \A i \in SettingsIn(link[e].out) :
              (\A j \in SettingsIn(link[e].out) : j <= i) => link[e].out[i].value = link[e].told

\* Unless a change is still to be looked at, the connection sends what it is.
SendsSetting ==
    \A e \in Links : link[e].up /\ ~ link[e].stale =>
        IF link[e].sending.kind = "graphics" THEN link[e].sending.value = graphics
                                            ELSE link[e].told = graphics

SettingInv == DownIsClosed /\ LastSent /\ SendsSetting
-----------------------------------------------------------------------------
(* Requests in flight *)

Elements(s) == {s[i] : i \in DOMAIN s}

\* What the envelopes of s answer.
Answers(s) == {s[i].request : i \in {j \in DOMAIN s : s[j].kind # "event"}}

\* No two of them answer the same.
AnswerOnce(s) ==
    \A i, j \in DOMAIN s :
        s[i].kind # "event" /\ s[j].kind # "event" /\ s[i].request = s[j].request => i = j

Injective(s) == \A i, j \in DOMAIN s : s[i] = s[j] => i = j

Busy(l) == IF l.busy = NoRequest THEN {} ELSE {l.busy.request}

\* A request in flight is in one place: on its way to the host, taken by it, or
\* its answer in the host's queue or on its way back.
InPlace(l) ==
    /\ Injective(l.out) /\ AnswerOnce(l.queue) /\ AnswerOnce(l.inbound)
    /\ Elements(l.out) \cap (Busy(l) \cup Answers(l.queue) \cup Answers(l.inbound)) = {}
    /\ Busy(l) \cap (Answers(l.queue) \cup Answers(l.inbound)) = {}
    /\ Answers(l.queue) \cap Answers(l.inbound) = {}
    /\ Elements(l.out) \cup Busy(l) \cup Answers(l.queue) \cup Answers(l.inbound) \subseteq l.inFlight

InOnePlace == \A e \in Links : InPlace(link[e])

\* What is sent is not in flight yet, and leaves the bound room.
New(l) ==
    /\ IsFiniteSet(l.inFlight)
    /\ l.sending # NoRequest => l.sending \notin l.inFlight /\ Cardinality(l.inFlight) < MaxInFlight

SendsNew == \A e \in Links : New(link[e])

\* What was asked and not answered. Each request of a task is made once, and
\* waited for.
Pending(l) == Elements(l.commands) \cup {l.sending} \cup l.inFlight

WaitedFor ==
    \A e \in Links : \A t \in Task :
        /\ Get(t) \in Pending(link[e]) => task[t].stage = "reading" /\ task[t].link = e
        /\ WatchRequest(t) \in Pending(link[e]) => task[t].stage = "asked" /\ task[t].link = e

Once(l) ==
    /\ \A i, j \in DOMAIN l.commands :
          l.commands[i] = l.commands[j] /\ l.commands[i].kind # "watcher" => i = j
    /\ \A r \in Elements(l.commands) : r # l.sending /\ r \notin l.inFlight

AskedOnce == \A e \in Links : Once(link[e])

\* Settings are numbered by the changes of host graphics.
NumberedIn(l, toggles) ==
    \A r \in l.inFlight \cup {l.sending} :
        r.kind = "graphics" => r.id <= toggles /\ (l.stale => r.id < toggles)

Numbered == \A e \in Links : NumberedIn(link[e], budget.toggles)

FlightInv == InOnePlace /\ SendsNew /\ WaitedFor /\ AskedOnce /\ Numbered
-----------------------------------------------------------------------------
(* Reports *)

\* Tasks and the table know connections that were made.
MadeLinks == open <= made /\ \A t \in Task : task[t].link <= made

\* A pump is registered before its request to watch is taken.
Enrols(l, t) ==
    /\ \A j \in DOMAIN l.commands :
          l.commands[j] = WatchRequest(t) =>
            t \in l.watchers \/ \E i \in 1 .. j : l.commands[i] = Watcher(t)
    /\ WatchRequest(t) \in l.inFlight \cup {l.sending} => t \in l.watchers

Enrolled(l, t, stage) ==
    /\ stage = "ask" => t \in l.watchers \/ Watcher(t) \in Elements(l.commands)
    /\ stage \in {"read", "reading", "wait"} => t \in l.watchers

Registered ==
    \A t \in Task :
        /\ \A e \in Links : Enrols(link[e], t)
        /\ IsOpen(task[t].link) => Enrolled(link[task[t].link], t, task[t].stage)

\* What the host sent and the connection has not received, and what it will send.
Envelopes(l) == Elements(l.queue) \cup Elements(l.inbound)
Coming(l) == {l.busy} \cup Envelopes(l)

\* A pump that waits has read an older version, or is about to be told one.
Behind(e, t) ==
    /\ link[e].subscribed
    /\ \/ task[t].stage = "wait" /\ task[t].link = e /\ link[e].up /\ task[t].read # version[t]
       \/ \E a \in Coming(link[e]) : a.kind = "get" /\ a.request.task = t /\ a.version # version[t]

\* Then a report is there or on its way, if the host has reported every change.
ReportOf(e, t) == Behind(e, t) => task[t].report \/ Event(t) \in Envelopes(link[e])

Reports == \A e \in Links, t \in Task : unsaid[t] = 0 => ReportOf(e, t)

ReportInv == MadeLinks /\ Registered /\ Reports

HostLinkInv == LinkTypes /\ MakerInv /\ SettingInv /\ FlightInv /\ ReportInv
-----------------------------------------------------------------------------
(* Types *)

\* The requests and commands a task makes, and how they differ.
LEMMA Kinds ==
    /\ \A t \in Task : Get(t) \in TaskRequest /\ WatchRequest(t) \in TaskRequest
    /\ \A t \in Task : Get(t).kind = "get" /\ Get(t).task = t
    /\ \A t \in Task : WatchRequest(t).kind = "watch" /\ WatchRequest(t).task = t
    /\ \A t \in Task : Watcher(t) \in Command /\ Watcher(t).kind = "watcher" /\ Watcher(t).task = t
    /\ \A t \in Task : Event(t) \in Envelope /\ Event(t).kind = "event" /\ Event(t).task = t
    /\ \A r \in TaskRequest : r \in Request /\ r \in Command /\ r.task \in Task
    /\ \A r \in TaskRequest : r = Get(r.task) \/ r = WatchRequest(r.task)
    /\ \A c \in Command : c.task \in Task /\ (c.kind # "watcher" => c \in TaskRequest)
    /\ \A c \in Command : c.kind = "watcher" => c = Watcher(c.task)
    /\ \A r \in Request : r # NoRequest /\ r.kind \in {"get", "watch", "graphics"}
    /\ \A r \in Request : r.kind # "graphics" => r \in TaskRequest
    /\ \A r \in Request : r.kind = "graphics" => r.value \in BOOLEAN /\ r.id \in Nat
    /\ NoRequest.kind = "none"
  BY DEF Get, WatchRequest, Watcher, Event, TaskRequest, Command, Request, Setting, Envelope,
         NoRequest

\* What an answer and an event are.
LEMMA EnvelopeKinds ==
    /\ \A a \in Answer : /\ a \in Envelope /\ a # NoRequest /\ a.kind # "event"
                         /\ a.request \in Request /\ a.request.kind = a.kind
    /\ \A a \in Answer : a.kind = "get" => a.request \in TaskRequest /\ a.version \in Nat
    /\ \A v \in Envelope : v.kind # "event" => v \in Answer
    /\ \A v \in Envelope : v.kind = "event" => v.task \in Task /\ v = Event(v.task)
  BY DEF Answer, Envelope, Request, Setting, TaskRequest, NoRequest, Event

\* A closed connection and a new one.
LEMMA ClosedTypes == Closed \in LinkRecord /\ Fresh \in LinkRecord
<1>1. <<>> \in Seq(Command) /\ <<>> \in Seq(Request) /\ <<>> \in Seq(Envelope)
  OBVIOUS
<1> HIDE DEF Request, Command, Answer, Envelope
<1>. QED BY <1>1 DEF Closed, Fresh, LinkRecord

\* What the type of a connection says of its parts.
LEMMA LinkFields ==
    ASSUME LinkTypes, NEW e \in Links
    PROVE  /\ link[e] \in LinkRecord
           /\ link[e].commands \in Seq(Command) /\ link[e].out \in Seq(Request)
           /\ link[e].queue \in Seq(Envelope) /\ link[e].inbound \in Seq(Envelope)
           /\ link[e].sending \in Request \cup {NoRequest}
           /\ link[e].busy \in Answer \cup {NoRequest}
           /\ link[e].inFlight \subseteq Request /\ link[e].watchers \subseteq Task
<1> HIDE DEF Request, Command, Answer, Envelope
<1>1. link[e] \in LinkRecord
  BY DEF LinkTypes
<1>. QED BY <1>1 DEF LinkRecord

\* The head and the tail of a sequence that is not empty, and one more at its end.
LEMMA SeqParts ==
    ASSUME NEW S, NEW s \in Seq(S)
    PROVE  /\ s # <<>> => /\ Head(s) \in S /\ Head(s) = s[1] /\ Tail(s) \in Seq(S)
                          /\ Len(Tail(s)) = Len(s) - 1 /\ Len(s) > 0
                          /\ DOMAIN Tail(s) = 1 .. Len(s) - 1
                          /\ \A i \in 1 .. Len(s) - 1 : Tail(s)[i] = s[i + 1]
           /\ \A x \in S : /\ Append(s, x) \in Seq(S) /\ Len(Append(s, x)) = Len(s) + 1
                           /\ DOMAIN Append(s, x) = 1 .. Len(s) + 1
                           /\ Append(s, x)[Len(s) + 1] = x
                           /\ \A i \in 1 .. Len(s) : Append(s, x)[i] = s[i]
           /\ Len(s) \in Nat /\ DOMAIN s = 1 .. Len(s) /\ \A i \in DOMAIN s : s[i] \in S
  OBVIOUS

\* An answer has its type.
LEMMA ResponseType ==
    ASSUME LinkTypes, NEW r \in Request
    PROVE  Response(r) \in Answer
<1>1. CASE r.kind = "get"
  <2>1. r \in TaskRequest /\ version[r.task] \in Nat
    BY <1>1, Kinds DEF LinkTypes
  <2>. QED BY <1>1, <2>1 DEF Response, Answer
<1>2. CASE r.kind # "get"
  <2>1. r.kind \in {"watch", "graphics"}
    BY <1>2, Kinds
  <2>. QED BY <1>2, <2>1 DEF Response, Answer
<1>. QED BY <1>1, <1>2

\* A connection looks at a change of host graphics.
LEMMA FollowsGraphicsEffect ==
    ASSUME LinkTypes, NEW e \in Links, FollowsGraphics(e)
    PROVE  LET l == link[e]
               m == link'[e]
           IN  /\ link' \in [Links -> LinkRecord]
               /\ \A d \in Links \ {e} : link'[d] = link[d]
               /\ l.up /\ l.stale /\ l.sending = NoRequest /\ Cardinality(l.inFlight) < MaxInFlight
               /\ m.stale = FALSE
               /\ m.sending = (IF graphics = l.told THEN l.sending ELSE SetGraphics)
               /\ m.up = l.up /\ m.commands = l.commands /\ m.inFlight = l.inFlight /\ m.watchers = l.watchers
               /\ m.told = l.told /\ m.out = l.out /\ m.busy = l.busy /\ m.queue = l.queue
               /\ m.inbound = l.inbound /\ m.subscribed = l.subscribed /\ m.hostGraphics = l.hostGraphics
<1> DEFINE l == link[e]
           n == [link[e] EXCEPT !.stale = FALSE,
                                !.sending = IF graphics = l.told THEN l.sending ELSE SetGraphics]
<1> HIDE DEF Request, Command, Answer, Envelope
<1>0. /\ l \in LinkRecord /\ link \in [Links -> LinkRecord]
      /\ l.commands \in Seq(Command) /\ l.out \in Seq(Request)
      /\ l.queue \in Seq(Envelope) /\ l.inbound \in Seq(Envelope)
      /\ l.sending \in Request \cup {NoRequest} /\ l.busy \in Answer \cup {NoRequest}
      /\ l.inFlight \subseteq Request /\ l.watchers \subseteq Task
  BY LinkFields DEF LinkTypes
<1>1. SetGraphics \in Request /\ graphics \in BOOLEAN
  BY DEF SetGraphics, Request, Setting, LinkTypes
<1>5. n \in LinkRecord
  BY <1>0, <1>1 DEF LinkRecord
<1>6. link' = [link EXCEPT ![e] = n]
  BY DEF FollowsGraphics
<1>7. link'[e] = n
  BY <1>0, <1>6
<1>8. link' \in [Links -> LinkRecord] /\ \A d \in Links \ {e} : link'[d] = link[d]
  BY <1>0, <1>5, <1>6
<1>. QED BY <1>0, <1>7, <1>8 DEF FollowsGraphics, LinkRecord, MaySend

\* A connection takes a command.
LEMMA TakesCommandEffect ==
    ASSUME LinkTypes, NEW e \in Links, TakesCommand(e)
    PROVE  LET l == link[e]
               m == link'[e]
           IN  /\ link' \in [Links -> LinkRecord]
               /\ \A d \in Links \ {e} : link'[d] = link[d]
               /\ l.up /\ l.commands # <<>> /\ l.sending = NoRequest /\ Cardinality(l.inFlight) < MaxInFlight
               /\ m.commands = Tail(l.commands)
               /\ m.watchers = (IF Head(l.commands).kind = "watcher" THEN l.watchers \cup {Head(l.commands).task} ELSE l.watchers)
               /\ m.sending = (IF Head(l.commands).kind = "watcher" THEN l.sending ELSE Head(l.commands))
               /\ m.up = l.up /\ m.inFlight = l.inFlight /\ m.told = l.told /\ m.stale = l.stale
               /\ m.out = l.out /\ m.busy = l.busy /\ m.queue = l.queue /\ m.inbound = l.inbound
               /\ m.subscribed = l.subscribed /\ m.hostGraphics = l.hostGraphics
<1> DEFINE l == link[e]
           n == [link[e] EXCEPT !.commands = Tail(l.commands),
                                !.watchers = IF Head(l.commands).kind = "watcher" THEN l.watchers \cup {Head(l.commands).task} ELSE l.watchers,
                                !.sending = IF Head(l.commands).kind = "watcher" THEN l.sending ELSE Head(l.commands)]
<1> HIDE DEF Request, Command, Answer, Envelope
<1>0. /\ l \in LinkRecord /\ link \in [Links -> LinkRecord]
      /\ l.commands \in Seq(Command) /\ l.out \in Seq(Request)
      /\ l.queue \in Seq(Envelope) /\ l.inbound \in Seq(Envelope)
      /\ l.sending \in Request \cup {NoRequest} /\ l.busy \in Answer \cup {NoRequest}
      /\ l.inFlight \subseteq Request /\ l.watchers \subseteq Task
  BY LinkFields DEF LinkTypes
<1>1. l.commands # <<>>
  BY DEF TakesCommand
<1>2. Head(l.commands) \in Command /\ Tail(l.commands) \in Seq(Command)
  BY <1>0, <1>1, SeqParts
<1>3. /\ Head(l.commands).task \in Task
      /\ Head(l.commands).kind # "watcher" => Head(l.commands) \in Request
  BY <1>2, Kinds
<1>5. n \in LinkRecord
  BY <1>0, <1>1, <1>2, <1>3 DEF LinkRecord
<1>6. link' = [link EXCEPT ![e] = n]
  BY DEF TakesCommand
<1>7. link'[e] = n
  BY <1>0, <1>6
<1>8. link' \in [Links -> LinkRecord] /\ \A d \in Links \ {e} : link'[d] = link[d]
  BY <1>0, <1>5, <1>6
<1>. QED BY <1>0, <1>7, <1>8 DEF TakesCommand, LinkRecord, MaySend

\* A connection has sent a request.
LEMMA SentEffect ==
    ASSUME LinkTypes, NEW e \in Links, Sent(e)
    PROVE  LET l == link[e]
               m == link'[e]
           IN  /\ link' \in [Links -> LinkRecord]
               /\ \A d \in Links \ {e} : link'[d] = link[d]
               /\ l.up /\ l.sending # NoRequest /\ Len(l.out) < OutRoom
               /\ m.out = Append(l.out, l.sending)
               /\ m.inFlight = l.inFlight \cup {l.sending}
               /\ m.told = (IF l.sending.kind = "graphics" THEN l.sending.value ELSE l.told)
               /\ m.sending = NoRequest
               /\ m.up = l.up /\ m.commands = l.commands /\ m.watchers = l.watchers /\ m.stale = l.stale
               /\ m.busy = l.busy /\ m.queue = l.queue /\ m.inbound = l.inbound /\ m.subscribed = l.subscribed
               /\ m.hostGraphics = l.hostGraphics
<1> DEFINE l == link[e]
           n == [link[e] EXCEPT !.out = Append(l.out, l.sending),
                                !.inFlight = l.inFlight \cup {l.sending},
                                !.told = IF l.sending.kind = "graphics" THEN l.sending.value ELSE l.told,
                                !.sending = NoRequest]
<1> HIDE DEF Request, Command, Answer, Envelope
<1>0. /\ l \in LinkRecord /\ link \in [Links -> LinkRecord]
      /\ l.commands \in Seq(Command) /\ l.out \in Seq(Request)
      /\ l.queue \in Seq(Envelope) /\ l.inbound \in Seq(Envelope)
      /\ l.sending \in Request \cup {NoRequest} /\ l.busy \in Answer \cup {NoRequest}
      /\ l.inFlight \subseteq Request /\ l.watchers \subseteq Task
  BY LinkFields DEF LinkTypes
<1>1. l.sending \in Request
  BY <1>0 DEF Sent
<1>2. Append(l.out, l.sending) \in Seq(Request)
  BY <1>0, <1>1, SeqParts
<1>3. l.sending.kind = "graphics" => l.sending.value \in BOOLEAN
  BY <1>1, Kinds
<1>5. n \in LinkRecord
  BY <1>0, <1>1, <1>2, <1>3 DEF LinkRecord
<1>6. link' = [link EXCEPT ![e] = n]
  BY DEF Sent
<1>7. link'[e] = n
  BY <1>0, <1>6
<1>8. link' \in [Links -> LinkRecord] /\ \A d \in Links \ {e} : link'[d] = link[d]
  BY <1>0, <1>5, <1>6
<1>. QED BY <1>0, <1>7, <1>8 DEF Sent, LinkRecord

\* The host takes a request.
LEMMA HostTakesEffect ==
    ASSUME LinkTypes, NEW e \in Links, HostTakes(e)
    PROVE  LET l == link[e]
               m == link'[e]
           IN  /\ link' \in [Links -> LinkRecord]
               /\ \A d \in Links \ {e} : link'[d] = link[d]
               /\ l.out # <<>> /\ l.busy = NoRequest
               /\ m.out = Tail(l.out)
               /\ m.busy = Response(Head(l.out))
               /\ m.hostGraphics = (IF Head(l.out).kind = "graphics" THEN Head(l.out).value ELSE l.hostGraphics)
               /\ m.up = l.up /\ m.commands = l.commands /\ m.sending = l.sending /\ m.inFlight = l.inFlight
               /\ m.watchers = l.watchers /\ m.told = l.told /\ m.stale = l.stale /\ m.queue = l.queue
               /\ m.inbound = l.inbound /\ m.subscribed = l.subscribed
<1> DEFINE l == link[e]
           n == [link[e] EXCEPT !.out = Tail(l.out),
                                !.busy = Response(Head(l.out)),
                                !.hostGraphics = IF Head(l.out).kind = "graphics" THEN Head(l.out).value ELSE l.hostGraphics]
<1> HIDE DEF Request, Command, Answer, Envelope
<1>0. /\ l \in LinkRecord /\ link \in [Links -> LinkRecord]
      /\ l.commands \in Seq(Command) /\ l.out \in Seq(Request)
      /\ l.queue \in Seq(Envelope) /\ l.inbound \in Seq(Envelope)
      /\ l.sending \in Request \cup {NoRequest} /\ l.busy \in Answer \cup {NoRequest}
      /\ l.inFlight \subseteq Request /\ l.watchers \subseteq Task
  BY LinkFields DEF LinkTypes
<1>1. l.out # <<>>
  BY DEF HostTakes
<1>2. Head(l.out) \in Request /\ Tail(l.out) \in Seq(Request)
  BY <1>0, <1>1, SeqParts
<1>3. Head(l.out).kind = "graphics" => Head(l.out).value \in BOOLEAN
  BY <1>2, Kinds
<1>4. Response(Head(l.out)) \in Answer
  BY <1>2, ResponseType
<1>5. n \in LinkRecord
  BY <1>0, <1>1, <1>2, <1>3, <1>4 DEF LinkRecord
<1>6. link' = [link EXCEPT ![e] = n]
  BY DEF HostTakes
<1>7. link'[e] = n
  BY <1>0, <1>6
<1>8. link' \in [Links -> LinkRecord] /\ \A d \in Links \ {e} : link'[d] = link[d]
  BY <1>0, <1>5, <1>6
<1>. QED BY <1>0, <1>7, <1>8 DEF HostTakes, LinkRecord

\* The host queues an answer.
LEMMA HostAnswersEffect ==
    ASSUME LinkTypes, NEW e \in Links, HostAnswers(e)
    PROVE  LET l == link[e]
               m == link'[e]
           IN  /\ link' \in [Links -> LinkRecord]
               /\ \A d \in Links \ {e} : link'[d] = link[d]
               /\ l.busy # NoRequest /\ Len(l.queue) < QueueRoom
               /\ m.queue = Append(l.queue, l.busy)
               /\ m.busy = NoRequest
               /\ m.up = l.up /\ m.commands = l.commands /\ m.sending = l.sending /\ m.inFlight = l.inFlight
               /\ m.watchers = l.watchers /\ m.told = l.told /\ m.stale = l.stale /\ m.out = l.out
               /\ m.inbound = l.inbound /\ m.subscribed = l.subscribed /\ m.hostGraphics = l.hostGraphics
<1> DEFINE l == link[e]
           n == [link[e] EXCEPT !.queue = Append(l.queue, l.busy),
                                !.busy = NoRequest]
<1> HIDE DEF Request, Command, Answer, Envelope
<1>0. /\ l \in LinkRecord /\ link \in [Links -> LinkRecord]
      /\ l.commands \in Seq(Command) /\ l.out \in Seq(Request)
      /\ l.queue \in Seq(Envelope) /\ l.inbound \in Seq(Envelope)
      /\ l.sending \in Request \cup {NoRequest} /\ l.busy \in Answer \cup {NoRequest}
      /\ l.inFlight \subseteq Request /\ l.watchers \subseteq Task
  BY LinkFields DEF LinkTypes
<1>1. l.busy \in Answer
  BY <1>0 DEF HostAnswers
<1>2. Append(l.queue, l.busy) \in Seq(Envelope)
  BY <1>0, <1>1, EnvelopeKinds, SeqParts
<1>5. n \in LinkRecord
  BY <1>0, <1>1, <1>2 DEF LinkRecord
<1>6. link' = [link EXCEPT ![e] = n]
  BY DEF HostAnswers
<1>7. link'[e] = n
  BY <1>0, <1>6
<1>8. link' \in [Links -> LinkRecord] /\ \A d \in Links \ {e} : link'[d] = link[d]
  BY <1>0, <1>5, <1>6
<1>. QED BY <1>0, <1>7, <1>8 DEF HostAnswers, LinkRecord

\* The host writes what it queued.
LEMMA HostWritesEffect ==
    ASSUME LinkTypes, NEW e \in Links, HostWrites(e)
    PROVE  LET l == link[e]
               m == link'[e]
           IN  /\ link' \in [Links -> LinkRecord]
               /\ \A d \in Links \ {e} : link'[d] = link[d]
               /\ l.queue # <<>> /\ Len(l.inbound) < InRoom
               /\ m.inbound = Append(l.inbound, Head(l.queue))
               /\ m.queue = Tail(l.queue)
               /\ m.up = l.up /\ m.commands = l.commands /\ m.sending = l.sending /\ m.inFlight = l.inFlight
               /\ m.watchers = l.watchers /\ m.told = l.told /\ m.stale = l.stale /\ m.out = l.out
               /\ m.busy = l.busy /\ m.subscribed = l.subscribed /\ m.hostGraphics = l.hostGraphics
<1> DEFINE l == link[e]
           n == [link[e] EXCEPT !.inbound = Append(l.inbound, Head(l.queue)),
                                !.queue = Tail(l.queue)]
<1> HIDE DEF Request, Command, Answer, Envelope
<1>0. /\ l \in LinkRecord /\ link \in [Links -> LinkRecord]
      /\ l.commands \in Seq(Command) /\ l.out \in Seq(Request)
      /\ l.queue \in Seq(Envelope) /\ l.inbound \in Seq(Envelope)
      /\ l.sending \in Request \cup {NoRequest} /\ l.busy \in Answer \cup {NoRequest}
      /\ l.inFlight \subseteq Request /\ l.watchers \subseteq Task
  BY LinkFields DEF LinkTypes
<1>1. l.queue # <<>>
  BY DEF HostWrites
<1>2. Head(l.queue) \in Envelope /\ Tail(l.queue) \in Seq(Envelope)
  BY <1>0, <1>1, SeqParts
<1>3. Append(l.inbound, Head(l.queue)) \in Seq(Envelope)
  BY <1>0, <1>2, SeqParts
<1>5. n \in LinkRecord
  BY <1>0, <1>1, <1>2, <1>3 DEF LinkRecord
<1>6. link' = [link EXCEPT ![e] = n]
  BY DEF HostWrites
<1>7. link'[e] = n
  BY <1>0, <1>6
<1>8. link' \in [Links -> LinkRecord] /\ \A d \in Links \ {e} : link'[d] = link[d]
  BY <1>0, <1>5, <1>6
<1>. QED BY <1>0, <1>7, <1>8 DEF HostWrites, LinkRecord

\* A connection receives an answer or an event.
LEMMA ReceivesEffect ==
    ASSUME LinkTypes, NEW e \in Links, Receives(e)
    PROVE  LET l == link[e]
               m == link'[e]
           IN  /\ link' \in [Links -> LinkRecord]
               /\ \A d \in Links \ {e} : link'[d] = link[d]
               /\ l.up /\ l.inbound # <<>> /\ l.sending = NoRequest
               /\ m.inbound = Tail(l.inbound)
               /\ m.inFlight = l.inFlight \ {r \in l.inFlight : Head(l.inbound).kind # "event" /\ r = Head(l.inbound).request}
               /\ m.up = l.up /\ m.commands = l.commands /\ m.sending = l.sending /\ m.watchers = l.watchers
               /\ m.told = l.told /\ m.stale = l.stale /\ m.out = l.out /\ m.busy = l.busy
               /\ m.queue = l.queue /\ m.subscribed = l.subscribed /\ m.hostGraphics = l.hostGraphics
<1> DEFINE l == link[e]
           n == [link[e] EXCEPT !.inbound = Tail(l.inbound),
                                !.inFlight = l.inFlight \ {r \in l.inFlight : Head(l.inbound).kind # "event" /\ r = Head(l.inbound).request}]
<1> HIDE DEF Request, Command, Answer, Envelope
<1>0. /\ l \in LinkRecord /\ link \in [Links -> LinkRecord]
      /\ l.commands \in Seq(Command) /\ l.out \in Seq(Request)
      /\ l.queue \in Seq(Envelope) /\ l.inbound \in Seq(Envelope)
      /\ l.sending \in Request \cup {NoRequest} /\ l.busy \in Answer \cup {NoRequest}
      /\ l.inFlight \subseteq Request /\ l.watchers \subseteq Task
  BY LinkFields DEF LinkTypes
<1>1. l.inbound # <<>>
  BY DEF Receives
<1>2. Tail(l.inbound) \in Seq(Envelope)
  BY <1>0, <1>1, SeqParts
<1>5. n \in LinkRecord
  BY <1>0, <1>1, <1>2 DEF LinkRecord
<1>6. link' = [link EXCEPT ![e] = n]
  BY DEF Receives
<1>7. link'[e] = n
  BY <1>0, <1>6
<1>8. link' \in [Links -> LinkRecord] /\ \A d \in Links \ {e} : link'[d] = link[d]
  BY <1>0, <1>5, <1>6
<1>. QED BY <1>0, <1>7, <1>8 DEF Receives, LinkRecord

\* A task sends a command.
LEMMA SendsEffect ==
    ASSUME LinkTypes, NEW t \in Task, NEW c \in Command, NEW then \in Stages, Sends(t, c, then)
    PROVE  LET e == task[t].link
               l == link[e]
               m == link'[e]
           IN  /\ e \in Links /\ l.up
               /\ link' \in [Links -> LinkRecord]
               /\ \A d \in Links \ {e} : link'[d] = link[d]
               /\ m.commands = Append(l.commands, c)
               /\ m.up = l.up /\ m.sending = l.sending /\ m.inFlight = l.inFlight
               /\ m.watchers = l.watchers /\ m.told = l.told /\ m.stale = l.stale
               /\ m.out = l.out /\ m.busy = l.busy /\ m.queue = l.queue
               /\ m.inbound = l.inbound /\ m.subscribed = l.subscribed
               /\ m.hostGraphics = l.hostGraphics
               /\ task' = [task EXCEPT ![t] = [task[t] EXCEPT !.stage = then]]
<1> DEFINE e == task[t].link
           l == link[e]
           n == [link[e] EXCEPT !.commands = Append(link[e].commands, c)]
<1> HIDE DEF Request, Command, Answer, Envelope
<1>1. e \in Links /\ l.up
  <2>1. task[t].link \in 0 .. MaxLinks
    BY DEF LinkTypes, TaskRecord
  <2>. QED BY <2>1, RoomAssumption DEF Sends, IsOpen, Links
<1>2. l \in LinkRecord /\ link \in [Links -> LinkRecord] /\ l.commands \in Seq(Command)
  BY <1>1, LinkFields DEF LinkTypes
<1>3. Append(l.commands, c) \in Seq(Command)
  BY <1>2, SeqParts
<1>4. n \in LinkRecord
  BY <1>2, <1>3 DEF LinkRecord
<1>5. link' = [link EXCEPT ![e] = n] /\ task' = [task EXCEPT ![t] = [task[t] EXCEPT !.stage = then]]
  BY DEF Sends
<1>6. link'[e] = n /\ link' \in [Links -> LinkRecord] /\ \A d \in Links \ {e} : link'[d] = link[d]
  BY <1>1, <1>2, <1>4, <1>5
<1>. QED BY <1>1, <1>2, <1>5, <1>6 DEF LinkRecord

\* A connection is made, or fails.
LEMMA ReplacedEffect ==
    ASSUME LinkTypes, NEW e \in Links, NEW l \in {Closed, Fresh}, link' = [link EXCEPT ![e] = l]
    PROVE  /\ link' \in [Links -> LinkRecord] /\ link'[e] = l
           /\ \A d \in Links \ {e} : link'[d] = link[d]
<1>1. l \in LinkRecord
  BY ClosedTypes
<1>. QED BY <1>1 DEF LinkTypes

\* What is in a closed connection and in a new one.
LEMMA EmptyParts ==
    \A l \in {Closed, Fresh} :
        /\ l.commands = <<>> /\ l.sending = NoRequest /\ l.inFlight = {} /\ l.watchers = {}
        /\ l.told = FALSE /\ l.out = <<>> /\ l.busy = NoRequest /\ l.queue = <<>>
        /\ l.inbound = <<>> /\ l.hostGraphics = FALSE
        /\ IF l = Fresh THEN l.up /\ l.stale /\ l.subscribed
                        ELSE ~ l.up /\ ~ l.stale /\ ~ l.subscribed
<1>1. /\ Closed.up = FALSE /\ Closed.stale = FALSE /\ Closed.subscribed = FALSE
      /\ Fresh.up = TRUE /\ Fresh.stale = TRUE /\ Fresh.subscribed = TRUE
  BY DEF Closed, Fresh
<1> DEFINE Empty(l) ==
         /\ l.commands = <<>> /\ l.sending = NoRequest /\ l.inFlight = {} /\ l.watchers = {}
         /\ l.told = FALSE /\ l.out = <<>> /\ l.busy = NoRequest /\ l.queue = <<>>
         /\ l.inbound = <<>> /\ l.hostGraphics = FALSE
<1>2. Empty(Closed)
  BY DEF Closed
<1>3. Empty(Fresh)
  BY DEF Closed, Fresh
<1> HIDE DEF Closed, Fresh
<1>. QED BY <1>1, <1>2, <1>3

\* Every connection sees a change of host graphics.
LEMMA TogglesEffect ==
    ASSUME LinkTypes, Toggles
    PROVE  /\ link' \in [Links -> LinkRecord]
           /\ \A e \in Links :
                LET l == link[e]
                    m == link'[e]
                IN  /\ m.stale = l.up
                    /\ m.up = l.up /\ m.commands = l.commands /\ m.sending = l.sending
                    /\ m.inFlight = l.inFlight /\ m.watchers = l.watchers /\ m.told = l.told
                    /\ m.out = l.out /\ m.busy = l.busy /\ m.queue = l.queue
                    /\ m.inbound = l.inbound /\ m.subscribed = l.subscribed
                    /\ m.hostGraphics = l.hostGraphics
                    /\ l = Closed => m = Closed
<1> HIDE DEF Request, Command, Answer, Envelope
<1>1. \A e \in Links : link[e] \in LinkRecord
  BY DEF LinkTypes
<1>2. \A e \in Links : [link[e] EXCEPT !.stale = link[e].up] \in LinkRecord
  BY <1>1 DEF LinkRecord
<1>3. link' = [e \in Links |-> [link[e] EXCEPT !.stale = link[e].up]]
  BY DEF Toggles
<1>4. [Closed EXCEPT !.stale = Closed.up] = Closed
  <2>1. Closed.up = FALSE
    BY DEF Closed
  <2>2. Closed \in LinkRecord /\ Closed.stale = FALSE
    BY ClosedTypes DEF Closed
  <2> HIDE DEF Closed
  <2>. QED BY <2>1, <2>2 DEF LinkRecord
<1>. QED BY <1>1, <1>2, <1>3, <1>4 DEF LinkRecord

\* The report of a change is queued for every subscriber that has room.
LEMMA HostReportsEffect ==
    ASSUME LinkTypes, NEW t \in Task, HostReports(t)
    PROVE  /\ link' \in [Links -> LinkRecord]
           /\ \A e \in Links :
                LET l == link[e]
                    m == link'[e]
                IN  /\ \/ ~ l.subscribed /\ m = l
                       \/ l.subscribed /\ m.subscribed = l.subscribed
                            /\ m.queue = Append(l.queue, Event(t))
                       \/ l.subscribed /\ ~ m.subscribed /\ m.queue = l.queue
                    /\ m.up = l.up /\ m.commands = l.commands /\ m.sending = l.sending
                    /\ m.inFlight = l.inFlight /\ m.watchers = l.watchers /\ m.told = l.told
                    /\ m.stale = l.stale /\ m.out = l.out /\ m.busy = l.busy
                    /\ m.inbound = l.inbound /\ m.hostGraphics = l.hostGraphics
<1> DEFINE full(e) == [link[e] EXCEPT !.subscribed = FALSE]
           told(e) == [link[e] EXCEPT !.queue = Append(link[e].queue, Event(t))]
<1>0. Event(t) \in Envelope
  BY Kinds
<1> HIDE DEF Request, Command, Answer, Envelope
<1>1. \A e \in Links : link[e] \in LinkRecord /\ link[e].queue \in Seq(Envelope)
  BY LinkFields
<1>2. \A e \in Links : Append(link[e].queue, Event(t)) \in Seq(Envelope)
  BY <1>0, <1>1, SeqParts
<1>3. \A e \in Links : full(e) \in LinkRecord /\ told(e) \in LinkRecord
  BY <1>1, <1>2 DEF LinkRecord
<1>4. link' = [e \in Links |-> IF ~ link[e].subscribed THEN link[e]
                               ELSE IF Len(link[e].queue) < QueueRoom THEN told(e) ELSE full(e)]
  BY DEF HostReports
<1>5. link' \in [Links -> LinkRecord]
  <2> HIDE DEF full, told
  <2>. QED BY <1>1, <1>3, <1>4
<1>6. \A e \in Links : link'[e] = IF ~ link[e].subscribed THEN link[e]
                                  ELSE IF Len(link[e].queue) < QueueRoom THEN told(e) ELSE full(e)
  BY <1>4
<1>. QED BY <1>1, <1>5, <1>6 DEF LinkRecord

\* When there is no gate in the table, some gate is held by nobody.
LEMMA FreeGateIsFree ==
    ASSUME gate = 0
    PROVE  FreeGate \in Nat /\ FreeGate # 0 /\ Holders(FreeGate) = {}
<1> DEFINE n == Cardinality(Task)
           G == 1 .. n + 1
<1>1. n \in Nat /\ IsFiniteSet(Task)
  BY RoomAssumption, FS_CardinalityType
<1>2. IsFiniteSet(G) /\ Cardinality(G) = n + 1
  BY <1>1, FS_Interval
<1>3. \E g \in G : g # gate /\ Holders(g) = {}
  <2> SUFFICES ASSUME \A g \in G : Holders(g) # {} PROVE FALSE
    <3>1. \A g \in G : g # gate
      BY <1>1
    <3>. QED BY <3>1
  <2> DEFINE f == [g \in G |-> CHOOSE t \in Task : task[t].gate = g]
  <2>1. \A g \in G : f[g] \in Task /\ task[f[g]].gate = g
    BY DEF Holders
  <2>2. f \in [G -> Task]
    BY <2>1
  <2>3. Cardinality(Task) < Cardinality(G)
    BY <1>1, <1>2
  <2> HIDE DEF f, G, n
  <2>4. \E x, y \in G : x # y /\ f[x] = f[y]
    BY <1>1, <1>2, <2>2, <2>3, FS_PigeonHole
  <2>. QED BY <2>1, <2>4
<1>4. FreeGate \in G /\ Holders(FreeGate) = {}
  BY <1>3 DEF FreeGate
<1>. QED BY <1>1, <1>4

\* What a task's type says.
LEMMA TaskFields ==
    ASSUME LinkTypes, NEW t \in Task
    PROVE  /\ task[t] \in TaskRecord /\ task[t].stage \in Stages /\ task[t].gate \in Nat
           /\ task[t].link \in 0 .. MaxLinks /\ task[t].report \in BOOLEAN /\ task[t].read \in Nat
<1>1. task[t] \in TaskRecord
  BY DEF LinkTypes
<1>. QED BY <1>1 DEF TaskRecord

\* What a task does towards a connection, and with it, without touching it: the
\* fields of the task that change.
LEMMA TaskEffect ==
    ASSUME LinkTypes, NEW t \in Task, NEW u \in TaskRecord, task' = [task EXCEPT ![t] = u]
    PROVE  /\ task' \in [Task -> TaskRecord] /\ task'[t] = u
           /\ \A v \in Task \ {t} : task'[v] = task[v]
  BY DEF LinkTypes

\* Each of these steps changes one task as it says.
LEMMA ConnectingEffect ==
    ASSUME LinkTypes, NEW t \in Task, Connecting(t) \/ GivesUp(t) \/ TakesReport(t) \/ NoticesLoss(t)
    PROVE  /\ task' \in [Task -> TaskRecord]
           /\ \A v \in Task \ {t} : task'[v] = task[v]
           /\ task'[t].read = task[t].read
<1>0. task \in [Task -> TaskRecord] /\ task[t] \in TaskRecord
  BY DEF LinkTypes
<1>1. CASE Looks(t)
  <2>1. (IF IsOpen(open) THEN open ELSE 0) \in 0 .. MaxLinks
    BY RoomAssumption DEF LinkTypes
  <2> DEFINE s == IF IsOpen(open) THEN "watch" ELSE "clone"
             e == IF IsOpen(open) THEN open ELSE 0
             u == [task[t] EXCEPT !.stage = s, !.link = e]
  <2>2. s \in Stages /\ e \in 0 .. MaxLinks
    BY <2>1 DEF Stages
  <2>3. task' = [task EXCEPT ![t] = u]
    BY <1>1 DEF Looks
  <2> HIDE DEF s, e
  <2>4. u \in TaskRecord /\ u.read = task[t].read
    BY <1>0, <2>2 DEF TaskRecord
  <2>. QED BY <2>3, <2>4, TaskEffect
<1>2. CASE Clones(t)
  <2> DEFINE u == [task[t] EXCEPT !.stage = "gate", !.gate = gate']
  <2>1. gate' \in Nat
    BY <1>2, FreeGateIsFree DEF Clones, LinkTypes
  <2>2. task' = [task EXCEPT ![t] = u]
    BY <1>2 DEF Clones
  <2>3. u \in TaskRecord /\ u.read = task[t].read
    BY <1>0, <2>1 DEF TaskRecord, Stages
  <2>. QED BY <2>2, <2>3, TaskEffect
<1>3. ASSUME NEW e \in 0 .. MaxLinks, Leave(t, e)
      PROVE  /\ task' \in [Task -> TaskRecord]
             /\ \A v \in Task \ {t} : task'[v] = task[v]
             /\ task'[t].read = task[t].read
  <2> DEFINE u == [task[t] EXCEPT !.stage = "unlocked", !.link = e]
  <2>1. task' = [task EXCEPT ![t] = u]
    BY <1>3 DEF Leave
  <2>2. u \in TaskRecord /\ u.read = task[t].read
    BY <1>0 DEF TaskRecord, Stages
  <2>. QED BY <2>1, <2>2, TaskEffect
<1>4. CASE Locks(t)
  <2>1. CASE Leave(t, open)
    BY <1>3, <2>1 DEF LinkTypes
  <2>2. CASE task' = [task EXCEPT ![t].stage = "making"]
    <3> DEFINE u == [task[t] EXCEPT !.stage = "making"]
    <3>1. u \in TaskRecord /\ u.read = task[t].read /\ task' = [task EXCEPT ![t] = u]
      BY <1>0, <2>2 DEF TaskRecord, Stages
    <3>. QED BY <3>1, TaskEffect
  <2>. QED BY <1>4, <2>1, <2>2 DEF Locks
<1>5. CASE Makes(t)
  <2>1. made + 1 \in 0 .. MaxLinks
    BY <1>5, RoomAssumption DEF Makes, LinkTypes
  <2>. QED BY <1>3, <1>5, <2>1 DEF Makes
<1>6. CASE GivesUp(t)
  <2>1. 0 \in 0 .. MaxLinks
    BY RoomAssumption
  <2>. QED BY <1>3, <1>6, <2>1 DEF GivesUp
<1>7. CASE CleansUp(t)
  <2> DEFINE u == [task[t] EXCEPT !.stage = "leaving"]
  <2>1. u \in TaskRecord /\ u.read = task[t].read /\ task' = [task EXCEPT ![t] = u]
    BY <1>0, <1>7 DEF CleansUp, TaskRecord, Stages
  <2>. QED BY <2>1, TaskEffect
<1>8. CASE Leaves(t)
  <2> DEFINE s == IF task[t].link = 0 THEN "start" ELSE "watch"
             u == [task[t] EXCEPT !.gate = 0, !.stage = s]
  <2>1. s \in Stages
    BY DEF Stages
  <2>2. task' = [task EXCEPT ![t] = u]
    BY <1>8 DEF Leaves
  <2> HIDE DEF s
  <2>3. u \in TaskRecord /\ u.read = task[t].read
    BY <1>0, <2>1 DEF TaskRecord
  <2>. QED BY <2>2, <2>3, TaskEffect
<1>9. CASE TakesReport(t)
  <2> DEFINE u == [task[t] EXCEPT !.stage = "read", !.report = FALSE]
  <2>1. u \in TaskRecord /\ u.read = task[t].read /\ task' = [task EXCEPT ![t] = u]
    BY <1>0, <1>9 DEF TakesReport, TaskRecord, Stages
  <2>. QED BY <2>1, TaskEffect
<1>10. CASE NoticesLoss(t)
  <2> DEFINE u == [task[t] EXCEPT !.stage = "start", !.link = 0, !.report = FALSE]
  <2>1. 0 \in 0 .. MaxLinks
    BY RoomAssumption
  <2>2. u \in TaskRecord /\ u.read = task[t].read
    BY <1>0, <2>1 DEF TaskRecord, Stages
  <2>3. task' = [task EXCEPT ![t] = u]
    BY <1>10 DEF NoticesLoss
  <2>. QED BY <2>2, <2>3, TaskEffect
<1>. QED BY <1>1, <1>2, <1>4, <1>5, <1>6, <1>7, <1>8, <1>9, <1>10 DEF Connecting

\* The task whose request is answered, or whose pump an event is for.
LEMMA ReceivesTasks ==
    ASSUME LinkTypes, NEW e \in Links, Receives(e)
    PROVE  LET v == Head(link[e].inbound)
           IN  /\ v \in Envelope
               /\ task' \in [Task -> TaskRecord]
               /\ \A t \in Task :
                    /\ task'[t].link = task[t].link /\ task'[t].gate = task[t].gate
                    /\ v.kind = "event" =>
                         /\ task'[t].stage = task[t].stage /\ task'[t].read = task[t].read
                         /\ task'[t].report = (task[t].report \/ (t = v.task /\ t \in link[e].watchers))
                    /\ v.kind = "get" /\ t = v.request.task =>
                         /\ task'[t].stage = "wait" /\ task'[t].read = v.version
                         /\ task'[t].report = task[t].report
                    /\ v.kind = "watch" /\ t = v.request.task =>
                         /\ task'[t].stage = "read" /\ task'[t].read = task[t].read
                         /\ task'[t].report = task[t].report
                    /\ v.kind # "event" /\ (v.kind = "graphics" \/ t # v.request.task) =>
                         task'[t] = task[t]
<1> DEFINE v == Head(link[e].inbound)
           told(t) == [task[t] EXCEPT !.report = @ \/ (t = v.task /\ t \in link[e].watchers)]
<1>1. v \in Envelope
  BY LinkFields, SeqParts DEF Receives
<1>2. /\ v.kind \in {"get", "watch", "graphics", "event"}
      /\ v.kind = "get" => v.version \in Nat
      /\ v.kind # "event" => v.request.kind = v.kind
  BY <1>1, EnvelopeKinds, Kinds
<1>3. task' = [t \in Task |-> IF v.kind = "event" THEN told(t)
                              ELSE IF v.kind # "graphics" /\ t = v.request.task THEN Answered(t, v)
                              ELSE task[t]]
  BY DEF Receives
<1> HIDE DEF v
<1>4. ASSUME NEW t \in Task
      PROVE  /\ told(t) \in TaskRecord
             /\ told(t).link = task[t].link /\ told(t).gate = task[t].gate
             /\ told(t).stage = task[t].stage /\ told(t).read = task[t].read
             /\ told(t).report = (task[t].report \/ (t = v.task /\ t \in link[e].watchers))
  <2> DEFINE b == task[t].report \/ (t = v.task /\ t \in link[e].watchers)
  <2>1. told(t) = [task[t] EXCEPT !.report = b]
    OBVIOUS
  <2>2. b \in BOOLEAN
    OBVIOUS
  <2> HIDE DEF told, b
  <2>3. told(t) \in TaskRecord
    BY <2>1, <2>2, TaskFields DEF TaskRecord
  <2>4. /\ told(t).link = task[t].link /\ told(t).gate = task[t].gate
        /\ told(t).stage = task[t].stage /\ told(t).read = task[t].read
        /\ told(t).report = b
    BY <2>1, TaskFields DEF TaskRecord
  <2>. QED BY <2>3, <2>4 DEF b
<1>5. ASSUME NEW t \in Task, v.kind \in {"get", "watch"}
      PROVE  LET a == Answered(t, v)
             IN  /\ a \in TaskRecord
                 /\ a.link = task[t].link /\ a.gate = task[t].gate /\ a.report = task[t].report
                 /\ v.kind = "get" => a.stage = "wait" /\ a.read = v.version
                 /\ v.kind = "watch" => a.stage = "read" /\ a.read = task[t].read
  BY <1>2, <1>5, TaskFields DEF Answered, TaskRecord, Stages
<1> HIDE DEF told
<1>6. \A t \in Task : task[t] \in TaskRecord
  BY DEF LinkTypes
<1>7. task' \in [Task -> TaskRecord]
  BY <1>2, <1>3, <1>4, <1>5, <1>6
<1>8. ASSUME NEW t \in Task
      PROVE  task'[t] = IF v.kind = "event" THEN told(t)
                        ELSE IF v.kind # "graphics" /\ t = v.request.task THEN Answered(t, v)
                        ELSE task[t]
  BY <1>3
<1>. QED BY <1>1, <1>2, <1>4, <1>5, <1>7, <1>8 DEF v

\* Every step keeps the types.
LEMMA LinkTypesStep == LinkTypes /\ [Next]_vars => LinkTypes'
<1> SUFFICES ASSUME LinkTypes, [Next]_vars PROVE LinkTypes'
  OBVIOUS
<1>0. /\ task \in [Task -> TaskRecord] /\ gate \in Nat /\ open \in 0 .. MaxLinks
      /\ made \in 0 .. MaxLinks /\ link \in [Links -> LinkRecord] /\ graphics \in BOOLEAN
      /\ version \in [Task -> Nat] /\ unsaid \in [Task -> Nat]
      /\ budget \in [changes : Nat, toggles : Nat, faults : Nat]
  BY DEF LinkTypes
<1>1. ASSUME NEW t \in Task, Connecting(t) \/ GivesUp(t) \/ TakesReport(t) \/ NoticesLoss(t)
      PROVE LinkTypes'
  <2>1. task' \in [Task -> TaskRecord]
    BY <1>1, ConnectingEffect
  <2>2. CASE Makes(t)
    <3>1. made + 1 \in Links /\ made + 1 \in 0 .. MaxLinks
      BY <1>0, <2>2, RoomAssumption DEF Makes, Links
    <3>2. link' \in [Links -> LinkRecord]
      BY <2>2, <3>1, ReplacedEffect DEF Makes
    <3>. QED BY <1>0, <2>1, <2>2, <3>1, <3>2 DEF Makes, LinkTypes
  <2>3. CASE Clones(t)
    <3>1. gate' \in Nat
      BY <1>0, <2>3, FreeGateIsFree DEF Clones
    <3>. QED BY <1>0, <2>1, <2>3, <3>1 DEF Clones, LinkTypes
  <2>4. CASE CleansUp(t)
    <3>1. gate' \in Nat
      BY <1>0, <2>4 DEF CleansUp, GateCleanup
    <3>. QED BY <1>0, <2>1, <2>4, <3>1 DEF CleansUp, LinkTypes
  <2>5. CASE Looks(t) \/ Locks(t) \/ Leaves(t) \/ TakesReport(t) \/ NoticesLoss(t)
    BY <1>0, <2>1, <2>5 DEF Looks, Locks, Leaves, TakesReport, NoticesLoss, LinkTypes
  <2>6. CASE GivesUp(t)
    <3>1. budget' \in [changes : Nat, toggles : Nat, faults : Nat]
      BY <1>0, <2>6 DEF GivesUp
    <3>. QED BY <1>0, <2>1, <2>6, <3>1 DEF GivesUp, LinkTypes
  <2>. QED BY <1>1, <2>2, <2>3, <2>4, <2>5, <2>6 DEF Connecting
<1>2. ASSUME NEW t \in Task, NEW c \in Command, NEW then \in Stages, Sends(t, c, then)
      PROVE LinkTypes'
  <2>1. link' \in [Links -> LinkRecord] /\ task' = [task EXCEPT ![t] = [task[t] EXCEPT !.stage = then]]
    BY <1>2, SendsEffect
  <2>2. [task[t] EXCEPT !.stage = then] \in TaskRecord
    BY TaskFields DEF TaskRecord
  <2>. QED BY <1>0, <1>2, <2>1, <2>2 DEF Sends, LinkTypes
<1>3. ASSUME NEW t \in Task, Watches(t) \/ Reads(t) PROVE LinkTypes'
  BY <1>2, <1>3, Kinds DEF Watches, Reads, Stages
<1>4. ASSUME NEW t \in Task, HostReports(t) PROVE LinkTypes'
  <2>1. link' \in [Links -> LinkRecord]
    BY <1>4, HostReportsEffect
  <2>2. unsaid' \in [Task -> Nat]
    BY <1>0, <1>4 DEF HostReports
  <2>. QED BY <1>0, <1>4, <2>1, <2>2 DEF HostReports, LinkTypes
<1>4b. ASSUME NEW t \in Task, HostChanges(t) PROVE LinkTypes'
  <2>1. /\ budget' \in [changes : Nat, toggles : Nat, faults : Nat]
        /\ version' \in [Task -> Nat] /\ unsaid' \in [Task -> Nat]
    BY <1>0, <1>4b DEF HostChanges
  <2>. QED BY <1>0, <1>4b, <2>1 DEF HostChanges, LinkTypes
<1>5. ASSUME Toggles PROVE LinkTypes'
  <2>1. link' \in [Links -> LinkRecord]
    BY <1>5, TogglesEffect
  <2>2. budget' \in [changes : Nat, toggles : Nat, faults : Nat] /\ graphics' \in BOOLEAN
    BY <1>0, <1>5 DEF Toggles
  <2>. QED BY <1>0, <1>5, <2>1, <2>2 DEF Toggles, LinkTypes
<1>6. ASSUME NEW e \in Links, Receives(e) PROVE LinkTypes'
  <2>1. link' \in [Links -> LinkRecord] /\ task' \in [Task -> TaskRecord]
    BY <1>6, ReceivesEffect, ReceivesTasks
  <2>. QED BY <1>0, <1>6, <2>1 DEF Receives, LinkTypes
<1>7. ASSUME NEW e \in Links, Serving(e) \/ Hosting(e) \/ HostWrites(e) \/ Fails(e) PROVE LinkTypes'
  <2>1. link' \in [Links -> LinkRecord]
    BY <1>7, FollowsGraphicsEffect, TakesCommandEffect, SentEffect, HostTakesEffect,
       HostAnswersEffect, HostWritesEffect, ReplacedEffect DEF Serving, Hosting, Fails
  <2>. QED BY <1>0, <1>7, <2>1
           DEF Serving, Hosting, HostWrites, Fails, FollowsGraphics, TakesCommand, Sent,
               HostTakes, HostAnswers, LinkTypes
<1>8. ASSUME UNCHANGED vars PROVE LinkTypes'
  BY <1>0, <1>8 DEF vars, LinkTypes
<1>. QED BY <1>1, <1>3, <1>4, <1>4b, <1>5, <1>6, <1>7, <1>8 DEF Next, Pumping
-----------------------------------------------------------------------------
(* One connection at a time *)

\* A connection that is not the open one's, or that stays up or down as it was,
\* leaves it open or lost as it was, or loses it.
LEMMA MakerKept ==
    ASSUME MakerInv, UNCHANGED <<gate, open>>, IsOpen(open)' => IsOpen(open),
           \A t \in Task : /\ task'[t].stage \in {"gate", "making", "unlocked"} =>
                                task[t].stage \in {"gate", "making", "unlocked"}
                           /\ task'[t].stage = "making" => task[t].stage = "making"
                           /\ task'[t].gate = task[t].gate \/ task'[t].stage \notin {"gate", "making", "unlocked"}
    PROVE  MakerInv'
  BY DEF MakerInv, HoldsTheGate, OneMaker

\* Every step keeps the gate and its holders together, and one maker.
LEMMA MakerStep == LinkTypes /\ MakerInv /\ [Next]_vars => MakerInv'
<1> SUFFICES ASSUME LinkTypes, MakerInv, [Next]_vars PROVE MakerInv'
  OBVIOUS
<1>0. /\ task \in [Task -> TaskRecord] /\ \A t \in Task : task[t] \in TaskRecord
      /\ open \in 0 .. MaxLinks
  BY DEF LinkTypes
<1>1. ASSUME NEW t \in Task, Looks(t) PROVE MakerInv'
  <2>1. UNCHANGED <<gate, open, link>> /\ (IsOpen(open)' => IsOpen(open))
    BY <1>1 DEF Looks, IsOpen
  <2>2. /\ \A v \in Task \ {t} : task'[v] = task[v]
        /\ task'[t].stage \in {"watch", "clone"}
    BY <1>0, <1>1 DEF Looks, TaskRecord
  <2>. QED BY <2>1, <2>2, MakerKept
<1>2. ASSUME NEW t \in Task, Clones(t) PROVE MakerInv'
  <2>1. /\ \A v \in Task \ {t} : task'[v] = task[v]
        /\ task'[t].stage = "gate" /\ task'[t].gate = gate'
    BY <1>0, <1>2 DEF Clones, TaskRecord
  <2>2. UNCHANGED <<open, link>> /\ (IsOpen(open)' <=> IsOpen(open))
    BY <1>2 DEF Clones, IsOpen
  <2>3. gate' # 0 /\ (gate # 0 => gate' = gate)
    BY <1>2, FreeGateIsFree DEF Clones
  <2>4. HoldsTheGate'
    BY <2>1, <2>3 DEF MakerInv, HoldsTheGate
  <2>5. OneMaker'
    BY <2>1, <2>2 DEF MakerInv, OneMaker
  <2>. QED BY <2>4, <2>5 DEF MakerInv
<1>3. ASSUME NEW t \in Task, Locks(t) PROVE MakerInv'
  <2>1. UNCHANGED <<gate, open, link>> /\ (IsOpen(open)' <=> IsOpen(open))
    BY <1>3 DEF Locks, IsOpen
  <2>2. /\ \A v \in Task \ {t} : task'[v] = task[v]
        /\ task'[t].gate = task[t].gate
        /\ task[t].stage = "gate"
        /\ task'[t].stage = IF IsOpen(open) THEN "unlocked" ELSE "making"
    BY <1>0, <1>3 DEF Locks, Leave, TaskRecord
  <2>3. \A u \in Task : task[u].stage # "making"
    <3>1. \A u \in Task : task[u].stage = "making" => u \in Holders(task[t].gate)
      BY <2>2 DEF Holders, MakerInv, HoldsTheGate
    <3>. QED BY <1>3, <3>1 DEF Locks
  <2>4. HoldsTheGate'
    BY <2>1, <2>2 DEF MakerInv, HoldsTheGate
  <2>5. OneMaker'
    BY <2>1, <2>2, <2>3 DEF OneMaker
  <2>. QED BY <2>4, <2>5 DEF MakerInv
<1>4. ASSUME NEW t \in Task, Makes(t) PROVE MakerInv'
  <2>1. /\ \A v \in Task \ {t} : task'[v] = task[v]
        /\ task'[t].gate = task[t].gate /\ task'[t].stage = "unlocked"
        /\ task[t].stage = "making" /\ UNCHANGED gate
    BY <1>0, <1>4 DEF Makes, Leave, TaskRecord
  <2>2. \A u \in Task : task'[u].stage # "making"
    BY <2>1 DEF MakerInv, OneMaker
  <2>3. HoldsTheGate'
    BY <2>1 DEF MakerInv, HoldsTheGate
  <2>. QED BY <2>2, <2>3 DEF MakerInv, OneMaker
<1>5. ASSUME NEW t \in Task, GivesUp(t) PROVE MakerInv'
  <2>1. UNCHANGED <<gate, open, link>> /\ (IsOpen(open)' => IsOpen(open))
    BY <1>5 DEF GivesUp, IsOpen
  <2>2. /\ \A v \in Task \ {t} : task'[v] = task[v]
        /\ task[t].stage \in {"gate", "making"}
        /\ task'[t].stage = "unlocked" /\ task'[t].gate = task[t].gate
    BY <1>0, <1>5 DEF GivesUp, Leave, TaskRecord
  <2>. QED BY <2>1, <2>2, MakerKept
<1>6. ASSUME NEW t \in Task, CleansUp(t) PROVE MakerInv'
  <2>1. UNCHANGED <<open, link>> /\ (IsOpen(open)' <=> IsOpen(open))
    BY <1>6 DEF CleansUp, IsOpen
  <2>2. /\ \A v \in Task \ {t} : task'[v] = task[v]
        /\ task[t].stage = "unlocked" /\ task'[t].stage = "leaving"
        /\ gate' = GateCleanup(task[t].gate)
    BY <1>0, <1>6 DEF CleansUp, TaskRecord
  <2>3. task[t].gate = gate /\ gate # 0
    BY <2>2 DEF MakerInv, HoldsTheGate
  <2>4. CASE gate' = gate
    BY <2>1, <2>2, <2>4, MakerKept
  <2>5. CASE gate' # gate
    <3>1. IsFiniteSet(Holders(gate))
      <4>1. Holders(gate) \in SUBSET Task
        BY DEF Holders
      <4>. QED BY <4>1, RoomAssumption, FS_Subset
    <3>2. Cardinality(Holders(gate)) \in Nat
      BY <3>1, FS_CardinalityType
    <3>3. Cardinality(Holders(gate)) = 1
      BY <2>2, <2>3, <2>5, <3>2 DEF GateCleanup
    <3>4. \E x : Holders(gate) = {x}
      BY <3>1, <3>3, FS_Singleton
    <3>5. Holders(gate) = {t}
      BY <2>3, <3>4 DEF Holders
    <3>6. \A u \in Task : task'[u].stage \notin {"gate", "making", "unlocked"}
      BY <2>2, <3>5 DEF MakerInv, HoldsTheGate, Holders
    <3>. QED BY <3>6 DEF MakerInv, HoldsTheGate, OneMaker
  <2>. QED BY <2>4, <2>5
<1>7. ASSUME NEW t \in Task, Leaves(t) \/ TakesReport(t) \/ NoticesLoss(t) PROVE MakerInv'
  <2>1. UNCHANGED <<gate, open, link>> /\ (IsOpen(open)' => IsOpen(open))
    BY <1>7 DEF Leaves, TakesReport, NoticesLoss, IsOpen
  <2>2. /\ \A v \in Task \ {t} : task'[v] = task[v]
        /\ task'[t].stage \in {"start", "watch", "read"}
    BY <1>0, <1>7 DEF Leaves, TakesReport, NoticesLoss, TaskRecord
  <2>. QED BY <2>1, <2>2, MakerKept
<1>8. ASSUME NEW t \in Task, NEW c \in Command, NEW then \in {"ask", "asked", "reading"},
             Sends(t, c, then)
      PROVE MakerInv'
  <2>1. then \in Stages /\ UNCHANGED <<gate, open>>
    BY <1>8 DEF Stages, Sends
  <2>2. \A e \in Links : link'[e].up = link[e].up
    BY <1>8, <2>1, SendsEffect
  <2>3. IsOpen(open)' => IsOpen(open)
    BY <1>0, <2>1, <2>2, RoomAssumption DEF IsOpen, Links
  <2>4. /\ \A v \in Task \ {t} : task'[v] = task[v]
        /\ task'[t].stage = then
    BY <1>0, <1>8 DEF Sends, TaskRecord
  <2>. QED BY <2>1, <2>3, <2>4, MakerKept
<1>9. ASSUME NEW t \in Task, Watches(t) \/ Reads(t) PROVE MakerInv'
  BY <1>8, <1>9, Kinds DEF Watches, Reads
<1>10. ASSUME UNCHANGED <<gate, open>>, \A e \in Links : link'[e].up => link[e].up,
              \A v \in Task : task'[v].stage = task[v].stage /\ task'[v].gate = task[v].gate
       PROVE MakerInv'
  <2>1. IsOpen(open)' => IsOpen(open)
    BY <1>0, <1>10, RoomAssumption DEF IsOpen, Links
  <2>. QED BY <1>10, <2>1, MakerKept
<1>11. ASSUME NEW t \in Task, HostReports(t) PROVE MakerInv'
  BY <1>10, <1>11, HostReportsEffect DEF HostReports
<1>11b. ASSUME NEW t \in Task, HostChanges(t) PROVE MakerInv'
  BY <1>10, <1>11b DEF HostChanges
<1>12. ASSUME Toggles PROVE MakerInv'
  BY <1>10, <1>12, TogglesEffect DEF Toggles
<1>13. ASSUME NEW e \in Links, Receives(e) PROVE MakerInv'
  <2>1. UNCHANGED <<gate, open>> /\ \A d \in Links : link'[d].up = link[d].up
    BY <1>13, ReceivesEffect DEF Receives
  <2>2. \A v \in Task : /\ task'[v].gate = task[v].gate
                        /\ task'[v].stage = task[v].stage \/ task'[v].stage \in {"read", "wait"}
    <3>1. Head(link[e].inbound) \in Envelope
      BY <1>13, ReceivesTasks
    <3>2. Head(link[e].inbound).kind \in {"event", "get", "watch", "graphics"}
      BY <3>1, EnvelopeKinds, Kinds
    <3>. QED BY <1>13, <3>2, ReceivesTasks
  <2>3. IsOpen(open)' => IsOpen(open)
    BY <1>0, <2>1, RoomAssumption DEF IsOpen, Links
  <2>. QED BY <2>1, <2>2, <2>3, MakerKept
<1>14. ASSUME NEW e \in Links, Serving(e) \/ Hosting(e) \/ HostWrites(e) PROVE MakerInv'
  <2>1. UNCHANGED <<gate, open, task>>
    BY <1>14 DEF Serving, Hosting, HostWrites, FollowsGraphics, TakesCommand, Sent,
                 HostTakes, HostAnswers
  <2>2. \A d \in Links : link'[d].up = link[d].up
    <3>1. CASE FollowsGraphics(e)
      BY <3>1, FollowsGraphicsEffect
    <3>2. CASE TakesCommand(e)
      BY <3>2, TakesCommandEffect
    <3>3. CASE Sent(e)
      BY <3>3, SentEffect
    <3>4. CASE HostTakes(e)
      BY <3>4, HostTakesEffect
    <3>5. CASE HostAnswers(e)
      BY <3>5, HostAnswersEffect
    <3>6. CASE HostWrites(e)
      BY <3>6, HostWritesEffect
    <3>. QED BY <1>14, <3>1, <3>2, <3>3, <3>4, <3>5, <3>6 DEF Serving, Hosting
  <2>. QED BY <1>10, <2>1, <2>2
<1>15. ASSUME NEW e \in Links, Fails(e) PROVE MakerInv'
  <2>1. UNCHANGED <<gate, open, task>> /\ link' = [link EXCEPT ![e] = Closed]
    BY <1>15 DEF Fails
  <2>2. \A d \in Links : link'[d].up => link[d].up
    BY <1>15, <2>1, ReplacedEffect, EmptyParts DEF Fails
  <2>. QED BY <1>10, <2>1, <2>2
<1>16. ASSUME UNCHANGED vars PROVE MakerInv'
  BY <1>10, <1>16 DEF vars
<1>. QED BY <1>1, <1>2, <1>3, <1>4, <1>5, <1>6, <1>7, <1>9, <1>11, <1>11b, <1>12, <1>13,
            <1>14, <1>15, <1>16 DEF Next, Connecting, Pumping
-----------------------------------------------------------------------------
(* What the host hears of host graphics *)

\* A connection whose settings, sent or to be sent, stay as they are.
SameSettings(e) ==
    /\ link'[e].up = link[e].up /\ link'[e].stale = link[e].stale
    /\ link'[e].told = link[e].told /\ link'[e].hostGraphics = link[e].hostGraphics
    /\ link'[e].out = link[e].out

\* What the settings invariant says of one connection.
SettingOf(e) ==
    /\ link[e].up \/ link[e] = Closed
    /\ SettingsIn(link[e].out) = {} => link[e].hostGraphics = link[e].told
    /\ \A i \in SettingsIn(link[e].out) :
          (\A j \in SettingsIn(link[e].out) : j <= i) => link[e].out[i].value = link[e].told
    /\ link[e].up /\ ~ link[e].stale =>
          IF link[e].sending.kind = "graphics" THEN link[e].sending.value = graphics
                                              ELSE link[e].told = graphics

\* It says that of each.
LEMMA SettingParts == SettingInv <=> \A e \in Links : SettingOf(e)
  BY DEF SettingInv, SettingOf, DownIsClosed, LastSent, SendsSetting

\* A connection that is closed or new.
LEMMA EmptySetting ==
    ASSUME NEW e \in Links, link'[e] \in {Closed, Fresh}
    PROVE  SettingOf(e)'
<1> DEFINE m == link'[e]
<1>1. /\ m.out = <<>> /\ m.hostGraphics = FALSE /\ m.told = FALSE
      /\ m.up => m.stale
      /\ m.up \/ m = Closed
  BY EmptyParts
<1>2. SettingsIn(m.out) = {}
  <2>1. DOMAIN <<>> = {}
    OBVIOUS
  <2>. QED BY <1>1, <2>1 DEF SettingsIn
<1>. QED BY <1>1, <1>2 DEF SettingOf

\* A step that changes one connection and keeps the setting.
LEMMA SettingFrame ==
    ASSUME SettingInv, NEW e \in Links, UNCHANGED graphics,
           \A d \in Links \ {e} : link'[d] = link[d], SettingOf(e)'
    PROVE  SettingInv'
<1>1. ASSUME NEW d \in Links PROVE SettingOf(d)'
  <2>1. CASE d = e
    BY <2>1
  <2>2. CASE d # e
    <3>1. SettingOf(d) /\ link'[d] = link[d]
      BY <2>2, SettingParts
    <3>. QED BY <3>1 DEF SettingOf
  <2>. QED BY <2>1, <2>2
<1>. QED BY <1>1 DEF SettingInv, SettingOf, DownIsClosed, LastSent, SendsSetting

\* A step that leaves what is sent to the host alone.
LEMMA SettingQuiet ==
    ASSUME SettingInv, NEW e \in Links, UNCHANGED graphics, link[e].up, SameSettings(e),
           link'[e].sending = link[e].sending
    PROVE  SettingOf(e)'
<1>1. SettingOf(e)
  BY SettingParts
<1>. QED BY <1>1 DEF SettingOf, SameSettings

\* Every step keeps the settings on their way in order.
LEMMA SettingStep == LinkTypes /\ SettingInv /\ [Next]_vars => SettingInv'
<1> SUFFICES ASSUME LinkTypes, SettingInv, [Next]_vars PROVE SettingInv'
  OBVIOUS
<1>1. ASSUME NEW e \in Links, FollowsGraphics(e) PROVE SettingInv'
  <2>1. /\ UNCHANGED graphics /\ link[e].up /\ link'[e].up /\ ~ link'[e].stale
        /\ \A d \in Links \ {e} : link'[d] = link[d]
        /\ link'[e].out = link[e].out /\ link'[e].told = link[e].told
        /\ link'[e].hostGraphics = link[e].hostGraphics
        /\ link[e].sending = NoRequest
        /\ link'[e].sending = IF graphics = link[e].told THEN link[e].sending ELSE SetGraphics
    BY <1>1, FollowsGraphicsEffect DEF FollowsGraphics
  <2>2. SetGraphics.kind = "graphics" /\ SetGraphics.value = graphics /\ NoRequest.kind = "none"
    BY DEF SetGraphics, NoRequest
  <2>3. SettingOf(e)
    BY SettingParts
  <2>4. SettingOf(e)'
    BY <2>1, <2>2, <2>3 DEF SettingOf
  <2>. QED BY <2>1, <2>4, SettingFrame
<1>2. ASSUME NEW e \in Links, TakesCommand(e) PROVE SettingInv'
  <2>1. /\ UNCHANGED graphics /\ link[e].up /\ SameSettings(e) /\ link[e].sending = NoRequest
        /\ link[e].commands # <<>> /\ \A d \in Links \ {e} : link'[d] = link[d]
        /\ link'[e].sending \in {NoRequest, Head(link[e].commands)}
        /\ Head(link[e].commands).kind = "watcher" => link'[e].sending = NoRequest
    <3>1. UNCHANGED graphics
      BY <1>2 DEF TakesCommand
    <3>2. SameSettings(e)
      BY <1>2, TakesCommandEffect DEF SameSettings
    <3>3. /\ link[e].up /\ link[e].sending = NoRequest
          /\ link[e].commands # <<>> /\ \A d \in Links \ {e} : link'[d] = link[d]
          /\ link'[e].sending = IF Head(link[e].commands).kind = "watcher" THEN link[e].sending
                                ELSE Head(link[e].commands)
      BY <1>2, TakesCommandEffect
    <3>. QED BY <3>1, <3>2, <3>3
  <2>2. Head(link[e].commands) \in Command
    BY <2>1, LinkFields, SeqParts
  <2>3. Head(link[e].commands).kind # "graphics" /\ NoRequest.kind # "graphics"
    BY <2>2 DEF Command, TaskRequest, NoRequest
  <2>4. SettingOf(e)
    BY SettingParts
  <2>5. SettingOf(e)'
    BY <2>1, <2>3, <2>4 DEF SettingOf, SameSettings
  <2>. QED BY <2>1, <2>5, SettingFrame
<1>3. ASSUME NEW e \in Links, Sent(e) PROVE SettingInv'
  <2> DEFINE l == link[e]
             m == link'[e]
             s == l.sending
  <2>1. /\ UNCHANGED graphics /\ l.up /\ m.up /\ m.stale = l.stale
        /\ \A d \in Links \ {e} : link'[d] = link[d]
        /\ m.out = Append(l.out, s) /\ m.hostGraphics = l.hostGraphics
        /\ m.told = (IF s.kind = "graphics" THEN s.value ELSE l.told)
        /\ m.sending = NoRequest /\ s # NoRequest
    <3>1. UNCHANGED graphics
      BY <1>3 DEF Sent
    <3>. QED BY <1>3, <3>1, SentEffect
  <2>2. l.out \in Seq(Request) /\ s \in Request
    BY <2>1, LinkFields
  <2>3. /\ Len(l.out) \in Nat /\ DOMAIN l.out = 1 .. Len(l.out)
        /\ DOMAIN m.out = 1 .. Len(l.out) + 1
        /\ m.out[Len(l.out) + 1] = s /\ \A i \in 1 .. Len(l.out) : m.out[i] = l.out[i]
    BY <2>1, <2>2, SeqParts
  <2>4. SettingOf(e) /\ NoRequest.kind # "graphics"
    BY SettingParts DEF NoRequest
  <2> HIDE DEF l, m, s
  <2>5. CASE s.kind = "graphics"
    <3>1. SettingsIn(m.out) = SettingsIn(l.out) \cup {Len(l.out) + 1}
      BY <2>3, <2>5 DEF SettingsIn
    <3>2. \A i \in SettingsIn(l.out) : i < Len(l.out) + 1
      BY <2>3 DEF SettingsIn
    <3>3. \A i \in SettingsIn(m.out) :
             (\A j \in SettingsIn(m.out) : j <= i) => m.out[i].value = m.told
      <4> SUFFICES ASSUME NEW i \in SettingsIn(m.out), \A j \in SettingsIn(m.out) : j <= i
                   PROVE  m.out[i].value = m.told
        OBVIOUS
      <4>1. i \in 1 .. Len(l.out) + 1 /\ Len(l.out) + 1 <= i
        BY <2>3, <3>1 DEF SettingsIn
      <4>2. i = Len(l.out) + 1
        BY <2>3, <4>1
      <4>. QED BY <2>1, <2>3, <2>5, <4>2
    <3>4. SettingsIn(m.out) # {}
      BY <3>1
    <3>5. l.up /\ ~ l.stale => m.told = graphics
      BY <2>1, <2>4, <2>5 DEF SettingOf, l, s
    <3>6. SettingOf(e)'
      BY <2>1, <2>4, <3>3, <3>4, <3>5 DEF SettingOf, m
    <3>. QED BY <2>1, <3>6, SettingFrame
  <2>6. CASE s.kind # "graphics"
    <3>1. SettingsIn(m.out) = SettingsIn(l.out)
      BY <2>3, <2>6 DEF SettingsIn
    <3>2. \A i \in SettingsIn(l.out) : m.out[i] = l.out[i]
      BY <2>3 DEF SettingsIn
    <3>3. /\ SettingsIn(m.out) = {} => m.hostGraphics = m.told
          /\ \A i \in SettingsIn(m.out) :
               (\A j \in SettingsIn(m.out) : j <= i) => m.out[i].value = m.told
          /\ m.up /\ ~ m.stale => m.told = graphics'
      BY <2>1, <2>4, <2>6, <3>1, <3>2 DEF SettingOf, l, s
    <3>4. SettingOf(e)'
      BY <2>1, <2>4, <3>3 DEF SettingOf, m
    <3>. QED BY <2>1, <3>4, SettingFrame
  <2>. QED BY <2>5, <2>6
<1>4. ASSUME NEW e \in Links, HostTakes(e) PROVE SettingInv'
  <2> DEFINE l == link[e]
             m == link'[e]
             r == Head(l.out)
  <2>1. /\ UNCHANGED graphics /\ m.up = l.up /\ m.stale = l.stale
        /\ \A d \in Links \ {e} : link'[d] = link[d]
        /\ m.out = Tail(l.out) /\ m.told = l.told /\ m.sending = l.sending
        /\ m.hostGraphics = (IF r.kind = "graphics" THEN r.value ELSE l.hostGraphics)
        /\ l.out # <<>>
    BY <1>4, HostTakesEffect DEF HostTakes
  <2>2. SettingOf(e) /\ Closed.out = <<>>
    BY SettingParts, EmptyParts
  <2>3. l.up
    BY <2>1, <2>2 DEF SettingOf
  <2>4. /\ Len(l.out) \in Nat /\ DOMAIN l.out = 1 .. Len(l.out) /\ Len(l.out) > 0
        /\ DOMAIN m.out = 1 .. Len(l.out) - 1
        /\ l.out[1] = r /\ \A i \in 1 .. Len(l.out) - 1 : m.out[i] = l.out[i + 1]
    BY <2>1, LinkFields, SeqParts
  <2> DEFINE L == SettingsIn(l.out)
             M == SettingsIn(m.out)
  <2>5. /\ L = {} => l.hostGraphics = l.told
        /\ \A i \in L : (\A j \in L : j <= i) => l.out[i].value = l.told
    BY <2>2 DEF SettingOf
  <2> HIDE DEF l, m, r
  <2>6. \A i \in M : i \in 1 .. Len(l.out) - 1 /\ i + 1 \in L /\ m.out[i] = l.out[i + 1]
    BY <2>4 DEF SettingsIn
  <2>7. \A j \in L : j \in 1 .. Len(l.out) /\ (j # 1 => j - 1 \in M)
    BY <2>4 DEF SettingsIn
  <2>8. 1 \in L <=> r.kind = "graphics"
    BY <2>4 DEF SettingsIn
  <2> HIDE DEF L, M
  <2>9. ASSUME M = {} PROVE m.hostGraphics = m.told
    <3>1. \A j \in L : j = 1
      BY <2>7, <2>9
    <3>2. CASE 1 \in L
      <4>1. \A j \in L : j <= 1
        BY <3>1
      <4>2. l.out[1].value = l.told
        BY <2>5, <3>2, <4>1
      <4>. QED BY <2>1, <2>4, <2>8, <3>2, <4>2
    <3>3. CASE 1 \notin L
      BY <2>1, <2>5, <2>8, <3>1, <3>3
    <3>. QED BY <3>2, <3>3
  <2>10. ASSUME NEW i \in M, \A j \in M : j <= i PROVE m.out[i].value = m.told
    <3>1. i \in Nat /\ i + 1 \in L /\ m.out[i] = l.out[i + 1]
      BY <2>4, <2>6
    <3>2. ASSUME NEW j \in L PROVE j <= i + 1
      <4>1. CASE j = 1
        BY <3>1, <4>1
      <4>2. CASE j # 1
        <5>1. j \in Nat /\ j - 1 \in M
          BY <2>4, <2>7, <4>2
        <5>2. j - 1 <= i
          BY <2>10, <5>1
        <5>. QED BY <3>1, <5>1, <5>2
      <4>. QED BY <4>1, <4>2
    <3>. QED BY <2>1, <2>5, <3>1, <3>2
  <2>11. SettingOf(e)'
    BY <2>1, <2>2, <2>3, <2>9, <2>10 DEF SettingOf, M, m, l
  <2>. QED BY <2>1, <2>11, SettingFrame
<1>5. ASSUME NEW e \in Links, HostAnswers(e) \/ HostWrites(e) \/ Receives(e) PROVE SettingInv'
  <2>1. /\ UNCHANGED graphics /\ SameSettings(e) /\ link'[e].sending = link[e].sending
        /\ \A d \in Links \ {e} : link'[d] = link[d]
    <3>1. CASE HostAnswers(e)
      BY <3>1, HostAnswersEffect DEF HostAnswers, SameSettings
    <3>2. CASE HostWrites(e)
      BY <3>2, HostWritesEffect DEF HostWrites, SameSettings
    <3>3. CASE Receives(e)
      BY <3>3, ReceivesEffect DEF Receives, SameSettings
    <3>. QED BY <1>5, <3>1, <3>2, <3>3
  <2>2. link[e].up
    <3>1. link[e] # Closed
      BY <1>5, EmptyParts DEF HostAnswers, HostWrites, Receives
    <3>. QED BY <3>1 DEF SettingInv, DownIsClosed
  <2>. QED BY <2>1, <2>2, SettingQuiet, SettingFrame
<1>6. ASSUME NEW t \in Task, NEW c \in Command, NEW then \in Stages, Sends(t, c, then)
      PROVE SettingInv'
  <2> DEFINE e == task[t].link
  <2>1. /\ e \in Links /\ link[e].up /\ SameSettings(e)
        /\ link'[e].sending = link[e].sending /\ \A d \in Links \ {e} : link'[d] = link[d]
    BY <1>6, SendsEffect DEF SameSettings
  <2>2. UNCHANGED graphics
    BY <1>6 DEF Sends
  <2>. QED BY <2>1, <2>2, SettingQuiet, SettingFrame
<1>7. ASSUME NEW t \in Task, Watches(t) \/ Reads(t) PROVE SettingInv'
  BY <1>6, <1>7, Kinds DEF Watches, Reads, Stages
<1>8. ASSUME NEW t \in Task, Makes(t) PROVE SettingInv'
  <2>1. made + 1 \in Links
    <3>1. made \in 0 .. MaxLinks
      BY DEF LinkTypes
    <3>2. made < MaxLinks
      BY <1>8 DEF Makes
    <3>. QED BY <3>1, <3>2, RoomAssumption DEF Links
  <2>2. /\ link'[made + 1] = Fresh /\ \A d \in Links \ {made + 1} : link'[d] = link[d]
        /\ UNCHANGED graphics
    BY <1>8, <2>1, ReplacedEffect DEF Makes
  <2>. QED BY <2>1, <2>2, EmptySetting, SettingFrame
<1>9. ASSUME NEW e \in Links, Fails(e) PROVE SettingInv'
  <2>1. /\ link'[e] = Closed /\ \A d \in Links \ {e} : link'[d] = link[d]
        /\ UNCHANGED graphics
    BY <1>9, ReplacedEffect DEF Fails
  <2>. QED BY <2>1, EmptySetting, SettingFrame
<1>10. ASSUME Toggles PROVE SettingInv'
  <2>1. ASSUME NEW e \in Links PROVE SettingOf(e)'
    <3>1. SettingOf(e)
      BY SettingParts
    <3>2. CASE link[e] = Closed
      BY <1>10, <3>2, TogglesEffect, EmptySetting
    <3>3. CASE link[e].up
      <4>1. /\ link'[e].up /\ link'[e].stale /\ link'[e].out = link[e].out
            /\ link'[e].told = link[e].told /\ link'[e].hostGraphics = link[e].hostGraphics
        BY <1>10, <3>3, TogglesEffect
      <4>. QED BY <3>1, <4>1 DEF SettingOf
    <3>. QED BY <3>1, <3>2, <3>3 DEF SettingOf
  <2>. QED BY <2>1 DEF SettingInv, SettingOf, DownIsClosed, LastSent, SendsSetting
<1>11. ASSUME NEW t \in Task, HostReports(t) PROVE SettingInv'
  <2>1. UNCHANGED graphics
    BY <1>11 DEF HostReports
  <2>2. ASSUME NEW e \in Links PROVE SettingOf(e)'
    <3>1. SettingOf(e)
      BY SettingParts
    <3>2. CASE link[e] = Closed
      <4>1. ~ link[e].subscribed
        BY <3>2 DEF Closed
      <4>2. link'[e] = Closed
        BY <1>11, <3>2, <4>1, HostReportsEffect
      <4>. QED BY <4>2, EmptySetting
    <3>3. CASE link[e].up
      BY <1>11, <2>1, <3>3, HostReportsEffect, SettingQuiet DEF SameSettings
    <3>. QED BY <3>1, <3>2, <3>3 DEF SettingOf
  <2>. QED BY <2>2 DEF SettingInv, SettingOf, DownIsClosed, LastSent, SendsSetting
<1>12. ASSUME UNCHANGED <<link, graphics>> PROVE SettingInv'
  BY <1>12 DEF SettingInv, DownIsClosed, LastSent, SendsSetting
<1>. QED BY <1>1, <1>2, <1>3, <1>4, <1>5, <1>7, <1>8, <1>9, <1>10, <1>11, <1>12
         DEF Next, Connecting, Pumping, Serving, Hosting, Looks, Clones, Locks, CleansUp,
             Leaves, GivesUp, TakesReport, NoticesLoss, HostChanges, vars
-----------------------------------------------------------------------------
(* Requests in flight *)

\* What is in a sequence when one is added at its end or taken from its front.
LEMMA ElementsParts ==
    ASSUME NEW S, NEW s \in Seq(S)
    PROVE  /\ \A x \in S : /\ Elements(Append(s, x)) = Elements(s) \cup {x}
                           /\ Injective(s) /\ x \notin Elements(s) => Injective(Append(s, x))
           /\ s # <<>> => /\ Elements(s) = Elements(Tail(s)) \cup {Head(s)}
                          /\ Injective(s) => Injective(Tail(s)) /\ Head(s) \notin Elements(Tail(s))
           /\ Elements(s) \subseteq S
<1>1. ASSUME NEW x \in S
      PROVE  /\ Elements(Append(s, x)) = Elements(s) \cup {x}
             /\ Injective(s) /\ x \notin Elements(s) => Injective(Append(s, x))
  <2> DEFINE a == Append(s, x)
             n == Len(s)
  <2>1. /\ n \in Nat /\ DOMAIN s = 1 .. n /\ DOMAIN a = 1 .. n + 1 /\ a[n + 1] = x
        /\ \A i \in 1 .. n : a[i] = s[i]
    BY SeqParts
  <2> HIDE DEF a, n
  <2>2. DOMAIN a = DOMAIN s \cup {n + 1}
    BY <2>1
  <2>3. Elements(a) = Elements(s) \cup {x}
    BY <2>1, <2>2 DEF Elements
  <2>4. ASSUME Injective(s), x \notin Elements(s) PROVE Injective(a)
    BY <2>1, <2>2, <2>4 DEF Injective, Elements
  <2>. QED BY <2>3, <2>4 DEF a
<1>2. ASSUME s # <<>>
      PROVE  /\ Elements(s) = Elements(Tail(s)) \cup {Head(s)}
             /\ Injective(s) => Injective(Tail(s)) /\ Head(s) \notin Elements(Tail(s))
  <2> DEFINE a == Tail(s)
             n == Len(s)
  <2>1. /\ n \in Nat /\ n > 0 /\ DOMAIN s = 1 .. n /\ DOMAIN a = 1 .. n - 1 /\ s[1] = Head(s)
        /\ \A i \in 1 .. n - 1 : a[i] = s[i + 1]
    BY <1>2, SeqParts
  <2> HIDE DEF a, n
  <2>2. Elements(s) = Elements(a) \cup {Head(s)}
    <3>1. ASSUME NEW i \in DOMAIN s PROVE s[i] \in Elements(a) \cup {Head(s)}
      <4>1. CASE i = 1
        BY <2>1, <4>1
      <4>2. CASE i # 1
        <5>1. i - 1 \in DOMAIN a /\ a[i - 1] = s[i]
          BY <2>1, <4>2
        <5>. QED BY <5>1 DEF Elements
      <4>. QED BY <4>1, <4>2
    <3>2. ASSUME NEW i \in DOMAIN a PROVE a[i] \in Elements(s)
      <4>1. i + 1 \in DOMAIN s /\ a[i] = s[i + 1]
        BY <2>1
      <4>. QED BY <4>1 DEF Elements
    <3>3. Head(s) \in Elements(s)
      BY <2>1 DEF Elements
    <3>. QED BY <3>1, <3>2, <3>3 DEF Elements
  <2>3. ASSUME Injective(s) PROVE Injective(a) /\ Head(s) \notin Elements(a)
    <3>1. \A i \in DOMAIN a : i + 1 \in DOMAIN s /\ a[i] = s[i + 1] /\ i \in Nat /\ i # 0
      BY <2>1
    <3>2. 1 \in DOMAIN s
      BY <2>1
    <3>. QED BY <2>1, <2>3, <3>1, <3>2 DEF Injective, Elements
  <2>. QED BY <2>2, <2>3 DEF a
<1>3. Elements(s) \subseteq S
  BY SeqParts DEF Elements
<1>. QED BY <1>1, <1>2, <1>3

\* What an envelope answers.
Answering(v) == IF v.kind = "event" THEN {} ELSE {v.request}

\* The same of what is answered.
LEMMA AnswersParts ==
    ASSUME NEW s \in Seq(Envelope)
    PROVE  /\ \A x \in Envelope :
                 /\ Answers(Append(s, x)) = Answers(s) \cup Answering(x)
                 /\ AnswerOnce(s) /\ Answering(x) \cap Answers(s) = {} => AnswerOnce(Append(s, x))
           /\ s # <<>> =>
                 /\ Answers(s) = Answers(Tail(s)) \cup Answering(Head(s))
                 /\ AnswerOnce(s) => /\ AnswerOnce(Tail(s))
                                     /\ Answering(Head(s)) \cap Answers(Tail(s)) = {}
<1> HIDE DEF Envelope
<1>1. ASSUME NEW x \in Envelope
      PROVE  /\ Answers(Append(s, x)) = Answers(s) \cup Answering(x)
             /\ AnswerOnce(s) /\ Answering(x) \cap Answers(s) = {} => AnswerOnce(Append(s, x))
  <2> DEFINE a == Append(s, x)
             n == Len(s)
  <2>1. /\ n \in Nat /\ DOMAIN s = 1 .. n /\ DOMAIN a = 1 .. n + 1 /\ a[n + 1] = x
        /\ \A i \in 1 .. n : a[i] = s[i]
    BY SeqParts
  <2> HIDE DEF a, n
  <2>2. DOMAIN a = DOMAIN s \cup {n + 1}
    BY <2>1
  <2>3. Answers(a) = Answers(s) \cup Answering(x)
    BY <2>1, <2>2 DEF Answers, Answering
  <2>4. ASSUME AnswerOnce(s), Answering(x) \cap Answers(s) = {} PROVE AnswerOnce(a)
    BY <2>1, <2>2, <2>4 DEF AnswerOnce, Answers, Answering
  <2>. QED BY <2>3, <2>4 DEF a
<1>2. ASSUME s # <<>>
      PROVE  /\ Answers(s) = Answers(Tail(s)) \cup Answering(Head(s))
             /\ AnswerOnce(s) => /\ AnswerOnce(Tail(s))
                                 /\ Answering(Head(s)) \cap Answers(Tail(s)) = {}
  <2> DEFINE a == Tail(s)
             n == Len(s)
  <2>1. /\ n \in Nat /\ n > 0 /\ DOMAIN s = 1 .. n /\ DOMAIN a = 1 .. n - 1 /\ s[1] = Head(s)
        /\ \A i \in 1 .. n - 1 : a[i] = s[i + 1]
    BY <1>2, SeqParts
  <2> HIDE DEF a, n
  <2>2. 1 \in DOMAIN s /\ \A i \in DOMAIN a : i + 1 \in DOMAIN s /\ a[i] = s[i + 1] /\ i \in Nat /\ i # 0
    BY <2>1
  <2>3. \A i \in DOMAIN s : i = 1 \/ (i - 1 \in DOMAIN a /\ a[i - 1] = s[i])
    BY <2>1
  <2>4. Answers(s) = Answers(a) \cup Answering(Head(s))
    <3>1. ASSUME NEW r \in Answers(s) PROVE r \in Answers(a) \cup Answering(Head(s))
      BY <2>1, <2>3 DEF Answers, Answering
    <3>2. ASSUME NEW r \in Answers(a) PROVE r \in Answers(s)
      BY <2>2 DEF Answers
    <3>3. Answering(Head(s)) \subseteq Answers(s)
      BY <2>1, <2>2 DEF Answers, Answering
    <3>. QED BY <3>1, <3>2, <3>3
  <2>5. ASSUME AnswerOnce(s)
        PROVE  AnswerOnce(a) /\ Answering(Head(s)) \cap Answers(a) = {}
    <3>1. AnswerOnce(a)
      BY <2>2, <2>5 DEF AnswerOnce
    <3>2. ASSUME NEW i \in DOMAIN a, a[i].kind # "event", s[1].kind # "event"
          PROVE  a[i].request # s[1].request
      BY <2>2, <2>5, <3>2 DEF AnswerOnce
    <3>. QED BY <2>1, <3>1, <3>2 DEF Answers, Answering
  <2>. QED BY <2>4, <2>5 DEF a
<1>. QED BY <1>1, <1>2

\* Nothing is in an empty sequence.
LEMMA EmptyElements ==
    /\ Elements(<<>>) = {} /\ Answers(<<>>) = {} /\ Injective(<<>>) /\ AnswerOnce(<<>>)
<1>1. DOMAIN <<>> = {}
  OBVIOUS
<1>. QED BY <1>1 DEF Elements, Answers, Injective, AnswerOnce

\* What the requests of one connection satisfy.
FlightOf(l, toggles) == InPlace(l) /\ New(l) /\ Once(l) /\ NumberedIn(l, toggles)

\* A connection that is closed or new.
LEMMA EmptyFlight ==
    ASSUME NEW l \in {Closed, Fresh}, NEW n \in Nat
    PROVE  FlightOf(l, n) /\ Pending(l) = {NoRequest}
<1>1. /\ l.commands = <<>> /\ l.sending = NoRequest /\ l.inFlight = {} /\ l.out = <<>>
      /\ l.busy = NoRequest /\ l.queue = <<>> /\ l.inbound = <<>>
  BY EmptyParts
<1>2. NoRequest.kind = "none" /\ IsFiniteSet({}) /\ DOMAIN <<>> = {}
  BY FS_EmptySet DEF NoRequest
<1> HIDE DEF NoRequest
<1>3. InPlace(l)
  BY <1>1, EmptyElements DEF InPlace, Busy
<1>4. New(l)
  BY <1>1, <1>2 DEF New
<1>5. Once(l)
  BY <1>1, <1>2, EmptyElements DEF Once
<1>6. NumberedIn(l, n)
  BY <1>1, <1>2 DEF NumberedIn
<1>7. Pending(l) = {NoRequest}
  BY <1>1, EmptyElements DEF Pending
<1>. QED BY <1>3, <1>4, <1>5, <1>6, <1>7 DEF FlightOf

\* A step that changes one connection and no setting.
LEMMA FlightFrame ==
    ASSUME \A d \in Links : FlightOf(link[d], budget.toggles), budget'.toggles = budget.toggles,
           NEW e \in Links, \A d \in Links \ {e} : link'[d] = link[d],
           FlightOf(link'[e], budget.toggles)
    PROVE  \A d \in Links : FlightOf(link'[d], budget'.toggles)
<1>. SUFFICES ASSUME NEW d \in Links PROVE FlightOf(link'[d], budget'.toggles)
  OBVIOUS
<1>1. CASE d = e
  BY <1>1
<1>2. CASE d # e
  <2>1. link'[d] = link[d] /\ FlightOf(link[d], budget.toggles)
    BY <1>2
  <2>. QED BY <2>1
<1>. QED BY <1>1, <1>2

\* A connection looks at a change: the setting it sends is a new one.
LEMMA FollowsFlight ==
    ASSUME LinkTypes, NEW e \in Links, FollowsGraphics(e), FlightOf(link[e], budget.toggles)
    PROVE  FlightOf(link'[e], budget.toggles)
<1> DEFINE l == link[e]
           m == link'[e]
           n == budget.toggles
<1>1. /\ l.stale /\ m.stale = FALSE /\ l.sending = NoRequest /\ Cardinality(l.inFlight) < MaxInFlight
      /\ m.sending \in {NoRequest, SetGraphics} /\ m.commands = l.commands
      /\ m.inFlight = l.inFlight /\ m.out = l.out /\ m.busy = l.busy /\ m.queue = l.queue
      /\ m.inbound = l.inbound
  BY FollowsGraphicsEffect
<1>2. /\ SetGraphics.kind = "graphics" /\ SetGraphics.id = n /\ n \in Nat
      /\ NoRequest.kind = "none" /\ SetGraphics # NoRequest
  BY DEF SetGraphics, NoRequest, LinkTypes
<1>3. InPlace(l) /\ New(l) /\ Once(l) /\ NumberedIn(l, n)
  BY DEF FlightOf
<1>4. l.inFlight \subseteq Request /\ Elements(l.commands) \subseteq Command
  BY LinkFields, ElementsParts
<1>5. \A c \in Command : c.kind # "graphics"
  BY DEF Command, TaskRequest
<1> HIDE DEF l, m, n
<1>6. InPlace(m)
  BY <1>1, <1>3 DEF InPlace, Busy
<1>7. \A r \in l.inFlight : r.kind = "graphics" => r.id \in Nat /\ r.id < n
  BY <1>1, <1>3, <1>4, Kinds DEF NumberedIn
<1>8. SetGraphics \notin l.inFlight
  BY <1>2, <1>7
<1>9. New(m)
  BY <1>1, <1>3, <1>8 DEF New
<1>10. Once(m)
  BY <1>1, <1>2, <1>3, <1>4, <1>5 DEF Once
<1>11. NumberedIn(m, n)
  BY <1>1, <1>2, <1>7 DEF NumberedIn
<1>. QED BY <1>6, <1>9, <1>10, <1>11 DEF FlightOf, m, n

\* A connection takes a command: nobody has asked that yet.
LEMMA TakesFlight ==
    ASSUME LinkTypes, NEW e \in Links, TakesCommand(e), FlightOf(link[e], budget.toggles)
    PROVE  /\ FlightOf(link'[e], budget.toggles)
           /\ Pending(link'[e]) \subseteq Pending(link[e])
<1> DEFINE l == link[e]
           m == link'[e]
           n == budget.toggles
           c == Head(l.commands)
<1>1. /\ m.stale = l.stale /\ l.sending = NoRequest /\ Cardinality(l.inFlight) < MaxInFlight
      /\ l.commands # <<>> /\ m.commands = Tail(l.commands)
      /\ m.sending = (IF c.kind = "watcher" THEN l.sending ELSE c)
      /\ m.inFlight = l.inFlight /\ m.out = l.out /\ m.busy = l.busy /\ m.queue = l.queue
      /\ m.inbound = l.inbound
  BY TakesCommandEffect
<1>2. l.commands \in Seq(Command)
  BY LinkFields
<1>3. /\ Len(l.commands) \in Nat /\ DOMAIN l.commands = 1 .. Len(l.commands)
      /\ 1 \in DOMAIN l.commands /\ c = l.commands[1] /\ c \in Command
      /\ DOMAIN m.commands = 1 .. Len(l.commands) - 1
      /\ \A i \in 1 .. Len(l.commands) - 1 : m.commands[i] = l.commands[i + 1]
  BY <1>1, <1>2, SeqParts
<1>4. Elements(l.commands) = Elements(m.commands) \cup {c} /\ Elements(l.commands) \subseteq Command
  BY <1>1, <1>2, ElementsParts
<1>5. InPlace(l) /\ New(l) /\ Once(l) /\ NumberedIn(l, n)
  BY DEF FlightOf
<1>6. (\A d \in Command : d.kind # "graphics" /\ d # NoRequest) /\ NoRequest.kind = "none"
  BY DEF Command, TaskRequest, NoRequest
<1> HIDE DEF l, m, n, c
<1>7. InPlace(m)
  BY <1>1, <1>5 DEF InPlace, Busy
<1>8. New(m)
  BY <1>1, <1>4, <1>5 DEF New, Once
<1>9. \A i \in DOMAIN m.commands :
         i + 1 \in DOMAIN l.commands /\ m.commands[i] = l.commands[i + 1] /\ i \in Nat /\ i # 0
  BY <1>3
<1>10. ASSUME NEW i \in DOMAIN m.commands, NEW j \in DOMAIN m.commands,
              m.commands[i] = m.commands[j], m.commands[i].kind # "watcher"
       PROVE  i = j
  <2>1. i + 1 = j + 1
    BY <1>5, <1>9, <1>10 DEF Once
  <2>. QED BY <1>9, <2>1
<1>11. ASSUME NEW r \in Elements(m.commands) PROVE r # m.sending /\ r \notin m.inFlight
  <2>1. PICK i \in DOMAIN m.commands : r = m.commands[i]
    BY <1>11 DEF Elements
  <2>2. r \in Command /\ r \notin l.inFlight
    BY <1>4, <1>5 DEF Once
  <2>3. ASSUME c.kind # "watcher", r = c PROVE FALSE
    <3>1. i + 1 = 1
      BY <1>3, <1>5, <1>9, <2>1, <2>3 DEF Once
    <3>. QED BY <1>9, <3>1
  <2>. QED BY <1>1, <1>6, <2>2, <2>3
<1>12. Once(m)
  BY <1>10, <1>11 DEF Once
<1>13. NumberedIn(m, n)
  BY <1>1, <1>3, <1>5, <1>6 DEF NumberedIn
<1>14. Pending(m) \subseteq Pending(l)
  BY <1>1, <1>4 DEF Pending
<1>. QED BY <1>7, <1>8, <1>12, <1>13, <1>14 DEF FlightOf, l, m, n

\* A request is sent: from then on it is in flight, on its way to the host.
LEMMA SentFlight ==
    ASSUME LinkTypes, NEW e \in Links, Sent(e), FlightOf(link[e], budget.toggles)
    PROVE  /\ FlightOf(link'[e], budget.toggles)
           /\ Pending(link'[e]) \subseteq Pending(link[e]) \cup {NoRequest}
<1> DEFINE l == link[e]
           m == link'[e]
           n == budget.toggles
           s == l.sending
<1>1. /\ m.stale = l.stale /\ s # NoRequest /\ m.commands = l.commands
      /\ m.out = Append(l.out, s) /\ m.inFlight = l.inFlight \cup {s} /\ m.sending = NoRequest
      /\ m.busy = l.busy /\ m.queue = l.queue /\ m.inbound = l.inbound
  BY SentEffect
<1>2. l.out \in Seq(Request) /\ s \in Request
  BY <1>1, LinkFields
<1>3. /\ Elements(m.out) = Elements(l.out) \cup {s}
      /\ Injective(l.out) /\ s \notin Elements(l.out) => Injective(m.out)
  BY <1>1, <1>2, ElementsParts
<1>4. Elements(l.commands) \subseteq Command
  BY LinkFields, ElementsParts
<1>5. InPlace(l) /\ New(l) /\ Once(l) /\ NumberedIn(l, n)
  BY DEF FlightOf
<1>6. (\A c \in Command : c # NoRequest) /\ NoRequest.kind = "none"
  BY DEF Command, TaskRequest, NoRequest
<1> HIDE DEF l, m, n, s
<1>7. s \notin l.inFlight /\ IsFiniteSet(l.inFlight)
  BY <1>1, <1>5 DEF New, s
<1>8. InPlace(m)
  <2>1. Busy(m) = Busy(l)
    BY <1>1 DEF Busy
  <2>2. Injective(m.out)
    BY <1>3, <1>5, <1>7 DEF InPlace
  <2>. QED BY <1>1, <1>3, <1>5, <1>7, <2>1, <2>2 DEF InPlace
<1>9. New(m)
  BY <1>1, <1>7, FS_AddElement DEF New
<1>10. Once(m)
  BY <1>1, <1>4, <1>5, <1>6 DEF Once, s
<1>11. NumberedIn(m, n)
  BY <1>1, <1>5, <1>6 DEF NumberedIn, s
<1>12. Pending(m) \subseteq Pending(l) \cup {NoRequest}
  BY <1>1 DEF Pending, s
<1>. QED BY <1>8, <1>9, <1>10, <1>11, <1>12 DEF FlightOf, l, m, n

\* A connection whose requests, asked and in flight, stay the same while they
\* move on.
LEMMA MovesOn ==
    ASSUME NEW l, NEW m, NEW n, FlightOf(l, n), m.commands = l.commands, m.sending = l.sending,
           m.inFlight = l.inFlight, m.stale = l.stale, InPlace(m)
    PROVE  FlightOf(m, n) /\ Pending(m) = Pending(l)
<1>1. New(l) /\ Once(l) /\ NumberedIn(l, n)
  BY DEF FlightOf
<1>2. New(m) /\ Once(m)
  BY <1>1 DEF New, Once
<1>3. NumberedIn(m, n)
  BY <1>1 DEF NumberedIn
<1>. QED BY <1>2, <1>3 DEF FlightOf, Pending

\* The host takes a request.
LEMMA HostTakesFlight ==
    ASSUME LinkTypes, NEW e \in Links, HostTakes(e), FlightOf(link[e], budget.toggles)
    PROVE  FlightOf(link'[e], budget.toggles) /\ Pending(link'[e]) = Pending(link[e])
<1> DEFINE l == link[e]
           m == link'[e]
           r == Head(l.out)
<1>1. /\ m.stale = l.stale /\ m.commands = l.commands /\ m.sending = l.sending
      /\ m.out = Tail(l.out) /\ l.out # <<>> /\ m.inFlight = l.inFlight
      /\ l.busy = NoRequest /\ m.busy = Response(r) /\ m.queue = l.queue /\ m.inbound = l.inbound
  BY HostTakesEffect
<1>2. l.out \in Seq(Request) /\ r \in Request
  BY <1>1, LinkFields, SeqParts
<1>3. Response(r) # NoRequest /\ Response(r).request = r
  <2>1. Response(r) # NoRequest
    BY <1>2, ResponseType, EnvelopeKinds
  <2>. QED BY <2>1 DEF Response
<1>4. /\ Elements(l.out) = Elements(m.out) \cup {r}
      /\ Injective(l.out) => Injective(m.out) /\ r \notin Elements(m.out)
  BY <1>1, <1>2, ElementsParts
<1>5. InPlace(l)
  BY DEF FlightOf
<1> HIDE DEF l, m, r
<1>6. Busy(l) = {} /\ Busy(m) = {r}
  BY <1>1, <1>3 DEF Busy
<1>7. InPlace(m)
  BY <1>1, <1>4, <1>5, <1>6 DEF InPlace
<1>. QED BY <1>1, <1>7, MovesOn DEF l, m

\* The host queues an answer.
LEMMA HostAnswersFlight ==
    ASSUME LinkTypes, NEW e \in Links, HostAnswers(e), FlightOf(link[e], budget.toggles)
    PROVE  FlightOf(link'[e], budget.toggles) /\ Pending(link'[e]) = Pending(link[e])
<1> DEFINE l == link[e]
           m == link'[e]
           b == l.busy
<1>1. /\ m.stale = l.stale /\ m.commands = l.commands /\ m.sending = l.sending
      /\ m.out = l.out /\ m.inFlight = l.inFlight
      /\ b # NoRequest /\ m.busy = NoRequest /\ m.queue = Append(l.queue, b)
      /\ m.inbound = l.inbound
  BY HostAnswersEffect
<1>2. l.queue \in Seq(Envelope) /\ b \in Envelope /\ b.kind # "event"
  BY <1>1, LinkFields, EnvelopeKinds
<1>3. /\ Answers(m.queue) = Answers(l.queue) \cup Answering(b)
      /\ AnswerOnce(l.queue) /\ Answering(b) \cap Answers(l.queue) = {} => AnswerOnce(m.queue)
  BY <1>1, <1>2, AnswersParts
<1>4. InPlace(l)
  BY DEF FlightOf
<1>5. Busy(l) = Answering(b) /\ Busy(m) = {}
  BY <1>1, <1>2 DEF Busy, Answering
<1> HIDE DEF l, m, b
<1>6. InPlace(m)
  BY <1>1, <1>3, <1>4, <1>5 DEF InPlace
<1>. QED BY <1>1, <1>6, MovesOn DEF l, m

\* The host writes what it has queued.
LEMMA HostWritesFlight ==
    ASSUME LinkTypes, NEW e \in Links, HostWrites(e), FlightOf(link[e], budget.toggles)
    PROVE  FlightOf(link'[e], budget.toggles) /\ Pending(link'[e]) = Pending(link[e])
<1> DEFINE l == link[e]
           m == link'[e]
           v == Head(l.queue)
<1>1. /\ m.stale = l.stale /\ m.commands = l.commands /\ m.sending = l.sending
      /\ m.out = l.out /\ m.inFlight = l.inFlight /\ m.busy = l.busy
      /\ l.queue # <<>> /\ m.queue = Tail(l.queue) /\ m.inbound = Append(l.inbound, v)
  BY HostWritesEffect
<1>2. l.queue \in Seq(Envelope) /\ l.inbound \in Seq(Envelope) /\ v \in Envelope
  BY <1>1, LinkFields, SeqParts
<1>3. /\ Answers(l.queue) = Answers(m.queue) \cup Answering(v)
      /\ AnswerOnce(l.queue) => AnswerOnce(m.queue) /\ Answering(v) \cap Answers(m.queue) = {}
  BY <1>1, <1>2, AnswersParts
<1>4. /\ Answers(m.inbound) = Answers(l.inbound) \cup Answering(v)
      /\ AnswerOnce(l.inbound) /\ Answering(v) \cap Answers(l.inbound) = {} => AnswerOnce(m.inbound)
  BY <1>1, <1>2, AnswersParts
<1>5. InPlace(l) /\ Busy(m) = Busy(l)
  BY <1>1 DEF FlightOf, Busy
<1> HIDE DEF l, m, v
<1>6. InPlace(m)
  BY <1>1, <1>3, <1>4, <1>5 DEF InPlace
<1>. QED BY <1>1, <1>6, MovesOn DEF l, m

\* A buffer's report is queued, or a subscription ends.
LEMMA HostReportsFlight ==
    ASSUME LinkTypes, NEW t \in Task, HostReports(t), NEW e \in Links,
           FlightOf(link[e], budget.toggles)
    PROVE  FlightOf(link'[e], budget.toggles) /\ Pending(link'[e]) = Pending(link[e])
<1> DEFINE l == link[e]
           m == link'[e]
<1>1. /\ m.stale = l.stale /\ m.commands = l.commands /\ m.sending = l.sending
      /\ m.out = l.out /\ m.inFlight = l.inFlight /\ m.busy = l.busy /\ m.inbound = l.inbound
      /\ m.queue = l.queue \/ m.queue = Append(l.queue, Event(t))
  BY HostReportsEffect
<1>2. l.queue \in Seq(Envelope) /\ Event(t) \in Envelope /\ Event(t).kind = "event"
  BY LinkFields, Kinds
<1>3. Answers(m.queue) = Answers(l.queue) /\ (AnswerOnce(l.queue) => AnswerOnce(m.queue))
  <2>1. Answering(Event(t)) = {}
    BY <1>2 DEF Answering
  <2> DEFINE a == Append(l.queue, Event(t))
  <2>2. /\ Answers(a) = Answers(l.queue) \cup Answering(Event(t))
        /\ AnswerOnce(l.queue) /\ Answering(Event(t)) \cap Answers(l.queue) = {} => AnswerOnce(a)
    BY <1>2, AnswersParts
  <2> HIDE DEF a
  <2>. QED BY <1>1, <2>1, <2>2 DEF a
<1>4. InPlace(l) /\ Busy(m) = Busy(l)
  BY <1>1 DEF FlightOf, Busy
<1> HIDE DEF l, m
<1>5. InPlace(m)
  BY <1>1, <1>3, <1>4 DEF InPlace
<1>. QED BY <1>1, <1>5, MovesOn DEF l, m

\* An answer is received: its request is in flight no more, and nowhere else.
LEMMA ReceivesFlight ==
    ASSUME LinkTypes, NEW e \in Links, Receives(e), FlightOf(link[e], budget.toggles)
    PROVE  /\ FlightOf(link'[e], budget.toggles)
           /\ Pending(link'[e]) = Pending(link[e]) \ Answering(Head(link[e].inbound))
           /\ Answering(Head(link[e].inbound)) \subseteq Pending(link[e])
<1> DEFINE l == link[e]
           m == link'[e]
           n == budget.toggles
           v == Head(l.inbound)
<1>1. /\ m.stale = l.stale /\ m.commands = l.commands /\ m.sending = l.sending
      /\ l.sending = NoRequest /\ m.out = l.out /\ m.busy = l.busy /\ m.queue = l.queue
      /\ l.inbound # <<>> /\ m.inbound = Tail(l.inbound)
      /\ m.inFlight = l.inFlight \ {r \in l.inFlight : v.kind # "event" /\ r = v.request}
  BY ReceivesEffect
<1>2. l.inbound \in Seq(Envelope) /\ v \in Envelope /\ l.inFlight \subseteq Request
  BY <1>1, LinkFields, SeqParts
<1>3. /\ Answers(l.inbound) = Answers(m.inbound) \cup Answering(v)
      /\ AnswerOnce(l.inbound) => AnswerOnce(m.inbound) /\ Answering(v) \cap Answers(m.inbound) = {}
  BY <1>1, <1>2, AnswersParts
<1>4. m.inFlight = l.inFlight \ Answering(v)
  BY <1>1 DEF Answering
<1>5. InPlace(l) /\ New(l) /\ Once(l) /\ NumberedIn(l, n) /\ Busy(m) = Busy(l)
  BY <1>1 DEF FlightOf, Busy
<1>6. NoRequest \notin Request
  BY Kinds
<1> HIDE DEF l, m, n, v
<1>7. Answering(v) \subseteq l.inFlight
  BY <1>3, <1>5 DEF InPlace
<1>8. InPlace(m)
  BY <1>1, <1>3, <1>4, <1>5 DEF InPlace
<1>9. New(m)
  <2>1. IsFiniteSet(m.inFlight)
    BY <1>4, <1>5, FS_Subset DEF New
  <2>. QED BY <1>1, <2>1 DEF New
<1>10. Once(m)
  BY <1>1, <1>4, <1>5 DEF Once
<1>11. NumberedIn(m, n)
  BY <1>1, <1>4, <1>5 DEF NumberedIn
<1>12. Pending(m) = Pending(l) \ Answering(v)
  BY <1>1, <1>2, <1>4, <1>5, <1>6, <1>7 DEF Pending, Once
<1>13. Answering(v) \subseteq Pending(l)
  BY <1>7 DEF Pending
<1>. QED BY <1>8, <1>9, <1>10, <1>11, <1>12, <1>13 DEF FlightOf, l, m, n, v

\* A task puts a command into the channel that is not there, nor asked already.
LEMMA SendsFlight ==
    ASSUME LinkTypes, NEW t \in Task, NEW c \in Command, NEW then \in Stages, Sends(t, c, then),
           FlightOf(link[task[t].link], budget.toggles),
           c.kind # "watcher" => c \notin Pending(link[task[t].link])
    PROVE  /\ FlightOf(link'[task[t].link], budget.toggles)
           /\ Pending(link'[task[t].link]) = Pending(link[task[t].link]) \cup {c}
<1> DEFINE e == task[t].link
           l == link[e]
           m == link'[e]
           n == budget.toggles
<1>1. /\ e \in Links /\ m.stale = l.stale /\ m.commands = Append(l.commands, c)
      /\ m.sending = l.sending /\ m.inFlight = l.inFlight
      /\ m.out = l.out /\ m.busy = l.busy /\ m.inbound = l.inbound /\ m.queue = l.queue
  BY SendsEffect
<1>2. /\ l.commands \in Seq(Command) /\ l.inFlight \subseteq Request
      /\ l.sending \in Request \cup {NoRequest}
  BY <1>1, LinkFields
<1>3. Elements(m.commands) = Elements(l.commands) \cup {c} /\ Elements(l.commands) \subseteq Command
  BY <1>1, <1>2, ElementsParts
<1>4. InPlace(l) /\ New(l) /\ Once(l) /\ NumberedIn(l, n)
  BY DEF FlightOf
<1>5. c \notin {l.sending} \cup l.inFlight
  <2>1. CASE c.kind = "watcher"
    BY <1>2, <2>1, Kinds
  <2>2. CASE c.kind # "watcher"
    BY <2>2 DEF Pending
  <2>. QED BY <2>1, <2>2
<1>6. c.kind # "watcher" => c \notin Elements(l.commands)
  BY DEF Pending
<1> HIDE DEF l, m, n, e
<1>7. /\ Len(l.commands) \in Nat /\ DOMAIN l.commands = 1 .. Len(l.commands)
      /\ DOMAIN m.commands = 1 .. Len(l.commands) + 1
      /\ m.commands[Len(l.commands) + 1] = c
      /\ \A i \in 1 .. Len(l.commands) : m.commands[i] = l.commands[i]
  BY <1>1, <1>2, SeqParts
<1>8. InPlace(m)
  BY <1>1, <1>4 DEF InPlace, Busy
<1>9. New(m)
  BY <1>1, <1>4 DEF New
<1>10. Once(m)
  <2>1. DOMAIN m.commands = DOMAIN l.commands \cup {Len(l.commands) + 1}
    BY <1>7
  <2>2. \A i \in DOMAIN l.commands : m.commands[i] = l.commands[i] /\ l.commands[i] \in Elements(l.commands)
    BY <1>7 DEF Elements
  <2>3. ASSUME NEW i \in DOMAIN m.commands, NEW j \in DOMAIN m.commands,
               m.commands[i] = m.commands[j], m.commands[i].kind # "watcher"
        PROVE  i = j
    BY <1>7, <1>4, <1>6, <2>1, <2>2, <2>3 DEF Once
  <2>4. \A r \in Elements(m.commands) : r # m.sending /\ r \notin m.inFlight
    BY <1>1, <1>3, <1>4, <1>5 DEF Once
  <2>. QED BY <2>3, <2>4 DEF Once
<1>11. NumberedIn(m, n)
  BY <1>1, <1>4 DEF NumberedIn
<1>12. Pending(m) = Pending(l) \cup {c}
  BY <1>1, <1>3 DEF Pending
<1>. QED BY <1>8, <1>9, <1>10, <1>11, <1>12 DEF FlightOf, l, m, n, e

\* A change of host graphics: settings on their way are older.
LEMMA TogglesFlight ==
    ASSUME LinkTypes, Toggles, NEW e \in Links, FlightOf(link[e], budget.toggles)
    PROVE  FlightOf(link'[e], budget'.toggles) /\ Pending(link'[e]) = Pending(link[e])
<1> DEFINE l == link[e]
           m == link'[e]
           n == budget.toggles
<1>1. /\ m.stale = l.up /\ m.commands = l.commands /\ m.sending = l.sending
      /\ m.out = l.out /\ m.inFlight = l.inFlight /\ m.busy = l.busy /\ m.inbound = l.inbound
      /\ m.queue = l.queue
  BY TogglesEffect
<1>2. n \in Nat /\ budget'.toggles = n + 1
  BY DEF Toggles, LinkTypes
<1>3. l.inFlight \subseteq Request /\ l.sending \in Request \cup {NoRequest}
  BY LinkFields
<1>4. InPlace(l) /\ New(l) /\ Once(l) /\ NumberedIn(l, n)
  BY DEF FlightOf
<1> HIDE DEF l, m, n
<1>5. InPlace(m) /\ New(m) /\ Once(m)
  BY <1>1, <1>4 DEF InPlace, Busy, New, Once
<1>6. NumberedIn(m, n + 1)
  <2> SUFFICES ASSUME NEW r \in m.inFlight \cup {m.sending}, r.kind = "graphics"
               PROVE  r.id <= n + 1 /\ r.id < n + 1
    BY DEF NumberedIn
  <2>1. r \in Request /\ r.id <= n
    BY <1>1, <1>3, <1>4, Kinds DEF NumberedIn
  <2>2. r.id \in Nat
    BY <2>1, Kinds
  <2>. QED BY <1>2, <2>1, <2>2
<1>7. Pending(m) = Pending(l)
  BY <1>1 DEF Pending
<1>. QED BY <1>2, <1>5, <1>6, <1>7 DEF FlightOf, l, m, n

\* Nothing a task asks comes up that it did not ask, and a task that waits goes on
\* waiting or has its answer.
LEMMA WaitedKept ==
    ASSUME WaitedFor,
           \A d \in Links : \A r \in TaskRequest : r \in Pending(link'[d]) => r \in Pending(link[d]),
           \A t \in Task :
              \/ task'[t].stage = task[t].stage /\ task'[t].link = task[t].link
              \/ task[t].stage \notin {"reading", "asked"}
              \/ \A d \in Links : Get(t) \notin Pending(link'[d]) /\ WatchRequest(t) \notin Pending(link'[d])
    PROVE  WaitedFor'
<1>1. ASSUME NEW d \in Links, NEW t \in Task
      PROVE  /\ Get(t) \in Pending(link'[d]) => task'[t].stage = "reading" /\ task'[t].link = d
             /\ WatchRequest(t) \in Pending(link'[d]) => task'[t].stage = "asked" /\ task'[t].link = d
  <2>1. Get(t) \in TaskRequest /\ WatchRequest(t) \in TaskRequest
    BY Kinds
  <2>2. /\ Get(t) \in Pending(link[d]) => task[t].stage = "reading" /\ task[t].link = d
        /\ WatchRequest(t) \in Pending(link[d]) => task[t].stage = "asked" /\ task[t].link = d
    BY DEF WaitedFor
  <2>. QED BY <2>1, <2>2
<1>. QED BY <1>1 DEF WaitedFor, Pending, Elements, Get, WatchRequest

\* The requests of each connection, and who waits for them.
LEMMA FlightParts == FlightInv <=> (\A e \in Links : FlightOf(link[e], budget.toggles)) /\ WaitedFor
  BY DEF FlightInv, FlightOf, InOnePlace, SendsNew, AskedOnce, Numbered

\* The same after a step.
LEMMA FlightPartsNext ==
    ASSUME \A e \in Links : FlightOf(link'[e], budget'.toggles), WaitedFor'
    PROVE  FlightInv'
  BY DEF FlightInv, FlightOf, InOnePlace, SendsNew, AskedOnce, Numbered, InPlace, New, Once,
         NumberedIn, Busy

\* Every step keeps each request in one place and waited for.
LEMMA FlightStep == LinkTypes /\ SettingInv /\ FlightInv /\ [Next]_vars => FlightInv'
<1> SUFFICES ASSUME LinkTypes, SettingInv, FlightInv, [Next]_vars PROVE FlightInv'
  OBVIOUS
<1>0. /\ \A e \in Links : FlightOf(link[e], budget.toggles)
      /\ WaitedFor /\ NoRequest \notin TaskRequest /\ budget.toggles \in Nat
  BY FlightParts, Kinds DEF LinkTypes
<1>1. ASSUME NEW e \in Links, UNCHANGED <<task, budget>>, \A d \in Links \ {e} : link'[d] = link[d],
             FlightOf(link'[e], budget.toggles),
             \A r \in TaskRequest : r \in Pending(link'[e]) => r \in Pending(link[e])
      PROVE FlightInv'
  <2>1. \A d \in Links : FlightOf(link'[d], budget'.toggles)
    BY <1>0, <1>1, FlightFrame
  <2>2. \A d \in Links : \A r \in TaskRequest : r \in Pending(link'[d]) => r \in Pending(link[d])
    <3> SUFFICES ASSUME NEW d \in Links, NEW r \in TaskRequest, r \in Pending(link'[d])
                 PROVE  r \in Pending(link[d])
      OBVIOUS
    <3>1. CASE d = e
      BY <1>1, <3>1
    <3>2. CASE d # e
      BY <1>1, <3>2
    <3>. QED BY <3>1, <3>2
  <2>3. WaitedFor'
    BY <1>0, <1>1, <2>2, WaitedKept
  <2>. QED BY <2>1, <2>3, FlightPartsNext
<1>2. ASSUME NEW e \in Links, FollowsGraphics(e) PROVE FlightInv'
  <2>1. /\ UNCHANGED <<task, budget>> /\ \A d \in Links \ {e} : link'[d] = link[d]
        /\ link'[e].commands = link[e].commands /\ link'[e].inFlight = link[e].inFlight
        /\ link'[e].sending \in {link[e].sending, SetGraphics}
    BY <1>2, FollowsGraphicsEffect DEF FollowsGraphics
  <2>2. SetGraphics \notin TaskRequest
    BY DEF SetGraphics, TaskRequest
  <2>3. \A r \in TaskRequest : r \in Pending(link'[e]) => r \in Pending(link[e])
    BY <2>1, <2>2 DEF Pending
  <2>4. FlightOf(link'[e], budget.toggles)
    BY <1>0, <1>2, FollowsFlight
  <2>. QED BY <1>1, <2>1, <2>3, <2>4
<1>3. ASSUME NEW e \in Links, TakesCommand(e) PROVE FlightInv'
  <2>1. UNCHANGED <<task, budget>> /\ \A d \in Links \ {e} : link'[d] = link[d]
    BY <1>3, TakesCommandEffect DEF TakesCommand
  <2>2. FlightOf(link'[e], budget.toggles) /\ Pending(link'[e]) \subseteq Pending(link[e])
    BY <1>0, <1>3, TakesFlight
  <2>. QED BY <1>1, <2>1, <2>2
<1>4. ASSUME NEW e \in Links, Sent(e) PROVE FlightInv'
  <2>1. UNCHANGED <<task, budget>> /\ \A d \in Links \ {e} : link'[d] = link[d]
    BY <1>4, SentEffect DEF Sent
  <2>2. /\ FlightOf(link'[e], budget.toggles)
        /\ Pending(link'[e]) \subseteq Pending(link[e]) \cup {NoRequest}
    BY <1>0, <1>4, SentFlight
  <2>. QED BY <1>0, <1>1, <2>1, <2>2
<1>5. ASSUME NEW e \in Links, HostTakes(e) PROVE FlightInv'
  <2>1. UNCHANGED <<task, budget>> /\ \A d \in Links \ {e} : link'[d] = link[d]
    BY <1>5, HostTakesEffect DEF HostTakes
  <2>2. FlightOf(link'[e], budget.toggles) /\ Pending(link'[e]) = Pending(link[e])
    BY <1>0, <1>5, HostTakesFlight
  <2>. QED BY <1>1, <2>1, <2>2
<1>6. ASSUME NEW e \in Links, HostAnswers(e) PROVE FlightInv'
  <2>1. UNCHANGED <<task, budget>> /\ \A d \in Links \ {e} : link'[d] = link[d]
    BY <1>6, HostAnswersEffect DEF HostAnswers
  <2>2. FlightOf(link'[e], budget.toggles) /\ Pending(link'[e]) = Pending(link[e])
    BY <1>0, <1>6, HostAnswersFlight
  <2>. QED BY <1>1, <2>1, <2>2
<1>7. ASSUME NEW e \in Links, HostWrites(e) PROVE FlightInv'
  <2>1. UNCHANGED <<task, budget>> /\ \A d \in Links \ {e} : link'[d] = link[d]
    BY <1>7, HostWritesEffect DEF HostWrites
  <2>2. FlightOf(link'[e], budget.toggles) /\ Pending(link'[e]) = Pending(link[e])
    BY <1>0, <1>7, HostWritesFlight
  <2>. QED BY <1>1, <2>1, <2>2
<1>8. ASSUME NEW e \in Links, Fails(e) PROVE FlightInv'
  <2>1. /\ UNCHANGED <<task, budget>> /\ \A d \in Links \ {e} : link'[d] = link[d]
        /\ link'[e] = Closed
    BY <1>8, ReplacedEffect DEF Fails
  <2>2. FlightOf(Closed, budget.toggles) /\ Pending(Closed) = {NoRequest}
    BY <1>0, EmptyFlight
  <2>. QED BY <1>0, <1>1, <2>1, <2>2
<1>9. ASSUME NEW e \in Links, Receives(e) PROVE FlightInv'
  <2> DEFINE v == Head(link[e].inbound)
  <2>1. UNCHANGED budget /\ \A d \in Links \ {e} : link'[d] = link[d]
    BY <1>9, ReceivesEffect DEF Receives
  <2>2. /\ FlightOf(link'[e], budget.toggles)
        /\ Pending(link'[e]) = Pending(link[e]) \ Answering(v)
        /\ Answering(v) \subseteq Pending(link[e])
    BY <1>0, <1>9, ReceivesFlight
  <2>3. \A d \in Links : FlightOf(link'[d], budget'.toggles)
    BY <1>0, <2>1, <2>2, FlightFrame
  <2>4. \A d \in Links : Pending(link'[d]) \subseteq Pending(link[d])
    <3> SUFFICES ASSUME NEW d \in Links PROVE Pending(link'[d]) \subseteq Pending(link[d])
      OBVIOUS
    <3>1. CASE d = e
      BY <2>2, <3>1
    <3>2. CASE d # e
      BY <2>1, <3>2
    <3>. QED BY <3>1, <3>2
  <2>5. v \in Envelope
    BY <1>9, ReceivesTasks
  <2>6. /\ v.kind \in {"event", "get", "watch", "graphics"}
        /\ v.kind \in {"get", "watch"} => /\ v.request \in TaskRequest /\ v.request.kind = v.kind
                                          /\ v.request.task \in Task
        /\ v.kind # "event" => Answering(v) = {v.request}
    BY <2>5, EnvelopeKinds, Kinds DEF Answering
  <2>7. \A t \in Task :
          /\ task'[t].link = task[t].link
          /\ \/ task'[t].stage = task[t].stage
             \/ v.kind \in {"get", "watch"} /\ t = v.request.task
    BY <1>9, <2>6, ReceivesTasks
  <2>8. ASSUME NEW t \in Task, v.kind \in {"get", "watch"}, t = v.request.task, NEW d \in Links
        PROVE  Get(t) \notin Pending(link'[d]) /\ WatchRequest(t) \notin Pending(link'[d])
    <3>1. v.request \in Pending(link[e]) /\ v.request \notin Pending(link'[e])
      BY <2>2, <2>6, <2>8
    <3>2. /\ v.kind = "get" => v.request = Get(t)
          /\ v.kind = "watch" => v.request = WatchRequest(t)
      <4>1. v.request = Get(t) \/ v.request = WatchRequest(t)
        BY <2>6, <2>8, Kinds
      <4>. QED BY <2>6, <2>8, <4>1, Kinds
    <3>3. \A b \in Links :
             /\ Get(t) \in Pending(link[b]) => task[t].stage = "reading" /\ task[t].link = b
             /\ WatchRequest(t) \in Pending(link[b]) => task[t].stage = "asked" /\ task[t].link = b
      BY <1>0 DEF WaitedFor
    <3>4. CASE v.kind = "get"
      <4>1. task[t].stage = "reading" /\ task[t].link = e
        BY <3>1, <3>2, <3>3, <3>4
      <4>. QED BY <2>4, <3>1, <3>2, <3>3, <3>4, <4>1
    <3>5. CASE v.kind = "watch"
      <4>1. task[t].stage = "asked" /\ task[t].link = e
        BY <3>1, <3>2, <3>3, <3>5
      <4>. QED BY <2>4, <3>1, <3>2, <3>3, <3>5, <4>1
    <3>. QED BY <2>8, <3>4, <3>5
  <2>9. WaitedFor'
    <3> HIDE DEF v
    <3>1. \A t \in Task :
              \/ task'[t].stage = task[t].stage /\ task'[t].link = task[t].link
              \/ \A d \in Links : Get(t) \notin Pending(link'[d]) /\ WatchRequest(t) \notin Pending(link'[d])
      BY <2>7, <2>8
    <3>. QED BY <1>0, <2>4, <3>1, WaitedKept
  <2>. QED BY <2>3, <2>9, FlightPartsNext
<1>10. ASSUME NEW t \in Task, NEW c \in Command, NEW then \in Stages, Sends(t, c, then),
              \/ c = Watcher(t) /\ task[t].stage = "watch" /\ then = "ask"
              \/ c = WatchRequest(t) /\ task[t].stage = "ask" /\ then = "asked"
              \/ c = Get(t) /\ task[t].stage = "read" /\ then = "reading"
       PROVE FlightInv'
  <2> DEFINE e == task[t].link
  <2>1. /\ e \in Links /\ \A d \in Links \ {e} : link'[d] = link[d]
        /\ task' = [task EXCEPT ![t] = [task[t] EXCEPT !.stage = then]]
    BY <1>10, SendsEffect
  <2>2. UNCHANGED budget
    BY <1>10 DEF Sends
  <2>3. /\ \A u \in Task \ {t} : task'[u] = task[u]
        /\ task'[t].stage = then /\ task'[t].link = e
    BY <2>1 DEF LinkTypes, TaskRecord
  <2>4. \A d \in Links : Get(t) \notin Pending(link[d]) /\ WatchRequest(t) \notin Pending(link[d])
    BY <1>0, <1>10 DEF WaitedFor
  <2>5. c.kind # "watcher" => c \notin Pending(link[e])
    BY <1>10, <2>1, <2>4, Kinds
  <2>6. FlightOf(link[e], budget.toggles)
    BY <1>0, <2>1
  <2>7. /\ FlightOf(link'[e], budget.toggles)
        /\ Pending(link'[e]) = Pending(link[e]) \cup {c}
    BY <1>10, <2>5, <2>6, SendsFlight
  <2> HIDE DEF e
  <2>8. \A d \in Links : FlightOf(link'[d], budget'.toggles)
    BY <1>0, <2>1, <2>2, <2>7, FlightFrame
  <2>9. \A d \in Links : \A r \in Pending(link'[d]) : r \in Pending(link[d]) \/ (d = e /\ r = c)
    <3> SUFFICES ASSUME NEW d \in Links, NEW r \in Pending(link'[d])
                 PROVE  r \in Pending(link[d]) \/ (d = e /\ r = c)
      OBVIOUS
    <3>1. CASE d = e
      BY <2>7, <3>1
    <3>2. CASE d # e
      BY <2>1, <3>2
    <3>. QED BY <3>1, <3>2
  <2>10. ASSUME NEW d \in Links, NEW u \in Task
         PROVE  /\ Get(u) \in Pending(link'[d]) => task'[u].stage = "reading" /\ task'[u].link = d
                /\ WatchRequest(u) \in Pending(link'[d]) => task'[u].stage = "asked" /\ task'[u].link = d
    <3>1. /\ Get(u) \in Pending(link[d]) => task[u].stage = "reading" /\ task[u].link = d
          /\ WatchRequest(u) \in Pending(link[d]) => task[u].stage = "asked" /\ task[u].link = d
      BY <1>0 DEF WaitedFor
    <3>2. CASE u # t
      <4>1. c # Get(u) /\ c # WatchRequest(u)
        BY <1>10, <3>2, Kinds
      <4>. QED BY <2>3, <2>9, <3>1, <3>2, <4>1
    <3>3. CASE u = t
      <4>1. /\ Get(t) \in Pending(link'[d]) => d = e /\ c = Get(t)
            /\ WatchRequest(t) \in Pending(link'[d]) => d = e /\ c = WatchRequest(t)
        BY <2>4, <2>9
      <4>2. /\ c = Get(t) => then = "reading"
            /\ c = WatchRequest(t) => then = "asked"
        BY <1>10, Kinds
      <4>. QED BY <2>3, <3>3, <4>1, <4>2
    <3>. QED BY <3>2, <3>3
  <2>11. WaitedFor'
    BY <2>10 DEF WaitedFor, Pending, Elements, Get, WatchRequest
  <2>. QED BY <2>8, <2>11, FlightPartsNext
<1>11. ASSUME NEW t \in Task, Watches(t) \/ Reads(t) PROVE FlightInv'
  BY <1>10, <1>11, Kinds DEF Watches, Reads, Stages
<1>12. ASSUME NEW t \in Task, Makes(t) PROVE FlightInv'
  <2>1. made + 1 \in Links
    BY <1>12, RoomAssumption DEF Makes, LinkTypes, Links
  <2> DEFINE e == made + 1
  <2>2. /\ link'[e] = Fresh /\ \A d \in Links \ {e} : link'[d] = link[d]
        /\ UNCHANGED budget /\ task[t].stage = "making"
    BY <1>12, <2>1, ReplacedEffect DEF Makes
  <2>3. \A u \in Task \ {t} : task'[u] = task[u]
    BY <1>12, ConnectingEffect DEF Connecting
  <2>4. FlightOf(Fresh, budget.toggles) /\ Pending(Fresh) = {NoRequest}
    BY <1>0, EmptyFlight
  <2> HIDE DEF e
  <2>5. \A d \in Links : FlightOf(link'[d], budget'.toggles)
    BY <1>0, <2>1, <2>2, <2>4, FlightFrame DEF e
  <2>6. \A d \in Links : \A r \in TaskRequest : r \in Pending(link'[d]) => r \in Pending(link[d])
    <3> SUFFICES ASSUME NEW d \in Links, NEW r \in TaskRequest, r \in Pending(link'[d])
                 PROVE  r \in Pending(link[d])
      OBVIOUS
    <3>1. d # e
      BY <1>0, <2>2, <2>4
    <3>. QED BY <2>2, <3>1
  <2>7. WaitedFor'
    BY <1>0, <2>2, <2>3, <2>6, WaitedKept
  <2>. QED BY <2>5, <2>7, FlightPartsNext
<1>13. ASSUME Toggles PROVE FlightInv'
  <2>1. \A d \in Links : FlightOf(link'[d], budget'.toggles) /\ Pending(link'[d]) = Pending(link[d])
    BY <1>0, <1>13, TogglesFlight
  <2>2. UNCHANGED task
    BY <1>13 DEF Toggles
  <2>3. WaitedFor'
    BY <1>0, <2>1, <2>2, WaitedKept
  <2>. QED BY <2>1, <2>3, FlightPartsNext
<1>14. ASSUME NEW t \in Task, HostReports(t) PROVE FlightInv'
  <2>1. UNCHANGED task /\ budget'.toggles = budget.toggles
    BY <1>14 DEF HostReports, LinkTypes
  <2>2. \A d \in Links : FlightOf(link'[d], budget'.toggles) /\ Pending(link'[d]) = Pending(link[d])
    BY <1>0, <1>14, <2>1, HostReportsFlight
  <2>3. WaitedFor'
    BY <1>0, <2>1, <2>2, WaitedKept
  <2>. QED BY <2>2, <2>3, FlightPartsNext
<1>15. ASSUME UNCHANGED link, budget'.toggles = budget.toggles,
              \A t \in Task :
                 \/ task'[t].stage = task[t].stage /\ task'[t].link = task[t].link
                 \/ task[t].stage \notin {"reading", "asked"}
                 \/ ~ IsOpen(task[t].link)
       PROVE FlightInv'
  <2>1. \A d \in Links : FlightOf(link'[d], budget'.toggles) /\ Pending(link'[d]) = Pending(link[d])
    BY <1>0, <1>15
  <2>2. ASSUME NEW t \in Task, ~ IsOpen(task[t].link), NEW d \in Links
        PROVE  Get(t) \notin Pending(link'[d]) /\ WatchRequest(t) \notin Pending(link'[d])
    <3>1. CASE task[t].link # d
      BY <1>0, <2>1, <3>1 DEF WaitedFor
    <3>2. CASE task[t].link = d
      <4>1. d # 0
        BY RoomAssumption DEF Links
      <4>2. link[d] = Closed
        BY <2>2, <3>2, <4>1 DEF IsOpen, SettingInv, DownIsClosed
      <4>3. Pending(link[d]) = {NoRequest}
        BY <1>0, <4>2, EmptyFlight
      <4>. QED BY <1>0, <2>1, <4>3, Kinds
    <3>. QED BY <3>1, <3>2
  <2>3. WaitedFor'
    BY <1>0, <1>15, <2>1, <2>2, WaitedKept
  <2>. QED BY <2>1, <2>3, FlightPartsNext
<1>16. ASSUME NEW t \in Task,
              Looks(t) \/ Clones(t) \/ Locks(t) \/ CleansUp(t) \/ Leaves(t) \/ GivesUp(t)
                \/ TakesReport(t) \/ NoticesLoss(t)
       PROVE FlightInv'
  <2>1. UNCHANGED link
    BY <1>16 DEF Looks, Clones, Locks, CleansUp, Leaves, GivesUp, TakesReport, NoticesLoss
  <2>2. budget'.toggles = budget.toggles
    <3>1. CASE GivesUp(t)
      BY <3>1 DEF GivesUp, LinkTypes
    <3>2. CASE UNCHANGED budget
      BY <3>2
    <3>. QED BY <1>16, <3>1, <3>2 DEF Looks, Clones, Locks, CleansUp, Leaves, TakesReport, NoticesLoss
  <2>3. \A u \in Task \ {t} : task'[u] = task[u]
    BY <1>16, ConnectingEffect DEF Connecting
  <2>4. task[t].stage \notin {"reading", "asked"} \/ ~ IsOpen(task[t].link)
    BY <1>16 DEF Looks, Clones, Locks, CleansUp, Leaves, GivesUp, TakesReport, NoticesLoss
  <2>. QED BY <1>15, <2>1, <2>2, <2>3, <2>4
<1>17. ASSUME UNCHANGED vars PROVE FlightInv'
  BY <1>15, <1>17 DEF vars
<1>18. ASSUME NEW t \in Task, HostChanges(t) PROVE FlightInv'
  <2>1. UNCHANGED <<task, link>> /\ budget'.toggles = budget.toggles
    BY <1>18 DEF HostChanges, LinkTypes
  <2>. QED BY <1>15, <2>1
<1>. QED BY <1>2, <1>3, <1>4, <1>5, <1>6, <1>7, <1>8, <1>9, <1>11, <1>12, <1>13, <1>14, <1>16, <1>17, <1>18
         DEF Next, Connecting, Pumping, Serving, Hosting
-----------------------------------------------------------------------------
(* Reports *)

\* Every step keeps to connections that were made.
LEMMA MadeStep == LinkTypes /\ MadeLinks /\ [Next]_vars => MadeLinks'
<1> SUFFICES ASSUME LinkTypes, MadeLinks, [Next]_vars PROVE MadeLinks'
  OBVIOUS
<1>0. /\ task \in [Task -> TaskRecord] /\ open \in Nat /\ made \in Nat /\ open <= made
      /\ \A t \in Task : task[t].link \in Nat /\ task[t].link <= made /\ task[t] \in TaskRecord
  BY RoomAssumption, TaskFields DEF LinkTypes, MadeLinks
<1>1. ASSUME UNCHANGED <<open, made>>, NEW t \in Task, \A u \in Task \ {t} : task'[u].link = task[u].link,
             task'[t].link \in {0, open, task[t].link}
      PROVE  MadeLinks'
  BY <1>0, <1>1 DEF MadeLinks
<1>2. ASSUME NEW t \in Task, Looks(t) PROVE MadeLinks'
  <2>1. task'[t].link \in {0, open} /\ \A u \in Task \ {t} : task'[u].link = task[u].link
    BY <1>0, <1>2 DEF Looks, TaskRecord
  <2>. QED BY <1>1, <1>2, <2>1 DEF Looks
<1>3. ASSUME NEW t \in Task, Clones(t) \/ CleansUp(t) \/ Leaves(t) \/ TakesReport(t) \/ NoticesLoss(t)
      PROVE MadeLinks'
  <2>1. task'[t].link \in {0, task[t].link} /\ \A u \in Task \ {t} : task'[u].link = task[u].link
    BY <1>0, <1>3 DEF Clones, CleansUp, Leaves, TakesReport, NoticesLoss, TaskRecord
  <2>. QED BY <1>1, <1>3, <2>1 DEF Clones, CleansUp, Leaves, TakesReport, NoticesLoss
<1>4. ASSUME NEW t \in Task, Locks(t) \/ GivesUp(t) PROVE MadeLinks'
  <2>1. task'[t].link \in {0, open, task[t].link} /\ \A u \in Task \ {t} : task'[u].link = task[u].link
    BY <1>0, <1>4 DEF Locks, GivesUp, Leave, TaskRecord
  <2>. QED BY <1>1, <1>4, <2>1 DEF Locks, GivesUp
<1>5. ASSUME NEW t \in Task, Makes(t) PROVE MadeLinks'
  <2>1. task'[t].link = made + 1 /\ \A u \in Task \ {t} : task'[u].link = task[u].link
    BY <1>0, <1>5 DEF Makes, Leave, TaskRecord
  <2>. QED BY <1>0, <1>5, <2>1 DEF Makes, MadeLinks
<1>6. ASSUME NEW t \in Task, Watches(t) \/ Reads(t) PROVE MadeLinks'
  <2>1. task'[t].link = task[t].link /\ \A u \in Task \ {t} : task'[u].link = task[u].link
    BY <1>0, <1>6 DEF Watches, Reads, Sends, TaskRecord
  <2>. QED BY <1>1, <1>6, <2>1 DEF Watches, Reads, Sends
<1>7. ASSUME NEW e \in Links, Receives(e) PROVE MadeLinks'
  <2>1. \A u \in Task : task'[u].link = task[u].link
    BY <1>7, ReceivesTasks
  <2>. QED BY <1>0, <1>7, <2>1 DEF Receives, MadeLinks
<1>8. ASSUME UNCHANGED <<open, made, task>> PROVE MadeLinks'
  BY <1>8 DEF MadeLinks
<1>. QED BY <1>2, <1>3, <1>4, <1>5, <1>6, <1>7, <1>8
         DEF Next, Connecting, Pumping, Serving, Hosting, FollowsGraphics, TakesCommand, Sent,
             Fails, HostTakes, HostAnswers, HostWrites, HostChanges, HostReports, Toggles, vars

\* A connection's registrations that only grow, and requests that only move on.
LEMMA EnrolsKept ==
    ASSUME NEW l, NEW m, NEW t, m.commands = l.commands, l.watchers \subseteq m.watchers,
           WatchRequest(t) \in m.inFlight \cup {m.sending} =>
             WatchRequest(t) \in l.inFlight \cup {l.sending}
    PROVE  /\ Enrols(l, t) => Enrols(m, t)
           /\ \A stage : Enrolled(l, t, stage) => Enrolled(m, t, stage)
<1>1. Enrols(l, t) => Enrols(m, t)
  BY DEF Enrols
<1>2. \A stage : Enrolled(l, t, stage) => Enrolled(m, t, stage)
  BY DEF Enrolled
<1>. QED BY <1>1, <1>2

\* A connection takes a command.
LEMMA TakesEnrols ==
    ASSUME LinkTypes, NEW e \in Links, TakesCommand(e), NEW t \in Task, Enrols(link[e], t)
    PROVE  /\ Enrols(link'[e], t)
           /\ \A stage : Enrolled(link[e], t, stage) => Enrolled(link'[e], t, stage)
<1> DEFINE l == link[e]
           m == link'[e]
           c == Head(l.commands)
<1>1. /\ l.commands # <<>> /\ m.commands = Tail(l.commands) /\ m.inFlight = l.inFlight
      /\ m.watchers = (IF c.kind = "watcher" THEN l.watchers \cup {c.task} ELSE l.watchers)
      /\ m.sending = (IF c.kind = "watcher" THEN l.sending ELSE c)
  BY TakesCommandEffect
<1>2. l.commands \in Seq(Command)
  BY LinkFields
<1>3. /\ Len(l.commands) \in Nat /\ DOMAIN l.commands = 1 .. Len(l.commands)
      /\ 1 \in DOMAIN l.commands /\ c = l.commands[1] /\ c \in Command
      /\ DOMAIN m.commands = 1 .. Len(l.commands) - 1
      /\ \A i \in 1 .. Len(l.commands) - 1 : m.commands[i] = l.commands[i + 1]
  BY <1>1, <1>2, SeqParts
<1>4. Elements(l.commands) = Elements(m.commands) \cup {c}
  BY <1>1, <1>2, ElementsParts
<1>5. /\ Watcher(t).kind = "watcher" /\ Watcher(t).task = t /\ WatchRequest(t).kind = "watch"
      /\ Watcher(t) # WatchRequest(t)
  BY Kinds
<1>6. /\ \A j \in DOMAIN l.commands : l.commands[j] = WatchRequest(t) =>
            t \in l.watchers \/ \E i \in 1 .. j : l.commands[i] = Watcher(t)
      /\ WatchRequest(t) \in l.inFlight \cup {l.sending} => t \in l.watchers
  BY DEF Enrols
<1> HIDE DEF l, m, c
<1>7. c = Watcher(t) => t \in m.watchers
  BY <1>1, <1>5
<1>8. l.watchers \subseteq m.watchers
  BY <1>1
<1>9. c = WatchRequest(t) => t \in l.watchers
  <2> SUFFICES ASSUME c = WatchRequest(t), t \notin l.watchers PROVE FALSE
    OBVIOUS
  <2>1. PICK i \in 1 .. 1 : l.commands[i] = Watcher(t)
    BY <1>3, <1>6
  <2>2. i = 1
    OBVIOUS
  <2>. QED BY <1>3, <1>5, <2>1, <2>2
<1>10. WatchRequest(t) \in m.inFlight \cup {m.sending} => t \in m.watchers
  BY <1>1, <1>6, <1>8, <1>9
<1>11. ASSUME NEW j \in DOMAIN m.commands, m.commands[j] = WatchRequest(t)
       PROVE  t \in m.watchers \/ \E i \in 1 .. j : m.commands[i] = Watcher(t)
  <2>1. j \in Nat /\ j + 1 \in DOMAIN l.commands /\ l.commands[j + 1] = WatchRequest(t)
    BY <1>3, <1>11
  <2>2. CASE t \in l.watchers
    BY <1>8, <2>2
  <2>3. ASSUME NEW i \in 1 .. j + 1, l.commands[i] = Watcher(t)
        PROVE  t \in m.watchers \/ \E k \in 1 .. j : m.commands[k] = Watcher(t)
    <3>1. CASE i = 1
      BY <1>3, <1>7, <2>3, <3>1
    <3>2. CASE i # 1
      <4>1. i - 1 \in 1 .. j /\ i - 1 \in 1 .. Len(l.commands) - 1 /\ (i - 1) + 1 = i
        BY <1>3, <2>1, <2>3, <3>2
      <4>2. m.commands[i - 1] = l.commands[(i - 1) + 1]
        BY <1>3, <4>1
      <4>. QED BY <2>3, <4>1, <4>2
    <3>. QED BY <3>1, <3>2
  <2>. QED BY <1>6, <2>1, <2>2, <2>3
<1>12. Enrols(m, t)
  BY <1>10, <1>11 DEF Enrols
<1>13. \A stage : Enrolled(l, t, stage) => Enrolled(m, t, stage)
  BY <1>4, <1>7, <1>8 DEF Enrolled
<1>. QED BY <1>12, <1>13 DEF l, m

\* A task puts a command into the channel: it registers before it asks.
LEMMA SendsEnrols ==
    ASSUME LinkTypes, NEW t \in Task, NEW c \in Command, NEW then \in Stages, Sends(t, c, then),
           NEW u \in Task, Enrols(link[task[t].link], u),
           c = WatchRequest(u) => Enrolled(link[task[t].link], u, "ask")
    PROVE  /\ Enrols(link'[task[t].link], u)
           /\ \A stage : Enrolled(link[task[t].link], u, stage) => Enrolled(link'[task[t].link], u, stage)
           /\ c = Watcher(u) => Enrolled(link'[task[t].link], u, "ask")
<1> DEFINE e == task[t].link
           l == link[e]
           m == link'[e]
<1>1. /\ e \in Links /\ m.commands = Append(l.commands, c) /\ m.watchers = l.watchers
      /\ m.inFlight = l.inFlight /\ m.sending = l.sending
  BY SendsEffect
<1>2. l.commands \in Seq(Command)
  BY <1>1, LinkFields
<1>3. Elements(m.commands) = Elements(l.commands) \cup {c}
  BY <1>1, <1>2, ElementsParts
<1>4. /\ \A j \in DOMAIN l.commands : l.commands[j] = WatchRequest(u) =>
            u \in l.watchers \/ \E i \in 1 .. j : l.commands[i] = Watcher(u)
      /\ WatchRequest(u) \in l.inFlight \cup {l.sending} => u \in l.watchers
  BY DEF Enrols
<1>5. c = WatchRequest(u) => u \in l.watchers \/ Watcher(u) \in Elements(l.commands)
  BY DEF Enrolled
<1> HIDE DEF l, m, e
<1>6. /\ Len(l.commands) \in Nat /\ DOMAIN l.commands = 1 .. Len(l.commands)
      /\ DOMAIN m.commands = 1 .. Len(l.commands) + 1
      /\ m.commands[Len(l.commands) + 1] = c
      /\ \A i \in 1 .. Len(l.commands) : m.commands[i] = l.commands[i]
  BY <1>1, <1>2, SeqParts
<1>7. ASSUME NEW j \in DOMAIN m.commands, m.commands[j] = WatchRequest(u)
      PROVE  u \in m.watchers \/ \E i \in 1 .. j : m.commands[i] = Watcher(u)
  <2>1. CASE j = Len(l.commands) + 1
    <3>1. u \in l.watchers \/ \E i \in 1 .. Len(l.commands) : l.commands[i] = Watcher(u)
      BY <1>6, <1>5, <1>7, <2>1 DEF Elements
    <3>2. \A i \in 1 .. Len(l.commands) : i \in 1 .. j /\ m.commands[i] = l.commands[i]
      BY <1>6, <2>1
    <3>. QED BY <1>1, <3>1, <3>2
  <2>2. CASE j # Len(l.commands) + 1
    <3>1. j \in DOMAIN l.commands /\ \A i \in 1 .. j : m.commands[i] = l.commands[i]
      BY <1>6, <2>2
    <3>2. l.commands[j] = WatchRequest(u)
      BY <1>6, <1>7, <3>1
    <3>. QED BY <1>1, <1>4, <3>1, <3>2
  <2>. QED BY <2>1, <2>2
<1>8. Enrols(m, u)
  BY <1>1, <1>4, <1>7 DEF Enrols
<1>9. /\ \A stage : Enrolled(l, u, stage) => Enrolled(m, u, stage)
      /\ c = Watcher(u) => Enrolled(m, u, "ask")
  BY <1>1, <1>3 DEF Enrolled
<1>. QED BY <1>8, <1>9 DEF l, m, e

\* Nobody is registered with a connection that is closed or new.
LEMMA EmptyEnrols ==
    ASSUME NEW l \in {Closed, Fresh}, NEW t \in Task
    PROVE  Enrols(l, t)
<1>1. l.commands = <<>> /\ l.sending = NoRequest /\ l.inFlight = {} /\ DOMAIN <<>> = {}
  BY EmptyParts
<1>2. WatchRequest(t) # NoRequest
  BY Kinds
<1>. QED BY <1>1, <1>2 DEF Enrols

\* A step after which pumps are registered as they should be.
LEMMA RegisteredNext ==
    ASSUME \A t \in Task, d \in Links : Enrols(link'[d], t),
           \A t \in Task : IsOpen(task[t].link)' => Enrolled(link'[task'[t].link], t, task'[t].stage)
    PROVE  Registered'
  BY DEF Registered, Enrols, Enrolled, IsOpen, Elements, WatchRequest, Watcher

\* Every step keeps pumps registered before they wait.
LEMMA RegisteredStep ==
    LinkTypes /\ FlightInv /\ MadeLinks /\ Registered /\ [Next]_vars => Registered'
<1> SUFFICES ASSUME LinkTypes, FlightInv, MadeLinks, Registered, [Next]_vars PROVE Registered'
  OBVIOUS
<1>0. /\ \A t \in Task, d \in Links : Enrols(link[d], t)
      /\ \A t \in Task : IsOpen(task[t].link) => Enrolled(link[task[t].link], t, task[t].stage)
      /\ \A t \in Task : task[t].link \in 0 .. MaxLinks
      /\ \A d \in 0 .. MaxLinks : d # 0 => d \in Links
  BY TaskFields, RoomAssumption DEF Registered, Links
<1>1. ASSUME NEW e \in Links, UNCHANGED task, \A d \in Links \ {e} : link'[d] = link[d],
             link'[e].up => link[e].up,
             \A t \in Task : Enrols(link'[e], t),
             link'[e].up => \A t \in Task : \A stage :
               Enrolled(link[e], t, stage) => Enrolled(link'[e], t, stage)
      PROVE Registered'
  <2>1. \A t \in Task, d \in Links : Enrols(link'[d], t)
    <3> SUFFICES ASSUME NEW t \in Task, NEW d \in Links PROVE Enrols(link'[d], t)
      OBVIOUS
    <3>1. CASE d = e
      BY <1>1, <3>1
    <3>2. CASE d # e
      <4>1. link'[d] = link[d]
        BY <1>1, <3>2
      <4>. QED BY <1>0, <4>1
    <3>. QED BY <3>1, <3>2
  <2>2. ASSUME NEW t \in Task, IsOpen(task[t].link)'
        PROVE  Enrolled(link'[task'[t].link], t, task'[t].stage)
    <3> DEFINE d == task[t].link
    <3>1. d \in Links /\ link'[d].up /\ task'[t] = task[t]
      BY <1>0, <1>1, <2>2 DEF IsOpen
    <3>2. d # 0
      BY <2>2, <1>1 DEF IsOpen
    <3>3. CASE d = e
      <4>1. Enrolled(link[e], t, task[t].stage)
        BY <1>0, <1>1, <3>1, <3>2, <3>3 DEF IsOpen
      <4>. QED BY <1>1, <3>1, <3>3, <4>1
    <3>4. CASE d # e
      <4>1. link'[d] = link[d]
        BY <1>1, <3>1, <3>4
      <4>2. Enrolled(link[d], t, task[t].stage)
        BY <1>0, <3>1, <3>2, <4>1 DEF IsOpen
      <4>. QED BY <3>1, <4>1, <4>2
    <3>. QED BY <3>3, <3>4
  <2>. QED BY <2>1, <2>2, RegisteredNext
<1>2. ASSUME NEW e \in Links, FollowsGraphics(e) PROVE Registered'
  <2>1. /\ UNCHANGED task /\ \A d \in Links \ {e} : link'[d] = link[d]
        /\ link'[e].up = link[e].up
        /\ link'[e].commands = link[e].commands /\ link'[e].watchers = link[e].watchers
        /\ link'[e].inFlight = link[e].inFlight /\ link'[e].sending \in {link[e].sending, SetGraphics}
    BY <1>2, FollowsGraphicsEffect DEF FollowsGraphics
  <2>2. \A t \in Task : WatchRequest(t) # SetGraphics
    BY DEF WatchRequest, SetGraphics
  <2>3. ASSUME NEW t \in Task
        PROVE  /\ Enrols(link'[e], t)
               /\ \A stage : Enrolled(link[e], t, stage) => Enrolled(link'[e], t, stage)
    <3>1. Enrols(link[e], t)
      BY <1>0
    <3>2. WatchRequest(t) \in link'[e].inFlight \cup {link'[e].sending} =>
             WatchRequest(t) \in link[e].inFlight \cup {link[e].sending}
      BY <2>1, <2>2
    <3>. QED BY <2>1, <3>1, <3>2, EnrolsKept
  <2>. QED BY <1>1, <2>1, <2>3
<1>3. ASSUME NEW e \in Links, TakesCommand(e) PROVE Registered'
  <2>1. /\ UNCHANGED task /\ \A d \in Links \ {e} : link'[d] = link[d]
        /\ link'[e].up = link[e].up
    BY <1>3, TakesCommandEffect DEF TakesCommand
  <2>2. ASSUME NEW t \in Task
        PROVE  /\ Enrols(link'[e], t)
               /\ \A stage : Enrolled(link[e], t, stage) => Enrolled(link'[e], t, stage)
    BY <1>0, <1>3, TakesEnrols
  <2>. QED BY <1>1, <2>1, <2>2
<1>4. ASSUME NEW e \in Links, UNCHANGED task, \A d \in Links \ {e} : link'[d] = link[d],
             link'[e].up = link[e].up, link'[e].commands = link[e].commands,
             link'[e].watchers = link[e].watchers,
             \A t \in Task : WatchRequest(t) \in link'[e].inFlight \cup {link'[e].sending} =>
                WatchRequest(t) \in link[e].inFlight \cup {link[e].sending}
      PROVE Registered'
  <2>1. ASSUME NEW t \in Task
        PROVE  /\ Enrols(link'[e], t)
               /\ \A stage : Enrolled(link[e], t, stage) => Enrolled(link'[e], t, stage)
    <3>1. Enrols(link[e], t)
      BY <1>0
    <3>2. WatchRequest(t) \in link'[e].inFlight \cup {link'[e].sending} =>
             WatchRequest(t) \in link[e].inFlight \cup {link[e].sending}
      BY <1>4
    <3>. QED BY <1>4, <3>1, <3>2, EnrolsKept
  <2>. QED BY <1>1, <1>4, <2>1
<1>5. ASSUME NEW e \in Links, Sent(e) PROVE Registered'
  <2>1. \A t \in Task : WatchRequest(t) # NoRequest
    BY Kinds
  <2>2. /\ UNCHANGED task /\ \A d \in Links \ {e} : link'[d] = link[d]
        /\ link'[e].up = link[e].up /\ link'[e].commands = link[e].commands
        /\ link'[e].watchers = link[e].watchers
        /\ link'[e].inFlight = link[e].inFlight \cup {link[e].sending} /\ link'[e].sending = NoRequest
    BY <1>5, SentEffect DEF Sent
  <2>. QED BY <1>4, <2>1, <2>2
<1>6. ASSUME NEW e \in Links, HostTakes(e) \/ HostAnswers(e) \/ HostWrites(e) PROVE Registered'
  <2>1. /\ UNCHANGED task /\ \A d \in Links \ {e} : link'[d] = link[d]
        /\ link'[e].up = link[e].up /\ link'[e].commands = link[e].commands
        /\ link'[e].watchers = link[e].watchers
        /\ link'[e].inFlight = link[e].inFlight /\ link'[e].sending = link[e].sending
    <3>1. CASE HostTakes(e)
      BY <3>1, HostTakesEffect DEF HostTakes
    <3>2. CASE HostAnswers(e)
      BY <3>2, HostAnswersEffect DEF HostAnswers
    <3>3. CASE HostWrites(e)
      BY <3>3, HostWritesEffect DEF HostWrites
    <3>. QED BY <1>6, <3>1, <3>2, <3>3
  <2>. QED BY <1>4, <2>1
<1>7. ASSUME NEW e \in Links, Fails(e) PROVE Registered'
  <2>1. /\ UNCHANGED task /\ \A d \in Links \ {e} : link'[d] = link[d]
        /\ link'[e] = Closed
    BY <1>7, ReplacedEffect DEF Fails
  <2>2. ~ Closed.up
    BY DEF Closed
  <2>. QED BY <1>1, <2>1, <2>2, EmptyEnrols
<1>8. ASSUME NEW e \in Links, Receives(e) PROVE Registered'
  <2> DEFINE v == Head(link[e].inbound)
  <2>1. /\ \A d \in Links \ {e} : link'[d] = link[d]
        /\ link'[e].up = link[e].up /\ link'[e].commands = link[e].commands /\ link[e].up
        /\ link'[e].watchers = link[e].watchers
        /\ link'[e].inFlight \subseteq link[e].inFlight /\ link'[e].sending = link[e].sending
    BY <1>8, ReceivesEffect
  <2>2. \A d \in Links : link'[d].up = link[d].up
    BY <2>1
  <2>3. ASSUME NEW t \in Task, NEW d \in Links
        PROVE  /\ Enrols(link'[d], t)
               /\ \A stage : Enrolled(link[d], t, stage) => Enrolled(link'[d], t, stage)
    <3>1. Enrols(link[d], t)
      BY <1>0
    <3>2. CASE d = e
      BY <2>1, <3>1, <3>2, EnrolsKept
    <3>3. CASE d # e
      <4>1. link'[d] = link[d]
        BY <2>1, <3>3
      <4>. QED BY <3>1, <4>1
    <3>. QED BY <3>2, <3>3
  <2>4. v \in Envelope /\ FlightOf(link[e], budget.toggles) /\ WaitedFor
    BY <1>8, ReceivesTasks, FlightParts
  <2>5. /\ v.kind \in {"event", "get", "watch", "graphics"}
        /\ v.kind \in {"get", "watch"} => /\ v.request \in TaskRequest /\ v.request.kind = v.kind
                                          /\ v.request.task \in Task
        /\ v.kind # "event" => Answering(v) = {v.request}
    BY <2>4, EnvelopeKinds, Kinds DEF Answering
  <2>6. Answering(v) \subseteq link[e].inFlight
    <3>1. InPlace(link[e]) /\ link[e].inbound # <<>> /\ link[e].inbound \in Seq(Envelope)
      BY <1>8, <2>4, LinkFields DEF FlightOf, Receives
    <3>2. Answering(v) \subseteq Answers(link[e].inbound)
      BY <3>1, AnswersParts
    <3>. QED BY <3>1, <3>2 DEF InPlace
  <2>7. ASSUME NEW t \in Task, IsOpen(task[t].link)'
        PROVE  Enrolled(link'[task'[t].link], t, task'[t].stage)
    <3> DEFINE d == task[t].link
    <3>1. task'[t].link = d
      BY <1>8, ReceivesTasks
    <3>2. d \in Links /\ link'[d].up /\ d # 0
      BY <1>0, <2>7, <3>1 DEF IsOpen
    <3>3. Enrolled(link[d], t, task[t].stage)
      BY <1>0, <2>2, <3>2 DEF IsOpen
    <3>4. CASE task'[t].stage = task[t].stage
      BY <2>3, <3>1, <3>2, <3>3, <3>4
    <3>5. CASE v.kind = "get" /\ t = v.request.task
      <4>1. v.request = Get(t) /\ task'[t].stage = "wait"
        <5>1. v.request = Get(t)
          BY <2>5, <3>5, Kinds
        <5>. QED BY <1>8, <3>5, <5>1, ReceivesTasks
      <4>2. task[t].stage = "reading"
        BY <2>4, <2>5, <2>6, <3>5, <4>1 DEF WaitedFor, Pending
      <4>3. t \in link[d].watchers
        BY <3>3, <4>2 DEF Enrolled
      <4>4. t \in link'[d].watchers
        BY <2>1, <3>2, <4>3
      <4>. QED BY <3>1, <4>1, <4>4 DEF Enrolled
    <3>6. CASE v.kind = "watch" /\ t = v.request.task
      <4>1. v.request = WatchRequest(t) /\ task'[t].stage = "read"
        <5>1. v.request = WatchRequest(t)
          BY <2>5, <3>6, Kinds
        <5>. QED BY <1>8, <3>6, <5>1, ReceivesTasks
      <4>2. WatchRequest(t) \in link[e].inFlight /\ task[t].link = e
        BY <2>4, <2>5, <2>6, <3>6, <4>1 DEF WaitedFor, Pending
      <4>3. t \in link[e].watchers
        BY <1>0, <4>2 DEF Enrols
      <4>4. t \in link'[d].watchers
        BY <2>1, <4>2, <4>3
      <4>. QED BY <3>1, <4>1, <4>4 DEF Enrolled
    <3>7. \/ task'[t].stage = task[t].stage
          \/ v.kind \in {"get", "watch"} /\ t = v.request.task
      BY <1>8, <2>5, ReceivesTasks
    <3>. QED BY <3>4, <3>5, <3>6, <3>7
  <2>. QED BY <2>3, <2>7, RegisteredNext
<1>9. ASSUME NEW t \in Task, NEW c \in Command, NEW then \in Stages, Sends(t, c, then),
              \/ c = Watcher(t) /\ task[t].stage = "watch" /\ then = "ask"
              \/ c = WatchRequest(t) /\ task[t].stage = "ask" /\ then = "asked"
              \/ c = Get(t) /\ task[t].stage = "read" /\ then = "reading"
       PROVE Registered'
  <2> DEFINE e == task[t].link
  <2>1. /\ e \in Links /\ \A d \in Links \ {e} : link'[d] = link[d]
        /\ link[e].up /\ link'[e].up = link[e].up /\ link'[e].watchers = link[e].watchers
        /\ task' = [task EXCEPT ![t] = [task[t] EXCEPT !.stage = then]]
    BY <1>9, SendsEffect
  <2>2. e # 0 /\ IsOpen(e)
    BY <1>9 DEF Sends, IsOpen
  <2>3. /\ \A u \in Task \ {t} : task'[u] = task[u]
        /\ task'[t].stage = then /\ task'[t].link = e
    BY <2>1 DEF LinkTypes, TaskRecord
  <2>4. Enrolled(link[e], t, task[t].stage)
    BY <1>0, <2>2
  <2>5. ASSUME NEW u \in Task
        PROVE  /\ Enrols(link'[e], u)
               /\ \A stage : Enrolled(link[e], u, stage) => Enrolled(link'[e], u, stage)
               /\ c = Watcher(u) => Enrolled(link'[e], u, "ask")
    <3>1. Enrols(link[e], u)
      BY <1>0, <2>1
    <3>2. c = WatchRequest(u) => Enrolled(link[e], u, "ask")
      <4> SUFFICES ASSUME c = WatchRequest(u) PROVE Enrolled(link[e], u, "ask")
        OBVIOUS
      <4>1. u = t /\ task[t].stage = "ask"
        BY <1>9, Kinds
      <4>. QED BY <2>4, <4>1
    <3>. QED BY <1>9, <3>1, <3>2, SendsEnrols
  <2> HIDE DEF e
  <2>6. \A u \in Task, d \in Links : Enrols(link'[d], u)
    <3> SUFFICES ASSUME NEW u \in Task, NEW d \in Links PROVE Enrols(link'[d], u)
      OBVIOUS
    <3>1. CASE d = e
      BY <2>5, <3>1
    <3>2. CASE d # e
      <4>1. link'[d] = link[d]
        BY <2>1, <3>2
      <4>. QED BY <1>0, <4>1
    <3>. QED BY <3>1, <3>2
  <2>7. Enrolled(link'[e], t, then)
    <3>1. CASE c = Watcher(t) /\ then = "ask"
      BY <2>5, <3>1
    <3>2. CASE then = "asked"
      BY <3>2 DEF Enrolled
    <3>3. CASE then = "reading" /\ task[t].stage = "read"
      BY <2>1, <2>4, <3>3 DEF Enrolled
    <3>. QED BY <1>9, <3>1, <3>2, <3>3
  <2>8. ASSUME NEW u \in Task, IsOpen(task[u].link)'
        PROVE  Enrolled(link'[task'[u].link], u, task'[u].stage)
    <3>1. CASE u = t
      BY <2>3, <2>7, <3>1
    <3>2. CASE u # t
      <4> DEFINE d == task[u].link
      <4>1. task'[u] = task[u]
        BY <2>3, <3>2
      <4>2. d \in Links /\ d # 0 /\ link'[d].up
        BY <1>0, <2>8, <4>1 DEF IsOpen
      <4>3. link[d].up
        BY <2>1, <4>2
      <4>4. Enrolled(link[d], u, task[u].stage)
        BY <1>0, <4>2, <4>3 DEF IsOpen
      <4>5. CASE d = e
        BY <2>5, <4>1, <4>4, <4>5
      <4>6. CASE d # e
        <5>1. link'[d] = link[d]
          BY <2>1, <4>2, <4>6
        <5>. QED BY <4>1, <4>4, <5>1
      <4>. QED BY <4>5, <4>6
    <3>. QED BY <3>1, <3>2
  <2>. QED BY <2>6, <2>8, RegisteredNext
<1>10. ASSUME NEW t \in Task, Watches(t) \/ Reads(t) PROVE Registered'
  BY <1>9, <1>10, Kinds DEF Watches, Reads, Stages
<1>11. ASSUME NEW t \in Task, Makes(t) PROVE Registered'
  <2> DEFINE e == made + 1
  <2>1. e \in Links /\ \A u \in Task : task[u].link # e
    <3>1. made \in 0 .. MaxLinks
      BY DEF LinkTypes
    <3>2. made < MaxLinks
      BY <1>11 DEF Makes
    <3>3. e \in Links /\ e > made
      BY <3>1, <3>2, RoomAssumption DEF Links
    <3>4. \A u \in Task : task[u].link \in Nat /\ task[u].link <= made
      BY TaskFields, RoomAssumption DEF MadeLinks
    <3>. QED BY <3>1, <3>3, <3>4
  <2>2. link'[e] = Fresh /\ \A d \in Links \ {e} : link'[d] = link[d]
    BY <1>11, <2>1, ReplacedEffect DEF Makes
  <2>3. (\A u \in Task \ {t} : task'[u] = task[u]) /\ task'[t].stage = "unlocked"
    BY <1>11 DEF Makes, Leave, LinkTypes, TaskRecord
  <2> HIDE DEF e
  <2>4. \A u \in Task, d \in Links : Enrols(link'[d], u)
    <3> SUFFICES ASSUME NEW u \in Task, NEW d \in Links PROVE Enrols(link'[d], u)
      OBVIOUS
    <3>1. CASE d = e
      BY <2>2, <3>1, EmptyEnrols
    <3>2. CASE d # e
      <4>1. link'[d] = link[d]
        BY <2>2, <3>2
      <4>. QED BY <1>0, <4>1
    <3>. QED BY <3>1, <3>2
  <2>5. ASSUME NEW u \in Task, IsOpen(task[u].link)'
        PROVE  Enrolled(link'[task'[u].link], u, task'[u].stage)
    <3>1. CASE u = t
      BY <2>3, <3>1 DEF Enrolled
    <3>2. CASE u # t
      <4> DEFINE d == task[u].link
      <4>1. task'[u] = task[u]
        BY <2>3, <3>2
      <4>2. d \in Links /\ d # 0 /\ d # e /\ link'[d].up
        BY <1>0, <2>1, <2>5, <4>1 DEF IsOpen
      <4>3. link'[d] = link[d]
        BY <2>2, <4>2
      <4>4. Enrolled(link[d], u, task[u].stage)
        BY <1>0, <4>2, <4>3 DEF IsOpen
      <4>. QED BY <4>1, <4>3, <4>4
    <3>. QED BY <3>1, <3>2
  <2>. QED BY <2>4, <2>5, RegisteredNext
<1>12. ASSUME \A d \in Links : /\ link'[d].commands = link[d].commands /\ link'[d].up = link[d].up
                               /\ link'[d].watchers = link[d].watchers
                               /\ link'[d].inFlight = link[d].inFlight
                               /\ link'[d].sending = link[d].sending,
              \A t \in Task : \/ task'[t].stage = task[t].stage /\ task'[t].link = task[t].link
                              \/ task'[t].stage \notin {"ask", "read", "reading", "wait"}
                              \/ task'[t].stage = "read" /\ task[t].stage = "wait"
                                   /\ task'[t].link = task[t].link
       PROVE Registered'
  <2>1. ASSUME NEW t \in Task, NEW d \in Links
        PROVE  /\ Enrols(link'[d], t)
               /\ \A stage : Enrolled(link[d], t, stage) => Enrolled(link'[d], t, stage)
    <3>1. Enrols(link[d], t)
      BY <1>0
    <3>. QED BY <1>12, <3>1, EnrolsKept
  <2>2. ASSUME NEW t \in Task, IsOpen(task[t].link)'
        PROVE  Enrolled(link'[task'[t].link], t, task'[t].stage)
    <3>1. CASE task'[t].stage \notin {"ask", "read", "reading", "wait"}
      BY <3>1 DEF Enrolled
    <3>2. CASE task'[t].link = task[t].link /\ (\/ task'[t].stage = task[t].stage
                                                \/ task'[t].stage = "read" /\ task[t].stage = "wait")
      <4> DEFINE d == task[t].link
      <4>1. d \in Links /\ d # 0 /\ link[d].up
        BY <1>0, <1>12, <2>2, <3>2 DEF IsOpen
      <4>2. Enrolled(link[d], t, task[t].stage)
        BY <1>0, <4>1 DEF IsOpen
      <4>3. Enrolled(link[d], t, task'[t].stage)
        BY <3>2, <4>2 DEF Enrolled
      <4>. QED BY <2>1, <3>2, <4>1, <4>3
    <3>. QED BY <1>12, <3>1, <3>2
  <2>. QED BY <2>1, <2>2, RegisteredNext
<1>13. ASSUME NEW t \in Task, HostReports(t) PROVE Registered'
  BY <1>12, <1>13, HostReportsEffect DEF HostReports
<1>13b. ASSUME NEW t \in Task, HostChanges(t) PROVE Registered'
  BY <1>12, <1>13b DEF HostChanges
<1>14. ASSUME Toggles PROVE Registered'
  BY <1>12, <1>14, TogglesEffect DEF Toggles
<1>15. ASSUME NEW t \in Task,
              Looks(t) \/ Clones(t) \/ Locks(t) \/ CleansUp(t) \/ Leaves(t) \/ GivesUp(t)
                \/ TakesReport(t) \/ NoticesLoss(t)
       PROVE Registered'
  <2>1. UNCHANGED link
    BY <1>15 DEF Looks, Clones, Locks, CleansUp, Leaves, GivesUp, TakesReport, NoticesLoss
  <2>2. \A u \in Task \ {t} : task'[u] = task[u]
    BY <1>15, ConnectingEffect DEF Connecting
  <2>3. \/ task'[t].stage \notin {"ask", "read", "reading", "wait"}
        \/ task'[t].stage = "read" /\ task[t].stage = "wait" /\ task'[t].link = task[t].link
    BY <1>15 DEF Looks, Clones, Locks, CleansUp, Leaves, GivesUp, TakesReport, NoticesLoss, Leave,
                 LinkTypes, TaskRecord
  <2>. QED BY <1>12, <2>1, <2>2, <2>3
<1>16. ASSUME UNCHANGED vars PROVE Registered'
  BY <1>12, <1>16 DEF vars
<1>. QED BY <1>2, <1>3, <1>5, <1>6, <1>7, <1>8, <1>10, <1>11, <1>13, <1>13b, <1>14, <1>15, <1>16
         DEF Next, Connecting, Pumping, Serving, Hosting

\* A record on its way is for a pump that waits for it on this connection.
LEMMA ComingAsked ==
    ASSUME LinkTypes, SettingInv, FlightInv, NEW e \in Links, NEW t \in Task,
           NEW a \in Coming(link[e]), a.kind = "get", a.request.task = t
    PROVE  task[t].stage = "reading" /\ task[t].link = e /\ link[e].up
<1> DEFINE l == link[e]
<1>1. /\ l.queue \in Seq(Envelope) /\ l.inbound \in Seq(Envelope)
      /\ l.busy \in Answer \cup {NoRequest} /\ NoRequest.kind = "none"
  BY LinkFields, Kinds
<1>2. Elements(l.queue) \subseteq Envelope /\ Elements(l.inbound) \subseteq Envelope
  BY <1>1, ElementsParts
<1>3. a \in Envelope
  BY <1>1, <1>2, EnvelopeKinds DEF Coming, Envelopes
<1>4. a.request = Get(t)
  BY <1>3, EnvelopeKinds, Kinds
<1>5. InPlace(l) /\ WaitedFor /\ FlightOf(l, budget.toggles)
  BY FlightParts DEF FlightOf
<1>6. a.request \in Busy(l) \cup Answers(l.queue) \cup Answers(l.inbound)
  <2>1. CASE a = l.busy
    BY <1>1, <2>1 DEF Busy
  <2>2. CASE a \in Elements(l.queue)
    BY <2>2 DEF Elements, Answers
  <2>3. CASE a \in Elements(l.inbound)
    BY <2>3 DEF Elements, Answers
  <2>. QED BY <2>1, <2>2, <2>3 DEF Coming, Envelopes
<1>7. Get(t) \in Pending(l)
  BY <1>4, <1>5, <1>6 DEF InPlace, Pending
<1>8. l # Closed
  <2>1. Pending(Closed) = {NoRequest}
    BY EmptyFlight
  <2>. QED BY <1>7, <2>1, Kinds
<1>9. link[e].up
  BY <1>8 DEF SettingInv, DownIsClosed
<1>. QED BY <1>5, <1>7, <1>9 DEF WaitedFor

\* A pump that is behind is registered with the connection.
LEMMA BehindWatched ==
    ASSUME LinkTypes, SettingInv, FlightInv, Registered, NEW e \in Links, NEW t \in Task, Behind(e, t)
    PROVE  /\ task[t].link = e /\ link[e].up /\ task[t].stage \in {"wait", "reading"}
           /\ t \in link[e].watchers
<1>1. task[t].link = e /\ link[e].up /\ task[t].stage \in {"wait", "reading"}
  <2>1. CASE \E a \in Coming(link[e]) : a.kind = "get" /\ a.request.task = t
    BY <2>1, ComingAsked
  <2>2. CASE task[t].stage = "wait" /\ task[t].link = e /\ link[e].up
    BY <2>2
  <2>. QED BY <2>1, <2>2 DEF Behind
<1>2. IsOpen(task[t].link)
  BY <1>1, RoomAssumption DEF IsOpen, Links
<1>. QED BY <1>1, <1>2 DEF Registered, Enrolled

\* An answer that is not of an older version.
Current(a) == a.kind = "get" => a.version = version[a.request.task]

\* Steps that take no report from a pump that is behind, and put none behind.
LEMMA ReportsKept ==
    ASSUME LinkTypes, SettingInv, FlightInv, Registered, Reports, UNCHANGED <<version, unsaid>>,
           \A d \in Links :
              \/ ~ link'[d].subscribed
              \/ /\ link[d].subscribed /\ (link'[d].up => link[d].up)
                 /\ \A a \in Coming(link'[d]) : a \in Coming(link[d]) \/ Current(a)
                 /\ Envelopes(link[d]) \subseteq Envelopes(link'[d]),
           \A t \in Task :
              \/ /\ task'[t].stage = task[t].stage /\ task'[t].link = task[t].link
                 /\ task'[t].read = task[t].read /\ task'[t].report = task[t].report
              \/ /\ task'[t].stage # "wait"
                 /\ task[t].stage # "reading" \/ ~ IsOpen(task[t].link)
    PROVE  Reports'
<1> SUFFICES ASSUME NEW e \in Links, NEW t \in Task, unsaid'[t] = 0, Behind(e, t)'
             PROVE  task'[t].report \/ Event(t) \in Envelopes(link'[e])
  BY DEF Reports, ReportOf, Envelopes, Elements, Event
<1>1. /\ link'[e].subscribed
      /\ \/ task'[t].stage = "wait" /\ task'[t].link = e /\ link'[e].up /\ task'[t].read # version'[t]
         \/ \E a \in Coming(link'[e]) : a.kind = "get" /\ a.request.task = t /\ a.version # version'[t]
  BY DEF Behind, Coming, Envelopes, Elements
<1>2. /\ link[e].subscribed /\ (link'[e].up => link[e].up)
      /\ \A a \in Coming(link'[e]) : a \in Coming(link[e]) \/ Current(a)
      /\ Envelopes(link[e]) \subseteq Envelopes(link'[e])
  BY <1>1
<1>3. ASSUME NEW a \in Coming(link'[e]), a.kind = "get", a.request.task = t, a.version # version'[t]
      PROVE  a \in Coming(link[e])
  BY <1>2, <1>3 DEF Current
<1>4. CASE /\ task'[t].stage = task[t].stage /\ task'[t].link = task[t].link
           /\ task'[t].read = task[t].read /\ task'[t].report = task[t].report
  <2>1. Behind(e, t)
    BY <1>1, <1>2, <1>3, <1>4 DEF Behind
  <2>2. task[t].report \/ Event(t) \in Envelopes(link[e])
    BY <2>1 DEF Reports, ReportOf
  <2>. QED BY <1>2, <1>4, <2>2
<1>5. CASE /\ task'[t].stage # "wait"
           /\ task[t].stage # "reading" \/ ~ IsOpen(task[t].link)
  <2>1. PICK a \in Coming(link'[e]) : a.kind = "get" /\ a.request.task = t /\ a.version # version'[t]
    BY <1>1, <1>5
  <2>2. a \in Coming(link[e])
    BY <1>3, <2>1
  <2>3. task[t].stage = "reading" /\ task[t].link = e /\ link[e].up
    BY <2>1, <2>2, ComingAsked
  <2>4. e # 0
    BY RoomAssumption DEF Links
  <2>. QED BY <1>5, <2>3, <2>4 DEF IsOpen
<1>. QED BY <1>4, <1>5

\* Every step keeps a pump that is behind due a report.
LEMMA ReportsStep ==
    LinkTypes /\ SettingInv /\ FlightInv /\ ReportInv /\ [Next]_vars => Reports'
<1> SUFFICES ASSUME LinkTypes, SettingInv, FlightInv, ReportInv, [Next]_vars PROVE Reports'
  OBVIOUS
<1>0. /\ MadeLinks /\ Registered /\ Reports /\ task \in [Task -> TaskRecord]
      /\ NoRequest.kind = "none"
  BY Kinds DEF ReportInv, LinkTypes
<1>1. ASSUME UNCHANGED <<version, unsaid>>,
             \A d \in Links : /\ link'[d].subscribed = link[d].subscribed /\ link'[d].up = link[d].up
                              /\ link'[d].busy = link[d].busy /\ link'[d].queue = link[d].queue
                              /\ link'[d].inbound = link[d].inbound,
             \A t \in Task :
              \/ /\ task'[t].stage = task[t].stage /\ task'[t].link = task[t].link
                 /\ task'[t].read = task[t].read /\ task'[t].report = task[t].report
              \/ /\ task'[t].stage # "wait"
                 /\ task[t].stage # "reading" \/ ~ IsOpen(task[t].link)
      PROVE Reports'
  <2>1. \A d \in Links : Coming(link'[d]) = Coming(link[d]) /\ Envelopes(link'[d]) = Envelopes(link[d])
    BY <1>1 DEF Coming, Envelopes
  <2>. QED BY <1>0, <1>1, <2>1, ReportsKept
<1>2. ASSUME NEW t \in Task,
             Looks(t) \/ Clones(t) \/ Locks(t) \/ CleansUp(t) \/ Leaves(t) \/ GivesUp(t)
                \/ TakesReport(t) \/ NoticesLoss(t)
      PROVE Reports'
  <2>1. UNCHANGED <<link, version, unsaid>>
    BY <1>2 DEF Looks, Clones, Locks, CleansUp, Leaves, GivesUp, TakesReport, NoticesLoss
  <2>2. \A u \in Task \ {t} : task'[u] = task[u]
    BY <1>2, ConnectingEffect DEF Connecting
  <2>3. /\ task'[t].stage # "wait"
        /\ task[t].stage # "reading" \/ ~ IsOpen(task[t].link)
    BY <1>0, <1>2 DEF Looks, Clones, Locks, CleansUp, Leaves, GivesUp, TakesReport, NoticesLoss,
                      Leave, TaskRecord
  <2>. QED BY <1>1, <2>1, <2>2, <2>3
<1>3. ASSUME NEW t \in Task, NEW c \in Command, NEW then \in {"ask", "asked", "reading"},
             Sends(t, c, then), task[t].stage # "reading"
      PROVE Reports'
  <2>1. then \in Stages /\ UNCHANGED <<version, unsaid>>
    BY <1>3 DEF Stages, Sends
  <2>2. \A d \in Links : /\ link'[d].subscribed = link[d].subscribed /\ link'[d].up = link[d].up
                         /\ link'[d].busy = link[d].busy /\ link'[d].queue = link[d].queue
                         /\ link'[d].inbound = link[d].inbound
    BY <1>3, <2>1, SendsEffect
  <2>3. (\A u \in Task \ {t} : task'[u] = task[u]) /\ task'[t].stage = then
    BY <1>0, <1>3 DEF Sends, TaskRecord
  <2>. QED BY <1>1, <1>3, <2>1, <2>2, <2>3
<1>4. ASSUME NEW t \in Task, Watches(t) \/ Reads(t) PROVE Reports'
  BY <1>3, <1>4, Kinds DEF Watches, Reads
<1>5. ASSUME NEW e \in Links, Serving(e) PROVE Reports'
  <2>1. UNCHANGED <<task, version, unsaid>>
    BY <1>5 DEF Serving, FollowsGraphics, TakesCommand, Sent
  <2>2. \A d \in Links : /\ link'[d].subscribed = link[d].subscribed /\ link'[d].up = link[d].up
                         /\ link'[d].busy = link[d].busy /\ link'[d].queue = link[d].queue
                         /\ link'[d].inbound = link[d].inbound
    <3>1. CASE FollowsGraphics(e)
      BY <3>1, FollowsGraphicsEffect
    <3>2. CASE TakesCommand(e)
      BY <3>2, TakesCommandEffect
    <3>3. CASE Sent(e)
      BY <3>3, SentEffect
    <3>. QED BY <1>5, <3>1, <3>2, <3>3 DEF Serving
  <2>. QED BY <1>1, <2>1, <2>2
<1>6. ASSUME Toggles PROVE Reports'
  BY <1>1, <1>6, TogglesEffect DEF Toggles
<1>7. ASSUME UNCHANGED vars PROVE Reports'
  BY <1>1, <1>7 DEF vars
<1>8. ASSUME NEW e \in Links, UNCHANGED <<task, version, unsaid>>, \A d \in Links \ {e} : link'[d] = link[d],
             \/ ~ link'[e].subscribed
             \/ /\ link[e].subscribed /\ (link'[e].up => link[e].up)
                /\ \A a \in Coming(link'[e]) : a \in Coming(link[e]) \/ Current(a)
                /\ Envelopes(link[e]) \subseteq Envelopes(link'[e])
      PROVE Reports'
  <2>1. ASSUME NEW d \in Links
        PROVE  \/ ~ link'[d].subscribed
               \/ /\ link[d].subscribed /\ (link'[d].up => link[d].up)
                  /\ \A a \in Coming(link'[d]) : a \in Coming(link[d]) \/ Current(a)
                  /\ Envelopes(link[d]) \subseteq Envelopes(link'[d])
    <3>1. CASE d = e
      BY <1>8, <3>1
    <3>2. CASE d # e
      <4>1. link'[d] = link[d]
        BY <1>8, <3>2
      <4>. QED BY <4>1
    <3>. QED BY <3>1, <3>2
  <2>. QED BY <1>0, <1>8, <2>1, ReportsKept
<1>9. ASSUME NEW e \in Links, HostTakes(e) PROVE Reports'
  <2> DEFINE r == Head(link[e].out)
  <2>1. /\ UNCHANGED <<task, version, unsaid>> /\ \A d \in Links \ {e} : link'[d] = link[d]
        /\ link'[e].subscribed = link[e].subscribed /\ link'[e].up = link[e].up
        /\ link'[e].busy = Response(r) /\ link'[e].queue = link[e].queue
        /\ link'[e].inbound = link[e].inbound
    BY <1>9, HostTakesEffect DEF HostTakes
  <2>2. r \in Request
    BY <1>9, LinkFields, SeqParts DEF HostTakes
  <2>3. Current(Response(r))
    BY <2>2 DEF Current, Response
  <2> HIDE DEF r
  <2>4. /\ Envelopes(link'[e]) = Envelopes(link[e])
        /\ Coming(link'[e]) \subseteq Coming(link[e]) \cup {Response(r)}
    BY <2>1 DEF Coming, Envelopes
  <2>. QED BY <1>8, <2>1, <2>3, <2>4
<1>10. ASSUME NEW e \in Links, HostAnswers(e) PROVE Reports'
  <2>1. /\ UNCHANGED <<task, version, unsaid>> /\ \A d \in Links \ {e} : link'[d] = link[d]
        /\ link'[e].subscribed = link[e].subscribed /\ link'[e].up = link[e].up
        /\ link[e].busy # NoRequest /\ link'[e].busy = NoRequest
        /\ link'[e].queue = Append(link[e].queue, link[e].busy)
        /\ link'[e].inbound = link[e].inbound
    BY <1>10, HostAnswersEffect DEF HostAnswers
  <2>2. link[e].queue \in Seq(Envelope) /\ link[e].busy \in Envelope
    BY <2>1, LinkFields, EnvelopeKinds
  <2>3. Elements(link'[e].queue) = Elements(link[e].queue) \cup {link[e].busy}
    BY <2>1, <2>2, ElementsParts
  <2>4. /\ Envelopes(link[e]) \subseteq Envelopes(link'[e])
        /\ Coming(link'[e]) \subseteq Coming(link[e]) \cup {NoRequest}
    BY <2>1, <2>3 DEF Coming, Envelopes
  <2>. QED BY <1>0, <1>8, <2>1, <2>4 DEF Current
<1>11. ASSUME NEW e \in Links, HostWrites(e) PROVE Reports'
  <2> DEFINE v == Head(link[e].queue)
  <2>1. /\ UNCHANGED <<task, version, unsaid>> /\ \A d \in Links \ {e} : link'[d] = link[d]
        /\ link'[e].subscribed = link[e].subscribed /\ link'[e].up = link[e].up
        /\ link'[e].busy = link[e].busy /\ link[e].queue # <<>>
        /\ link'[e].queue = Tail(link[e].queue) /\ link'[e].inbound = Append(link[e].inbound, v)
    BY <1>11, HostWritesEffect DEF HostWrites
  <2>2. link[e].queue \in Seq(Envelope) /\ link[e].inbound \in Seq(Envelope) /\ v \in Envelope
    BY <2>1, LinkFields, SeqParts
  <2>3. /\ Elements(link'[e].inbound) = Elements(link[e].inbound) \cup {v}
        /\ Elements(link[e].queue) = Elements(link'[e].queue) \cup {v}
    BY <2>1, <2>2, ElementsParts
  <2>4. Envelopes(link[e]) = Envelopes(link'[e]) /\ Coming(link'[e]) = Coming(link[e])
    BY <2>1, <2>3 DEF Coming, Envelopes
  <2>. QED BY <1>8, <2>1, <2>4
<1>12. ASSUME NEW e \in Links, Fails(e) PROVE Reports'
  <2>1. /\ UNCHANGED <<task, version, unsaid>> /\ \A d \in Links \ {e} : link'[d] = link[d]
        /\ link'[e] = Closed
    BY <1>12, ReplacedEffect DEF Fails
  <2>2. ~ Closed.subscribed
    BY DEF Closed
  <2>. QED BY <1>8, <2>1, <2>2
<1>13. ASSUME NEW s \in Task, Makes(s) PROVE Reports'
  <2> DEFINE f == made + 1
  <2>1. f \in Links /\ \A u \in Task : task[u].link # f
    <3>1. made \in Nat /\ f \in Links
      BY <1>13, RoomAssumption DEF Makes, LinkTypes, Links
    <3>2. \A u \in Task : task[u].link \in Nat /\ task[u].link <= made
      BY TaskFields, RoomAssumption DEF ReportInv, MadeLinks
    <3>. QED BY <3>1, <3>2
  <2>2. link'[f] = Fresh /\ (\A d \in Links \ {f} : link'[d] = link[d]) /\ UNCHANGED <<version, unsaid>>
    BY <1>13, <2>1, ReplacedEffect DEF Makes
  <2>3. /\ \A u \in Task \ {s} : task'[u] = task[u]
        /\ task'[s].stage = "unlocked" /\ task[s].stage = "making"
    BY <1>0, <1>13 DEF Makes, Leave, TaskRecord
  <2>4. Coming(Fresh) = {NoRequest}
    <3>1. Fresh.busy = NoRequest /\ Fresh.queue = <<>> /\ Fresh.inbound = <<>>
      BY EmptyParts
    <3>. QED BY <3>1, EmptyElements DEF Coming, Envelopes
  <2> HIDE DEF f
  <2> SUFFICES ASSUME NEW e \in Links, NEW t \in Task, unsaid'[t] = 0, Behind(e, t)'
               PROVE  task'[t].report \/ Event(t) \in Envelopes(link'[e])
    BY DEF Reports, ReportOf, Envelopes, Elements, Event
  <2>5. /\ link'[e].subscribed
        /\ \/ task'[t].stage = "wait" /\ task'[t].link = e /\ link'[e].up /\ task'[t].read # version'[t]
           \/ \E a \in Coming(link'[e]) : a.kind = "get" /\ a.request.task = t /\ a.version # version'[t]
    BY DEF Behind, Coming, Envelopes, Elements
  <2>6. CASE e = f
    <3>1. task'[t].stage = "wait" /\ task'[t].link = e
      BY <1>0, <2>2, <2>4, <2>5, <2>6
    <3>2. t # s
      BY <2>3, <3>1
    <3>. QED BY <2>1, <2>3, <2>6, <3>1, <3>2
  <2>7. CASE e # f
    <3>1. link'[e] = link[e]
      BY <2>2, <2>7
    <3>2. CASE t = s
      <4>1. PICK a \in Coming(link[e]) : a.kind = "get" /\ a.request.task = t
        BY <2>3, <2>5, <3>1, <3>2
      <4>2. task[t].stage = "reading"
        BY <4>1, ComingAsked
      <4>. QED BY <2>3, <3>2, <4>2
    <3>3. CASE t # s
      <4>1. task'[t] = task[t]
        BY <2>3, <3>3
      <4>2. Behind(e, t)
        BY <2>2, <2>5, <3>1, <4>1 DEF Behind
      <4>. QED BY <1>0, <2>2, <3>1, <4>1, <4>2 DEF Reports, ReportOf
    <3>. QED BY <3>2, <3>3
  <2>. QED BY <2>6, <2>7
<1>14. ASSUME NEW s \in Task, HostReports(s) PROVE Reports'
  <2>1. UNCHANGED <<task, version>> /\ \A u \in Task \ {s} : unsaid'[u] = unsaid[u]
    BY <1>14 DEF HostReports, LinkTypes
  <2> SUFFICES ASSUME NEW e \in Links, NEW t \in Task, unsaid'[t] = 0, Behind(e, t)'
               PROVE  task'[t].report \/ Event(t) \in Envelopes(link'[e])
    BY DEF Reports, ReportOf, Envelopes, Elements, Event
  <2>2. /\ link'[e].subscribed
        /\ \/ task'[t].stage = "wait" /\ task'[t].link = e /\ link'[e].up /\ task'[t].read # version'[t]
           \/ \E a \in Coming(link'[e]) : a.kind = "get" /\ a.request.task = t /\ a.version # version'[t]
    BY DEF Behind, Coming, Envelopes, Elements
  <2>3. /\ link[e].subscribed /\ link'[e].queue = Append(link[e].queue, Event(s))
        /\ link'[e].up = link[e].up /\ link'[e].busy = link[e].busy
        /\ link'[e].inbound = link[e].inbound
    BY <1>14, <2>2, HostReportsEffect
  <2>4. Elements(link'[e].queue) = Elements(link[e].queue) \cup {Event(s)}
    BY <2>3, LinkFields, Kinds, ElementsParts
  <2>5. /\ Envelopes(link'[e]) = Envelopes(link[e]) \cup {Event(s)}
        /\ Coming(link'[e]) = Coming(link[e]) \cup {Event(s)}
    BY <2>3, <2>4 DEF Coming, Envelopes
  <2>6. CASE t = s
    BY <2>5, <2>6
  <2>7. CASE t # s
    <3>1. version'[t] = version[t] /\ Event(s).kind # "get"
      BY <2>1, <2>7, Kinds
    <3>2. Behind(e, t)
      BY <2>1, <2>2, <2>3, <2>5, <3>1 DEF Behind
    <3>. QED BY <1>0, <2>1, <2>5, <2>7, <3>2 DEF Reports, ReportOf
  <2>. QED BY <2>6, <2>7
<1>15. ASSUME NEW f \in Links, Receives(f) PROVE Reports'
  <2> DEFINE v == Head(link[f].inbound)
  <2>1. /\ \A d \in Links \ {f} : link'[d] = link[d]
        /\ link'[f].subscribed = link[f].subscribed /\ link'[f].up = link[f].up /\ link[f].up
        /\ link'[f].busy = link[f].busy /\ link'[f].queue = link[f].queue
        /\ link[f].inbound # <<>> /\ link'[f].inbound = Tail(link[f].inbound)
    BY <1>15, ReceivesEffect
  <2>2. UNCHANGED <<version, unsaid>> /\ v \in Envelope
    BY <1>15, ReceivesTasks DEF Receives
  <2>3. Elements(link[f].inbound) = Elements(link'[f].inbound) \cup {v}
    BY <2>1, LinkFields, ElementsParts
  <2>4. /\ Envelopes(link[f]) = Envelopes(link'[f]) \cup {v}
        /\ Coming(link[f]) = Coming(link'[f]) \cup {v}
    BY <2>1, <2>3 DEF Coming, Envelopes
  <2>5. /\ v.kind \in {"event", "get", "watch", "graphics"}
        /\ v.kind \in {"get", "watch"} => v.request.task \in Task
        /\ v.kind = "event" => v.task \in Task /\ v = Event(v.task)
    BY <2>2, EnvelopeKinds, Kinds
  <2>6. ASSUME NEW t \in Task
        PROVE  /\ task'[t].link = task[t].link /\ (task[t].report => task'[t].report)
               /\ \/ task'[t].stage = task[t].stage /\ task'[t].read = task[t].read
                  \/ task'[t].stage # "wait"
                  \/ /\ v.kind = "get" /\ t = v.request.task
                     /\ task'[t].stage = "wait" /\ task'[t].read = v.version
               /\ v.kind = "event" /\ t = v.task /\ t \in link[f].watchers => task'[t].report
    BY <1>15, <2>5, ReceivesTasks
  <2> HIDE DEF v
  <2>7. \A d \in Links : /\ link'[d].subscribed = link[d].subscribed /\ link'[d].up = link[d].up
                         /\ Coming(link'[d]) \subseteq Coming(link[d])
                         /\ d # f => Envelopes(link'[d]) = Envelopes(link[d])
    <3> SUFFICES ASSUME NEW d \in Links
                 PROVE  /\ link'[d].subscribed = link[d].subscribed /\ link'[d].up = link[d].up
                        /\ Coming(link'[d]) \subseteq Coming(link[d])
                        /\ d # f => Envelopes(link'[d]) = Envelopes(link[d])
      OBVIOUS
    <3>1. CASE d = f
      BY <2>1, <2>4, <3>1
    <3>2. CASE d # f
      <4>1. link'[d] = link[d]
        BY <2>1, <3>2
      <4>. QED BY <4>1
    <3>. QED BY <3>1, <3>2
  <2> SUFFICES ASSUME NEW e \in Links, NEW t \in Task, unsaid'[t] = 0, Behind(e, t)'
               PROVE  task'[t].report \/ Event(t) \in Envelopes(link'[e])
    BY DEF Reports, ReportOf, Envelopes, Elements, Event
  <2>8. /\ link'[e].subscribed
        /\ \/ task'[t].stage = "wait" /\ task'[t].link = e /\ link'[e].up /\ task'[t].read # version'[t]
           \/ \E a \in Coming(link'[e]) : a.kind = "get" /\ a.request.task = t /\ a.version # version'[t]
    BY DEF Behind, Coming, Envelopes, Elements
  <2>9. Behind(e, t)
    <3>1. CASE \E a \in Coming(link'[e]) : a.kind = "get" /\ a.request.task = t /\ a.version # version'[t]
      BY <2>2, <2>7, <2>8, <3>1 DEF Behind
    <3>2. CASE task'[t].stage = "wait" /\ task'[t].link = e /\ link'[e].up /\ task'[t].read # version'[t]
      <4>1. CASE task'[t].stage = task[t].stage /\ task'[t].read = task[t].read
        BY <2>2, <2>6, <2>7, <2>8, <3>2, <4>1 DEF Behind
      <4>2. CASE v.kind = "get" /\ t = v.request.task /\ task'[t].read = v.version
        <5>1. v \in Coming(link[f])
          BY <2>4
        <5>2. task[t].link = f
          BY <4>2, <5>1, ComingAsked
        <5>3. e = f
          BY <2>6, <3>2, <5>2
        <5>. QED BY <2>2, <2>7, <2>8, <3>2, <4>2, <5>1, <5>3 DEF Behind
      <4>. QED BY <2>6, <3>2, <4>1, <4>2
    <3>. QED BY <2>8, <3>1, <3>2
  <2>10. task[t].report \/ Event(t) \in Envelopes(link[e])
    BY <1>0, <2>2, <2>9 DEF Reports, ReportOf
  <2>11. t \in link[e].watchers
    BY <1>0, <2>9, BehindWatched
  <2>12. CASE task[t].report
    BY <2>6, <2>12
  <2>13. CASE Event(t) \in Envelopes(link[e])
    <3>1. CASE e # f
      BY <2>7, <2>13, <3>1
    <3>2. CASE e = f /\ Event(t) # v
      BY <2>4, <2>13, <3>2
    <3>3. CASE e = f /\ Event(t) = v
      <4>1. v.kind = "event" /\ v.task = t
        BY <3>3, Kinds
      <4>. QED BY <2>6, <2>11, <3>3, <4>1
    <3>. QED BY <3>1, <3>2, <3>3
  <2>. QED BY <2>10, <2>12, <2>13
<1>16. ASSUME NEW s \in Task, HostChanges(s) PROVE Reports'
  <2>1. /\ UNCHANGED <<task, link>> /\ unsaid'[s] > 0
        /\ \A u \in Task \ {s} : version'[u] = version[u] /\ unsaid'[u] = unsaid[u]
    BY <1>16 DEF HostChanges, LinkTypes
  <2> SUFFICES ASSUME NEW e \in Links, NEW t \in Task, unsaid'[t] = 0, Behind(e, t)'
               PROVE  task'[t].report \/ Event(t) \in Envelopes(link'[e])
    BY DEF Reports, ReportOf, Envelopes, Elements, Event
  <2>2. t # s
    BY <2>1
  <2>3. Behind(e, t)
    BY <2>1, <2>2 DEF Behind, Coming, Envelopes, Elements
  <2>. QED BY <1>0, <2>1, <2>2, <2>3 DEF Reports, ReportOf
<1>. QED BY <1>2, <1>4, <1>5, <1>6, <1>7, <1>9, <1>10, <1>11, <1>12, <1>13, <1>14, <1>15, <1>16
         DEF Next, Connecting, Pumping, Hosting
-----------------------------------------------------------------------------
(* The specification *)

\* The initial states satisfy the invariant.
LEMMA InitInv == Init => HostLinkInv
<1> SUFFICES ASSUME Init PROVE HostLinkInv
  OBVIOUS
<1>1. /\ \A e \in Links : link[e] = Closed
      /\ \A t \in Task : /\ task[t].stage = "start" /\ task[t].link = 0 /\ task[t].report = FALSE
      /\ open = 0 /\ made = 0 /\ gate = 0 /\ graphics = FALSE
      /\ budget.toggles = 0
  BY DEF Init
<1>2. LinkTypes
  <2>1. link \in [Links -> LinkRecord]
    BY ClosedTypes DEF Init
  <2>2. task \in [Task -> TaskRecord]
    BY RoomAssumption DEF Init, TaskRecord, Stages
  <2>3. /\ version \in [Task -> Nat] /\ unsaid \in [Task -> Nat]
        /\ budget \in [changes : Nat, toggles : Nat, faults : Nat]
    BY DEF Init
  <2>4. gate \in Nat /\ open \in 0 .. MaxLinks /\ made \in 0 .. MaxLinks
    BY RoomAssumption DEF Init
  <2>5. graphics \in BOOLEAN
    BY DEF Init
  <2>. QED BY <2>1, <2>2, <2>3, <2>4, <2>5 DEF LinkTypes
<1>3. MakerInv
  BY <1>1 DEF MakerInv, HoldsTheGate, OneMaker
<1>4. /\ Closed.out = <<>> /\ Closed.hostGraphics = FALSE /\ Closed.told = FALSE
      /\ Closed.busy = NoRequest /\ Closed.queue = <<>> /\ Closed.inbound = <<>>
  BY EmptyParts
<1>5. Closed.up = FALSE /\ Closed.subscribed = FALSE
  BY DEF Closed
<1> HIDE DEF Closed
<1>6. SettingInv
  <2>1. SettingsIn(<<>>) = {}
    <3>1. DOMAIN <<>> = {}
      OBVIOUS
    <3>. QED BY <3>1 DEF SettingsIn
  <2>. QED BY <1>1, <1>4, <1>5, <2>1 DEF SettingInv, DownIsClosed, LastSent, SendsSetting
<1>7. FlightInv
  <2>1. \A e \in Links : FlightOf(link[e], budget.toggles) /\ Pending(link[e]) = {NoRequest}
    BY <1>1, EmptyFlight
  <2>2. WaitedFor
    BY <2>1, Kinds DEF WaitedFor
  <2>. QED BY <2>1, <2>2, FlightParts
<1>8. ReportInv
  <2>1. MadeLinks
    BY <1>1 DEF MadeLinks
  <2>2. Registered
    <3>1. \A t \in Task, e \in Links : Enrols(link[e], t)
      BY <1>1, EmptyEnrols
    <3>. QED BY <1>1, <3>1 DEF Registered, IsOpen
  <2>3. Reports
    BY <1>1, <1>5 DEF Reports, ReportOf, Behind
  <2>. QED BY <2>1, <2>2, <2>3 DEF ReportInv
<1>. QED BY <1>2, <1>3, <1>6, <1>7, <1>8 DEF HostLinkInv

\* Every step keeps it.
LEMMA InvStep == HostLinkInv /\ [Next]_vars => HostLinkInv'
<1> SUFFICES ASSUME HostLinkInv, [Next]_vars PROVE HostLinkInv'
  OBVIOUS
<1>1. LinkTypes /\ MakerInv /\ SettingInv /\ FlightInv /\ ReportInv
  BY DEF HostLinkInv
<1>2. LinkTypes' /\ MakerInv' /\ SettingInv' /\ FlightInv'
  BY <1>1, LinkTypesStep, MakerStep, SettingStep, FlightStep
<1>3. ReportInv'
  <2>1. MadeLinks'
    BY <1>1, MadeStep DEF ReportInv
  <2>2. Registered'
    BY <1>1, RegisteredStep DEF ReportInv
  <2>3. Reports'
    BY <1>1, ReportsStep
  <2>. QED BY <2>1, <2>2, <2>3 DEF ReportInv
<1>. QED BY <1>2, <1>3 DEF HostLinkInv

\* The invariant of the connection to a host: who makes it, what the host hears of
\* host graphics, where each request in flight is and who waits for it, and that a
\* pump that is behind is due a report (RemoteHosts::connect, serve_host,
\* pump_changes).
THEOREM InvHolds == Spec => []HostLinkInv
<1>1. Init => HostLinkInv
  BY InitInv
<1>2. HostLinkInv /\ [Next]_vars => HostLinkInv'
  BY InvStep
<1>. QED BY <1>1, <1>2, PTL DEF Spec

\* For any number of tasks that reach a host at once, fail or are cancelled, the
\* connection in the table is not replaced while it works (RemoteHosts::connect,
\* GateCleanup::drop).
THEOREM OpenIsKept == Spec => OpenNotReplaced
<1>1. HostLinkInv /\ [Next]_vars => [open' # open => ~ IsOpen(open)]_vars
  <2> SUFFICES ASSUME HostLinkInv, [Next]_vars, open' # open PROVE ~ IsOpen(open)
    OBVIOUS
  <2>1. PICK t \in Task : Makes(t)
    BY DEF Next, Connecting, Pumping, Serving, Hosting, Looks, Clones, Locks, CleansUp, Leaves,
           GivesUp, Watches, Reads, Sends, TakesReport, NoticesLoss, Toggles, FollowsGraphics,
           TakesCommand, Sent, Receives, Fails, HostTakes, HostAnswers, HostWrites, HostChanges, HostReports, vars
  <2>. QED BY <2>1 DEF Makes, HostLinkInv, MakerInv, OneMaker
<1>. QED BY <1>1, InvHolds, PTL DEF Spec, OpenNotReplaced

\* However often host graphics change, and on whichever connection, the last a
\* host hears is what they are (serve_host, set_host_graphics).
THEOREM GraphicsReachHosts == Spec => []HostHearsGraphics
<1>1. ASSUME LinkTypes, SettingInv PROVE HostHearsGraphics
  <2> SUFFICES ASSUME NEW e \in Links, link[e].up, ~ link[e].stale
               PROVE  /\ Settings(e) = {} => link[e].hostGraphics = graphics
                      /\ \A i \in Settings(e) :
                            (\A j \in Settings(e) : j <= i) => Said(e)[i].value = graphics
    BY DEF HostHearsGraphics
  <2> DEFINE o == link[e].out
             s == link[e].sending
             R == Request \cup {NoRequest}
  <2>1. o \in Seq(R) /\ s \in R
    <3>1. o \in Seq(Request) /\ s \in R
      BY <1>1, LinkFields
    <3>. QED BY <3>1
  <2>2. SettingOf(e)
    BY <1>1, SettingParts
  <2> HIDE DEF R
  <2>3. /\ Len(o) \in Nat /\ DOMAIN o = 1 .. Len(o) /\ DOMAIN Said(e) = 1 .. Len(o) + 1
        /\ Said(e)[Len(o) + 1] = s /\ \A i \in 1 .. Len(o) : Said(e)[i] = o[i]
    BY <2>1, SeqParts DEF Said
  <2> HIDE DEF o, s
  <2>4. CASE s.kind = "graphics"
    <3>1. s.value = graphics
      BY <2>2, <2>4 DEF SettingOf, s
    <3>2. Len(o) + 1 \in Settings(e)
      BY <2>3, <2>4 DEF Settings
    <3>3. \A i \in Settings(e) : (\A j \in Settings(e) : j <= i) => i = Len(o) + 1
      <4> SUFFICES ASSUME NEW i \in Settings(e), \A j \in Settings(e) : j <= i
                   PROVE  i = Len(o) + 1
        OBVIOUS
      <4>1. i \in 1 .. Len(o) + 1 /\ Len(o) + 1 <= i
        BY <2>3, <3>2 DEF Settings
      <4>. QED BY <2>3, <4>1
    <3>. QED BY <2>3, <3>1, <3>2, <3>3
  <2>5. CASE s.kind # "graphics"
    <3>1. link[e].told = graphics
      BY <2>2, <2>5 DEF SettingOf, s
    <3>2. Settings(e) = SettingsIn(o) /\ \A i \in SettingsIn(o) : Said(e)[i] = o[i]
      BY <2>3, <2>5 DEF Settings, SettingsIn
    <3>. QED BY <2>2, <3>1, <3>2 DEF SettingOf, o
  <2>. QED BY <2>4, <2>5
<1>. QED BY <1>1, InvHolds, PTL DEF HostLinkInv

\* A pump that waits has read what its buffer last was, or its report is there, on
\* its way or about to be made, unless the host dropped the subscription
\* (pump_changes, serve_host).
THEOREM ChangesAreReported == Spec => []ChangeIsReported
<1>1. ASSUME LinkTypes, ReportInv PROVE ChangeIsReported
  <2> SUFFICES ASSUME NEW t \in Task, task[t].stage = "wait", IsOpen(task[t].link),
                      link[task[t].link].subscribed, task[t].read # version[t]
               PROVE  task[t].report \/ OnTheWay(task[t].link, t) \/ unsaid[t] > 0
    BY DEF ChangeIsReported
  <2> DEFINE e == task[t].link
  <2>1. e \in Links /\ link[e].up
    BY <1>1, TaskFields, RoomAssumption DEF IsOpen, Links
  <2>2. Behind(e, t)
    BY <2>1 DEF Behind
  <2>3. task[t].report \/ Event(t) \in Envelopes(link[e]) \/ unsaid[t] > 0
    BY <1>1, <2>1, <2>2 DEF ReportInv, Reports, ReportOf, LinkTypes
  <2>. QED BY <2>3 DEF Envelopes, Elements, OnTheWay
<1>. QED BY <1>1, InvHolds, PTL DEF HostLinkInv

\* What a connection holds on its way to the host is in flight; one more that the
\* host has taken makes at least as many in flight as there are places and one.
LEMMA PipeIsInFlight ==
    ASSUME LinkTypes, FlightInv, NEW e \in Links, link[e].busy # NoRequest
    PROVE  Cardinality(link[e].inFlight) > Len(link[e].out)
<1> DEFINE o == link[e].out
           n == Len(o)
           F == link[e].inFlight
           b == link[e].busy.request
<1>1. /\ o \in Seq(Request) /\ InPlace(link[e]) /\ IsFiniteSet(F)
  BY LinkFields DEF FlightInv, InOnePlace, SendsNew, New
<1>2. Injective(o) /\ Elements(o) \subseteq F /\ b \in F /\ b \notin Elements(o)
  BY <1>1 DEF InPlace, Busy
<1>3. n \in Nat /\ DOMAIN o = 1 .. n
  BY <1>1, SeqParts
<1> DEFINE S == 1 .. n
           T == F \ {b}
           g == [i \in S |-> o[i]]
<1>4. IsFiniteSet(S) /\ Cardinality(S) = n
  BY <1>3, FS_Interval
<1>5. IsFiniteSet(T) /\ Cardinality(T) = Cardinality(F) - 1
  BY <1>1, <1>2, FS_RemoveElement
<1>6. Cardinality(F) \in Nat /\ Cardinality(T) \in Nat
  BY <1>1, <1>5, FS_CardinalityType
<1>7. \A i \in S : o[i] \in T
  BY <1>2, <1>3 DEF Elements
<1>8. g \in [S -> T] /\ \A i, j \in S : g[i] = g[j] => i = j
  BY <1>2, <1>3, <1>7 DEF Injective
<1> HIDE DEF S, T, g, n, F, b, o
<1>9. ~ (Cardinality(T) < Cardinality(S))
  BY <1>4, <1>5, <1>8, FS_PigeonHole
<1>10. Cardinality(T) >= n
  BY <1>3, <1>4, <1>6, <1>9
<1>. QED BY <1>3, <1>5, <1>6, <1>10 DEF n, F, o

\* Where the requests in flight at the bound fit into the pipe to the host, the
\* connection and the host never both wait for the other to read
\* (MAX_REQUESTS_IN_FLIGHT in remote.rs).
THEOREM NoMutualWait ==
    ASSUME MaxInFlight <= OutRoom + 1
    PROVE  Spec => []NeverBothWait
<1>1. ASSUME LinkTypes, FlightInv PROVE NeverBothWait
  <2> SUFFICES ASSUME NEW e \in Links, link[e].sending # NoRequest, Len(link[e].out) = OutRoom,
                      link[e].busy # NoRequest
               PROVE  FALSE
    BY DEF NeverBothWait
  <2>1. Cardinality(link[e].inFlight) > OutRoom
    BY <1>1, PipeIsInFlight
  <2>2. Cardinality(link[e].inFlight) < MaxInFlight
    BY <1>1 DEF FlightInv, SendsNew, New
  <2>3. Cardinality(link[e].inFlight) \in Nat /\ MaxInFlight \in Nat /\ OutRoom \in Nat
    BY <1>1, FS_CardinalityType, RoomAssumption DEF FlightInv, SendsNew, New
  <2>. QED BY <1>1, <2>1, <2>2, <2>3
<1>. QED BY <1>1, InvHolds, PTL DEF HostLinkInv
=============================================================================
