------------------------ MODULE CardEmulation_proofs ------------------------
(***************************************************************************)
(* Proofs about card emulation, for any number of AIDs, calls, crashes and *)
(* exchanges, and with queues of any length.                               *)
(*                                                                         *)
(* The calls of hce_do_register() and of the removals wait in a queue, so  *)
(* what nfcd has is seldom what the table of profiles says; the invariant  *)
(* says that the last call on its way about an AID, or about the mode,     *)
(* will make it so.                                                        *)
(*   CallInv   A luna call that waits has at most one RegisterLocalHostApp *)
(*             out or answered, and no other call has one.                 *)
(*   OpInv     The table and the last call about an AID agree.             *)
(*   ModeInv   As long as there is a profile, the last call about the mode *)
(*             is a request.                                               *)
(*   AddInv    The last call about the AID of a profile registers it.      *)
(*   RouteInv  With callers that wait, the AID of a profile is registered  *)
(*             under its flag or not at all, and the client knows or will  *)
(*             be told when it is; any other AID is not, once what is on   *)
(*             its way is served.                                          *)
(* The last three hold until nfcd crashes, and say which assumption about  *)
(* callers and nfcd each needs; the runs show that it does.                *)
(***************************************************************************)
EXTENDS CardEmulation, QueueLemmas, FiniteSetTheorems

-----------------------------------------------------------------------------
(* Kinds of calls and messages.                                            *)

RequestCalls == {q \in BusCalls : q.op = "request_mode"}
ModeCalls == {q \in BusCalls : q.op \in {"request_mode", "release_mode"}}

\* The calls that register an AID: all, those of an AID, of a luna call, of an
\* AID under a flag, and of an AID for a profile that is not the g-th.
Registers == {q \in BusCalls : q.op = "register"}
RegistersAid(a) == {q \in Registers : q.aid = a}
RegistersFor(n) == {q \in Registers : q.call = n}
RegistersAs(a, f) == {q \in RegistersAid(a) : q.flag = f}
RegistersOther(a, g) == {q \in RegistersAid(a) : q.gen # g}

Unregisters(a) == {q \in BusCalls : q.op = "unregister" /\ q.aid = a}
AidCalls(a) == RegistersAid(a) \union Unregisters(a)

\* The answers to them.
Registered == {m \in BusMessages : m.op = "register"}
RegisteredFor(n) == {m \in Registered : m.call = n}
RegisteredOk(a) == {m \in Registered : m.aid = a /\ m.ok = TRUE}
RegisteredOther(a, g) == {m \in Registered : m.aid = a /\ m.gen # g}

Owner == {m \in BusMessages : m.op \in {"vanished", "daemon_ready"}}

-----------------------------------------------------------------------------
(* The invariant.                                                          *)

\* Until a crash nothing changes between the client and nfcd.
LinkInv ==
  /\ rw # 0 => rw \in modes
  /\ crashes = 0 => /\ up = TRUE /\ proxied = TRUE /\ daemon = TRUE
                    /\ Free(inbox, Owner)

\* The register call of luna call n, or its answer, is on its way at most once,
\* and only while the caller waits.
CallInv ==
  /\ \A n \in 1..MaxCalls : n > ncalls => calls[n].state = "idle"
  /\ \A n \in 1..MaxCalls :
       /\ Single(reqs, RegistersFor(n)) /\ Single(inbox, RegisteredFor(n))
       /\ Free(reqs, RegistersFor(n)) \/ Free(inbox, RegisteredFor(n))
       /\ calls[n].state # "pending" =>
            Free(reqs, RegistersFor(n)) /\ Free(inbox, RegisteredFor(n))

\* The profile of an AID is there after an add that has not failed, and gone
\* after a remove or clear.
OpInv ==
  \A a \in Aids :
    /\ lastop[a] \in 0..ncalls
    /\ lastop[a] # 0 =>
         /\ calls[lastop[a]].op = "add" /\ calls[lastop[a]].state \in {"pending", "ok"}
              => Present(a)
         /\ calls[lastop[a]].op \in {"remove", "clear"} => ~Present(a)

ModeInv ==
  crashes = 0 /\ (\E a \in Aids : Present(a)) =>
    \/ LastIn(reqs, ModeCalls, RequestCalls)
    \/ Free(reqs, ModeCalls) /\ modes \ {rw} # {}

AddInv ==
  crashes = 0 /\ ~MayReject => \A a \in Aids :
    Present(a) => \/ LastIn(reqs, AidCalls(a), RegistersAid(a))
                  \/ Free(reqs, AidCalls(a)) /\ regs[a] # "no"

\* With callers that wait, one registration at a time is on its way, and it is
\* for the profile that is in the table.
WaitInv ==
  ~Overlap =>
    /\ Single(reqs, Registers)
    /\ \A a \in Aids : /\ Free(reqs, RegistersOther(a, hce_profiles[a].gen))
                       /\ Free(inbox, RegisteredOther(a, hce_profiles[a].gen))

\* a is registered next, after it has been unregistered.
RegisteredNext(a) ==
  /\ LastIn(reqs, AidCalls(a), RegistersAs(a, Flag(hce_profiles[a].implicit)))
  /\ regs[a] = "no" \/ ~Free(reqs, Unregisters(a))

\* a is registered under its flag, and the client knows or is told, or it is not.
RoutedNow(a) ==
  /\ Free(reqs, AidCalls(a))
  /\ regs[a] # "no" =>
       /\ regs[a] = Flag(hce_profiles[a].implicit)
       /\ hce_profiles[a].registered = TRUE \/ ~Free(inbox, RegisteredOk(a))

\* a is not registered, once what is on its way is served.
NotRouted(a) ==
  \/ LastIn(reqs, AidCalls(a), Unregisters(a))
  \/ Free(reqs, AidCalls(a)) /\ regs[a] = "no"

RouteInv ==
  crashes = 0 /\ ~Overlap => \A a \in Aids :
    /\ Present(a) => RegisteredNext(a) \/ RoutedNow(a)
    /\ ~Present(a) => NotRouted(a)

HceInv ==
  /\ TypeOK /\ LinkInv /\ CallInv /\ OpInv
  /\ ModeInv /\ AddInv /\ WaitInv /\ RouteInv

-----------------------------------------------------------------------------
(* Membership of the kinds, the queues after one more call or message.     *)

\* The kinds that call q, or message m, is of.
CallKind(q) ==
  /\ q \in RequestCalls <=> q.op = "request_mode"
  /\ q \in ModeCalls <=> q.op \in {"request_mode", "release_mode"}
  /\ q \in Registers <=> q.op = "register"
  /\ \A a : q \in RegistersAid(a) <=> q.op = "register" /\ q.aid = a
  /\ \A n : q \in RegistersFor(n) <=> q.op = "register" /\ q.call = n
  /\ \A a, f : q \in RegistersAs(a, f) <=> q.op = "register" /\ q.aid = a /\ q.flag = f
  /\ \A a, g : q \in RegistersOther(a, g) <=> q.op = "register" /\ q.aid = a /\ q.gen # g
  /\ \A a : q \in Unregisters(a) <=> q.op = "unregister" /\ q.aid = a
  /\ \A a : q \in AidCalls(a) <=> q.op \in {"register", "unregister"} /\ q.aid = a
MessageKind(m) ==
  /\ m \in Registered <=> m.op = "register"
  /\ \A n : m \in RegisteredFor(n) <=> m.op = "register" /\ m.call = n
  /\ \A a : m \in RegisteredOk(a) <=> m.op = "register" /\ m.aid = a /\ m.ok = TRUE
  /\ \A a, g : m \in RegisteredOther(a, g) <=> m.op = "register" /\ m.aid = a /\ m.gen # g
  /\ m \in Owner <=> m.op \in {"vanished", "daemon_ready"}

LEMMA Kinds ==
  /\ \A q \in BusCalls : CallKind(q)
  /\ \A m \in BusMessages : MessageKind(m)
<1>1. ASSUME NEW q \in BusCalls PROVE CallKind(q)
  BY DEF CallKind, RequestCalls, ModeCalls, Registers, RegistersAid, RegistersFor,
         RegistersAs, RegistersOther, Unregisters, AidCalls
<1>2. ASSUME NEW m \in BusMessages PROVE MessageKind(m)
  BY DEF MessageKind, Registered, RegisteredFor, RegisteredOk, RegisteredOther, Owner
<1> QED
  BY <1>1, <1>2

\* What the calls and messages are, field by field.
LEMMA CallFields ==
  ASSUME NEW q \in BusCalls
  PROVE  /\ q.op \in {"request_mode", "register", "unregister", "release_mode"}
         /\ q.aid \in Aids \union {None} /\ q.flag \in {"no", "plain", "implicit"}
         /\ q.call \in 0..MaxCalls /\ q.gen \in 0..MaxCalls /\ q.id \in ModeIds \union {0}
         /\ q.op \in {"register", "unregister"} => q.aid \in Aids
         /\ q.op = "register" => q.flag # "no" /\ q.call # 0 /\ q.gen # 0
BY DEF BusCalls

LEMMA MessageFields ==
  ASSUME NEW m \in BusMessages
  PROVE  /\ m.op \in {"vanished", "daemon_ready", "request_mode", "register"}
         /\ m.aid \in Aids \union {None} /\ m.call \in 0..MaxCalls
         /\ m.gen \in 0..MaxCalls /\ m.id \in ModeIds \union {0} /\ m.ok \in BOOLEAN
         /\ m.op = "register" => m.aid \in Aids /\ m.call # 0 /\ m.gen # 0
BY DEF BusMessages

\* Message m comes: the kinds it is not of are as they were.
LEMMA MessageSent ==
  ASSUME inbox \in Seq(BusMessages), NEW m \in BusMessages, inbox' = Append(inbox, m)
  PROVE  /\ inbox' \in Seq(BusMessages) /\ MessageKind(m)
         /\ \A C : Free(inbox', C) <=> Free(inbox, C) /\ m \notin C
         /\ \A C : Single(inbox, C) /\ (m \notin C \/ Free(inbox, C)) => Single(inbox', C)
<1>1. inbox' \in Seq(BusMessages) /\ Pushed(inbox', inbox, m)
  BY Appended, AppendedKinds
<1>2. \A C : Single(inbox, C) /\ (m \notin C \/ Free(inbox, C)) => Single(inbox', C)
  BY AppendedSingle
<1> QED
  BY <1>1, <1>2, Kinds DEF Pushed

\* The oldest message is taken.
LEMMA MessageTaken ==
  ASSUME inbox \in Seq(BusMessages), inbox # <<>>, inbox' = Tail(inbox)
  PROVE  /\ inbox' \in Seq(BusMessages)
         /\ Head(inbox) \in BusMessages /\ MessageKind(Head(inbox))
         /\ \A C : Free(inbox, C) <=> Head(inbox) \notin C /\ Free(inbox', C)
         /\ \A C : Single(inbox, C) =>
              Single(inbox', C) /\ (Head(inbox) \in C => Free(inbox', C))
<1>1. inbox' \in Seq(BusMessages) /\ Head(inbox) \in BusMessages
  BY Taken
<1>2. Popped(inbox', inbox, Head(inbox))
  BY TakenKinds
<1>3. \A C : Single(inbox, C) =>
        Single(inbox', C) /\ (Head(inbox) \in C => Free(inbox', C))
  BY TakenSingle
<1> QED
  BY <1>1, <1>2, <1>3, Kinds DEF Popped

\* nfcd takes the oldest call.
LEMMA CallTaken ==
  ASSUME reqs \in Seq(BusCalls), reqs # <<>>, reqs' = Tail(reqs)
  PROVE  /\ reqs' \in Seq(BusCalls)
         /\ Head(reqs) \in BusCalls /\ CallKind(Head(reqs))
         /\ Popped(reqs', reqs, Head(reqs))
         /\ \A C : Single(reqs, C) =>
              Single(reqs', C) /\ (Head(reqs) \in C => Free(reqs', C))
<1>1. reqs' \in Seq(BusCalls) /\ Head(reqs) \in BusCalls
  BY Taken
<1>2. Popped(reqs', reqs, Head(reqs))
  BY TakenKinds
<1>3. \A C : Single(reqs, C) =>
        Single(reqs', C) /\ (Head(reqs) \in C => Free(reqs', C))
  BY TakenSingle
<1> QED
  BY <1>1, <1>2, <1>3, Kinds

-----------------------------------------------------------------------------
(* nfcd serves a call.                                                     *)

\* Serving leaves the client and its callers alone.
LEMMA Served ==
  ASSUME HceInv, Serve
  PROVE  /\ reqs \in Seq(BusCalls) /\ reqs # <<>> /\ reqs' = Tail(reqs)
         /\ up' = up /\ crashes' = crashes /\ proxied' = proxied /\ daemon' = daemon
         /\ hce_profiles' = hce_profiles /\ hce_mode_request_id' = hce_mode_request_id
         /\ hce_event' = hce_event /\ ncalls' = ncalls /\ calls' = calls
         /\ lastop' = lastop /\ exchanges' = exchanges /\ exchange' = exchange
         /\ OpInv'
<1>1. /\ reqs \in Seq(BusCalls) /\ reqs # <<>> /\ reqs' = Tail(reqs)
      /\ up' = up /\ crashes' = crashes /\ proxied' = proxied /\ daemon' = daemon
      /\ hce_profiles' = hce_profiles /\ hce_mode_request_id' = hce_mode_request_id
      /\ hce_event' = hce_event /\ ncalls' = ncalls /\ calls' = calls
      /\ lastop' = lastop /\ exchanges' = exchanges /\ exchange' = exchange
  BY DEF HceInv, TypeOK, Serve, hceVars, callVars, readerVars
<1>2. OpInv'
  BY <1>1 DEF HceInv, OpInv, Present
<1> QED
  BY <1>1, <1>2

LEMMA ServeRequestModeStep ==
  ASSUME HceInv, Serve, ServeRequestMode(Head(reqs))
  PROVE  HceInv'
<1> DEFINE q == Head(reqs)
<1>1. /\ reqs \in Seq(BusCalls) /\ reqs # <<>> /\ reqs' = Tail(reqs)
      /\ up' = up /\ crashes' = crashes /\ proxied' = proxied /\ daemon' = daemon
      /\ hce_profiles' = hce_profiles /\ hce_mode_request_id' = hce_mode_request_id
      /\ hce_event' = hce_event /\ ncalls' = ncalls /\ calls' = calls
      /\ lastop' = lastop /\ exchanges' = exchanges /\ exchange' = exchange
      /\ OpInv'
  BY Served
<1>2. q.op = "request_mode" /\ regs' = regs /\ rw' = rw
  BY DEF ServeRequestMode
<1>3. /\ reqs' \in Seq(BusCalls) /\ q \in BusCalls /\ CallKind(q) /\ Popped(reqs', reqs, q)
      /\ \A C : Single(reqs, C) => Single(reqs', C)
  BY <1>1, CallTaken
<1>4. PICK id \in ModeIds \union {0}, ok \in BOOLEAN :
        /\ inbox' = Append(inbox, Msg(q.op, q.aid, q.call, q.gen, id, ok))
        /\ up => id \in ModeIds \ modes /\ modes' = modes \union {id}
        /\ ~up => modes' = modes
  BY DEF ServeRequestMode, Answer
<1> DEFINE m == Msg(q.op, q.aid, q.call, q.gen, id, ok)
<1>5. m \in BusMessages /\ m.op = "request_mode"
  BY <1>2, <1>3, CallFields DEF Msg, BusMessages
<1>6. inbox \in Seq(BusMessages) /\ modes \subseteq ModeIds
  BY DEF HceInv, TypeOK
<1> HIDE DEF q, m
<1>7. /\ inbox' \in Seq(BusMessages) /\ MessageKind(m)
      /\ \A C : Free(inbox', C) <=> Free(inbox, C) /\ m \notin C
      /\ \A C : Single(inbox, C) /\ (m \notin C \/ Free(inbox, C)) => Single(inbox', C)
  BY <1>4, <1>5, <1>6, MessageSent DEF m
<1>8. TypeOK'
  <2>1. modes' \subseteq ModeIds
    BY <1>4, <1>6
  <2> QED
    BY <1>1, <1>2, <1>3, <1>7, <2>1 DEF HceInv, TypeOK
<1>9. LinkInv'
  BY <1>1, <1>2, <1>4, <1>5, <1>7 DEF HceInv, LinkInv, MessageKind
<1>10. CallInv'
  <2>1. \A n : /\ q \notin RegistersFor(n) /\ m \notin RegisteredFor(n)
               /\ Free(reqs', RegistersFor(n)) <=> Free(reqs, RegistersFor(n))
               /\ Free(inbox', RegisteredFor(n)) <=> Free(inbox, RegisteredFor(n))
    BY <1>2, <1>3, <1>5, <1>7 DEF CallKind, MessageKind, Popped
  <2> QED
    BY <1>1, <1>3, <1>7, <2>1 DEF HceInv, CallInv
<1>11. ModeInv'
  <2> SUFFICES ASSUME crashes = 0, \E a \in Aids : Present(a),
                      ~LastIn(reqs', ModeCalls, RequestCalls)
               PROVE  Free(reqs', ModeCalls) /\ modes' \ {rw} # {}
    BY <1>1, <1>2 DEF ModeInv, Present
  <2>1. LastIn(reqs, ModeCalls, RequestCalls) \/ Free(reqs, ModeCalls)
    BY DEF HceInv, ModeInv
  <2>2. Free(reqs', ModeCalls)
    BY <1>3, <2>1 DEF Popped
  <2>3. up = TRUE /\ (rw # 0 => rw \in modes)
    BY DEF HceInv, LinkInv
  <2>4. id # rw
    BY <1>4, <2>3, HceAssumption
  <2> QED
    BY <1>4, <2>2, <2>3, <2>4
<1>12. AddInv' /\ WaitInv' /\ RouteInv'
  <2>1. \A a : /\ q \notin AidCalls(a) /\ q \notin Unregisters(a) /\ m \notin RegisteredOk(a)
               /\ \A g : q \notin RegistersOther(a, g) /\ m \notin RegisteredOther(a, g)
    BY <1>2, <1>3, <1>5, <1>7 DEF CallKind, MessageKind
  <2>2. /\ \A C : q \notin C => (Free(reqs', C) <=> Free(reqs, C))
        /\ \A C, V : q \notin C => (LastIn(reqs', C, V) <=> LastIn(reqs, C, V))
    BY <1>3 DEF Popped
  <2>3. AddInv'
    BY <1>1, <1>2, <2>1, <2>2 DEF HceInv, AddInv, Present
  <2>4. WaitInv'
    BY <1>1, <1>3, <1>7, <2>1, <2>2 DEF HceInv, WaitInv
  <2>5. RouteInv'
    BY <1>1, <1>2, <1>7, <2>1, <2>2 DEF HceInv, RouteInv, RegisteredNext, RoutedNow, NotRouted,
       Present
  <2> QED
    BY <2>3, <2>4, <2>5
<1> QED
  BY <1>1, <1>8, <1>9, <1>10, <1>11, <1>12 DEF HceInv

LEMMA ServeRegisterStep ==
  ASSUME HceInv, Serve, ServeRegister(Head(reqs))
  PROVE  HceInv'
<1> DEFINE q == Head(reqs)
<1>1. /\ reqs \in Seq(BusCalls) /\ reqs # <<>> /\ reqs' = Tail(reqs)
      /\ up' = up /\ crashes' = crashes /\ proxied' = proxied /\ daemon' = daemon
      /\ hce_profiles' = hce_profiles /\ hce_mode_request_id' = hce_mode_request_id
      /\ hce_event' = hce_event /\ ncalls' = ncalls /\ calls' = calls
      /\ lastop' = lastop /\ exchanges' = exchanges /\ exchange' = exchange
      /\ OpInv'
  BY Served
<1>2. q.op = "register" /\ modes' = modes /\ rw' = rw
  BY DEF ServeRegister
<1>3. /\ reqs' \in Seq(BusCalls) /\ q \in BusCalls /\ CallKind(q) /\ Popped(reqs', reqs, q)
      /\ \A C : Single(reqs, C) => Single(reqs', C) /\ (q \in C => Free(reqs', C))
  BY <1>1, CallTaken
<1>4. /\ q.aid \in Aids /\ q.flag \in {"plain", "implicit"} /\ q.call \in 1..MaxCalls
      /\ q.gen \in 0..MaxCalls /\ q.gen # 0
  BY <1>2, <1>3, CallFields, HceAssumption
<1>5. PICK ok \in BOOLEAN :
        /\ inbox' = Append(inbox, Msg(q.op, q.aid, q.call, q.gen, 0, ok))
        /\ regs' = IF ok THEN [regs EXCEPT ![q.aid] = q.flag] ELSE regs
        /\ ok => up /\ regs[q.aid] = "no"
        /\ up /\ regs[q.aid] = "no" /\ ~MayReject => ok
  BY HceAssumption DEF ServeRegister, Answer
<1> DEFINE m == Msg(q.op, q.aid, q.call, q.gen, 0, ok)
<1>6. /\ m \in BusMessages /\ m.op = "register" /\ m.aid = q.aid /\ m.call = q.call
      /\ m.gen = q.gen /\ m.ok = ok
  BY <1>2, <1>4 DEF Msg, BusMessages
<1>7. /\ inbox \in Seq(BusMessages) /\ regs \in [Aids -> {"no", "plain", "implicit"}]
  BY DEF HceInv, TypeOK
<1> HIDE DEF q, m
<1>8. /\ inbox' \in Seq(BusMessages) /\ MessageKind(m)
      /\ \A C : Free(inbox', C) <=> Free(inbox, C) /\ m \notin C
      /\ \A C : Single(inbox, C) /\ (m \notin C \/ Free(inbox, C)) => Single(inbox', C)
  BY <1>5, <1>6, <1>7, MessageSent DEF m
<1>9. /\ regs' \in [Aids -> {"no", "plain", "implicit"}]
      /\ \A a \in Aids : a # q.aid => regs'[a] = regs[a]
      /\ ok => regs'[q.aid] = q.flag
      /\ ~ok => regs'[q.aid] = regs[q.aid]
  BY <1>4, <1>5, <1>7
<1>10. TypeOK'
  BY <1>1, <1>2, <1>3, <1>8, <1>9 DEF HceInv, TypeOK
<1>11. LinkInv'
  BY <1>1, <1>2, <1>6, <1>8 DEF HceInv, LinkInv, MessageKind
<1>12. CallInv'
  <2>1. ASSUME NEW n \in 1..MaxCalls, n # q.call
        PROVE  /\ q \notin RegistersFor(n) /\ m \notin RegisteredFor(n)
               /\ Free(reqs', RegistersFor(n)) <=> Free(reqs, RegistersFor(n))
               /\ Free(inbox', RegisteredFor(n)) <=> Free(inbox, RegisteredFor(n))
    BY <1>2, <1>3, <1>6, <1>8, <2>1 DEF CallKind, MessageKind, Popped
  <2>2. q \in RegistersFor(q.call) /\ ~Free(reqs, RegistersFor(q.call))
    BY <1>2, <1>3 DEF CallKind, Popped
  <2>3. /\ calls[q.call].state = "pending" /\ Free(inbox, RegisteredFor(q.call))
        /\ Free(reqs', RegistersFor(q.call))
    BY <1>3, <1>4, <2>2 DEF HceInv, CallInv
  <2>4. ASSUME NEW n \in 1..MaxCalls
        PROVE  /\ Single(reqs', RegistersFor(n)) /\ Single(inbox', RegisteredFor(n))
               /\ Free(reqs', RegistersFor(n)) \/ Free(inbox', RegisteredFor(n))
               /\ calls[n].state # "pending" =>
                    Free(reqs', RegistersFor(n)) /\ Free(inbox', RegisteredFor(n))
    BY <1>3, <1>8, <2>1, <2>3 DEF HceInv, CallInv
  <2> QED
    BY <1>1, <2>4 DEF HceInv, CallInv
<1>13. ModeInv'
  <2>1. q \notin ModeCalls
    BY <1>2, <1>3 DEF CallKind
  <2> QED
    BY <1>1, <1>2, <1>3, <2>1 DEF HceInv, ModeInv, Present, Popped
<1>14. \A a : a # q.aid => /\ q \notin AidCalls(a) /\ q \notin Unregisters(a)
                           /\ Free(reqs', AidCalls(a)) <=> Free(reqs, AidCalls(a))
                           /\ Free(reqs', Unregisters(a)) <=> Free(reqs, Unregisters(a))
                           /\ \A V : LastIn(reqs', AidCalls(a), V) <=>
                                       LastIn(reqs, AidCalls(a), V)
                           /\ Free(inbox', RegisteredOk(a)) <=> Free(inbox, RegisteredOk(a))
  BY <1>2, <1>3, <1>6, <1>8 DEF CallKind, MessageKind, Popped
<1>15. /\ q \in AidCalls(q.aid) /\ q \in RegistersAid(q.aid) /\ q \notin Unregisters(q.aid)
       /\ ~Free(reqs, AidCalls(q.aid))
       /\ \A V : LastIn(reqs, AidCalls(q.aid), V) <=>
            LastIn(reqs', AidCalls(q.aid), V) \/ (q \in V /\ Free(reqs', AidCalls(q.aid)))
       /\ Free(reqs', Unregisters(q.aid)) <=> Free(reqs, Unregisters(q.aid))
  BY <1>2, <1>3 DEF CallKind, Popped
<1>16. AddInv'
  <2> SUFFICES ASSUME crashes = 0, ~MayReject, NEW a \in Aids, Present(a)
               PROVE  \/ LastIn(reqs', AidCalls(a), RegistersAid(a))
                      \/ Free(reqs', AidCalls(a)) /\ regs'[a] # "no"
    BY <1>1 DEF AddInv, Present
  <2>1. \/ LastIn(reqs, AidCalls(a), RegistersAid(a))
        \/ Free(reqs, AidCalls(a)) /\ regs[a] # "no"
    BY DEF HceInv, AddInv
  <2>2. CASE a # q.aid
    BY <1>9, <1>14, <2>1, <2>2
  <2>3. CASE a = q.aid
    <3>1. up = TRUE
      BY DEF HceInv, LinkInv
    <3>2. regs'[a] # "no"
      BY <1>4, <1>5, <1>9, <2>3, <3>1
    <3> QED
      BY <1>15, <2>1, <2>3, <3>2
  <2> QED
    BY <2>2, <2>3
<1>17. WaitInv'
  <2> SUFFICES ASSUME ~Overlap
               PROVE  /\ Single(reqs', Registers)
                      /\ \A a \in Aids :
                           /\ Free(reqs', RegistersOther(a, hce_profiles[a].gen))
                           /\ Free(inbox', RegisteredOther(a, hce_profiles[a].gen))
    BY <1>1 DEF WaitInv
  <2>1. Single(reqs', Registers)
    BY <1>3 DEF HceInv, WaitInv
  <2>2. ASSUME NEW a \in Aids, NEW g, g = hce_profiles[a].gen
        PROVE  Free(reqs', RegistersOther(a, g)) /\ Free(inbox', RegisteredOther(a, g))
    <3>1. Free(reqs, RegistersOther(a, g)) /\ Free(inbox, RegisteredOther(a, g))
      BY <2>2 DEF HceInv, WaitInv
    <3>2. Free(reqs', RegistersOther(a, g)) /\ q \notin RegistersOther(a, g)
      BY <1>3, <3>1 DEF Popped
    <3>3. m \notin RegisteredOther(a, g)
      BY <1>2, <1>3, <1>6, <1>8, <3>2 DEF CallKind, MessageKind
    <3> QED
      BY <1>8, <3>1, <3>2, <3>3
  <2> QED
    BY <2>1, <2>2
<1>18. RouteInv'
  <2> SUFFICES ASSUME crashes = 0, ~Overlap, NEW a \in Aids
               PROVE  /\ Present(a) => RegisteredNext(a)' \/ RoutedNow(a)'
                      /\ ~Present(a) => NotRouted(a)'
    BY <1>1 DEF RouteInv, Present
  <2>1. /\ Present(a) => RegisteredNext(a) \/ RoutedNow(a)
        /\ ~Present(a) => NotRouted(a)
    BY DEF HceInv, RouteInv
  <2>2. CASE a # q.aid
    BY <1>1, <1>9, <1>14, <2>1, <2>2 DEF RegisteredNext, RoutedNow, NotRouted
  <2>3. CASE a = q.aid
    <3>1. Free(reqs', Registers)
      BY <1>2, <1>3 DEF HceInv, WaitInv, CallKind
    <3>2. \A f : ~LastIn(reqs', AidCalls(a), RegistersAs(a, f))
      <4>1. \A f : Free(reqs', RegistersAs(a, f))
        BY <3>1 DEF Free, RegistersAs, RegistersAid
      <4> QED
        BY <4>1, LastNotFree
    <3>3. ASSUME Present(a) PROVE RoutedNow(a)'
      <4>1. RegisteredNext(a)
        BY <1>15, <2>1, <2>3, <3>3 DEF RoutedNow
      <4>2. /\ Free(reqs', AidCalls(a)) /\ q.flag = Flag(hce_profiles[a].implicit)
        BY <1>3, <1>15, <2>3, <3>2, <4>1 DEF RegisteredNext, CallKind
      <4>3. Free(reqs', Unregisters(a))
        BY <4>2 DEF Free, AidCalls
      <4>4. regs[a] = "no"
        BY <1>15, <2>3, <4>1, <4>3 DEF RegisteredNext
      <4>5. ok => ~Free(inbox', RegisteredOk(a))
        BY <1>6, <1>8, <2>3 DEF MessageKind
      <4> QED
        BY <1>1, <1>9, <2>3, <4>2, <4>4, <4>5 DEF RoutedNow
    <3>4. ASSUME ~Present(a) PROVE NotRouted(a)'
      BY <1>15, <2>1, <2>3, <3>4 DEF NotRouted
    <3> QED
      BY <3>3, <3>4
  <2> QED
    BY <2>2, <2>3
<1> QED
  BY <1>1, <1>10, <1>11, <1>12, <1>13, <1>16, <1>17, <1>18 DEF HceInv

\* Nobody is told: the inbox stays, and the callers' part of the invariant.
LEMMA ServeUnregisterStep ==
  ASSUME HceInv, Serve, ServeUnregister(Head(reqs))
  PROVE  HceInv'
<1> DEFINE q == Head(reqs)
<1>1. /\ reqs \in Seq(BusCalls) /\ reqs # <<>> /\ reqs' = Tail(reqs)
      /\ up' = up /\ crashes' = crashes /\ proxied' = proxied /\ daemon' = daemon
      /\ hce_profiles' = hce_profiles /\ hce_mode_request_id' = hce_mode_request_id
      /\ hce_event' = hce_event /\ ncalls' = ncalls /\ calls' = calls
      /\ lastop' = lastop /\ exchanges' = exchanges /\ exchange' = exchange
      /\ OpInv'
  BY Served
<1>2. /\ q.op = "unregister" /\ modes' = modes /\ rw' = rw /\ inbox' = inbox
      /\ regs' = IF up THEN [regs EXCEPT ![q.aid] = "no"] ELSE regs
  BY DEF ServeUnregister
<1>3. /\ reqs' \in Seq(BusCalls) /\ q \in BusCalls /\ CallKind(q) /\ Popped(reqs', reqs, q)
      /\ \A C : Single(reqs, C) => Single(reqs', C)
  BY <1>1, CallTaken
<1>4. q.aid \in Aids /\ regs \in [Aids -> {"no", "plain", "implicit"}]
  BY <1>2, <1>3, CallFields DEF HceInv, TypeOK
<1> HIDE DEF q
<1>5. /\ regs' \in [Aids -> {"no", "plain", "implicit"}]
      /\ \A a \in Aids : a # q.aid => regs'[a] = regs[a]
      /\ up => regs'[q.aid] = "no"
  BY <1>2, <1>4
<1>6. TypeOK' /\ LinkInv'
  BY <1>1, <1>2, <1>3, <1>5 DEF HceInv, TypeOK, LinkInv
<1>7. CallInv' /\ ModeInv' /\ WaitInv'
  <2>1. /\ q \notin ModeCalls /\ \A n : q \notin RegistersFor(n)
        /\ \A a, g : q \notin RegistersOther(a, g)
    BY <1>2, <1>3 DEF CallKind
  <2>2. /\ \A C : q \notin C => (Free(reqs', C) <=> Free(reqs, C))
        /\ \A C, V : q \notin C => (LastIn(reqs', C, V) <=> LastIn(reqs, C, V))
    BY <1>3 DEF Popped
  <2>3. CallInv'
    BY <1>1, <1>2, <1>3, <2>1, <2>2 DEF HceInv, CallInv
  <2>4. ModeInv'
    BY <1>1, <1>2, <2>1, <2>2 DEF HceInv, ModeInv, Present
  <2>5. WaitInv'
    BY <1>1, <1>2, <1>3, <2>1, <2>2 DEF HceInv, WaitInv
  <2> QED
    BY <2>3, <2>4, <2>5
<1>8. \A a : a # q.aid => /\ Free(reqs', AidCalls(a)) <=> Free(reqs, AidCalls(a))
                          /\ Free(reqs', Unregisters(a)) <=> Free(reqs, Unregisters(a))
                          /\ \A V : LastIn(reqs', AidCalls(a), V) <=>
                                      LastIn(reqs, AidCalls(a), V)
  BY <1>2, <1>3 DEF CallKind, Popped
<1>9. /\ q \in AidCalls(q.aid) /\ q \notin RegistersAid(q.aid) /\ ~Free(reqs, AidCalls(q.aid))
      /\ \A f : q \notin RegistersAs(q.aid, f)
      /\ \A V : LastIn(reqs, AidCalls(q.aid), V) <=>
           LastIn(reqs', AidCalls(q.aid), V) \/ (q \in V /\ Free(reqs', AidCalls(q.aid)))
  BY <1>2, <1>3 DEF CallKind, Popped
<1>10. crashes = 0 => up = TRUE
  BY DEF HceInv, LinkInv
<1>11. AddInv'
  <2> SUFFICES ASSUME crashes = 0, ~MayReject, NEW a \in Aids, Present(a)
               PROVE  \/ LastIn(reqs', AidCalls(a), RegistersAid(a))
                      \/ Free(reqs', AidCalls(a)) /\ regs'[a] # "no"
    BY <1>1 DEF AddInv, Present
  <2>1. \/ LastIn(reqs, AidCalls(a), RegistersAid(a))
        \/ Free(reqs, AidCalls(a)) /\ regs[a] # "no"
    BY DEF HceInv, AddInv
  <2>2. CASE a # q.aid
    BY <1>5, <1>8, <2>1, <2>2
  <2>3. CASE a = q.aid
    BY <1>9, <2>1, <2>3
  <2> QED
    BY <2>2, <2>3
<1>12. RouteInv'
  <2> SUFFICES ASSUME crashes = 0, ~Overlap, NEW a \in Aids
               PROVE  /\ Present(a) => RegisteredNext(a)' \/ RoutedNow(a)'
                      /\ ~Present(a) => NotRouted(a)'
    BY <1>1 DEF RouteInv, Present
  <2>1. /\ Present(a) => RegisteredNext(a) \/ RoutedNow(a)
        /\ ~Present(a) => NotRouted(a)
    BY DEF HceInv, RouteInv
  <2>2. CASE a # q.aid
    BY <1>1, <1>2, <1>5, <1>8, <2>1, <2>2 DEF RegisteredNext, RoutedNow, NotRouted
  <2>3. CASE a = q.aid
    BY <1>1, <1>5, <1>9, <1>10, <2>1, <2>3 DEF RegisteredNext, RoutedNow, NotRouted
  <2> QED
    BY <2>2, <2>3
<1> QED
  BY <1>1, <1>6, <1>7, <1>11, <1>12 DEF HceInv

\* The last profile was gone when the mode was given up.
LEMMA ServeReleaseModeStep ==
  ASSUME HceInv, Serve, ServeReleaseMode(Head(reqs))
  PROVE  HceInv'
<1> DEFINE q == Head(reqs)
<1>1. /\ reqs \in Seq(BusCalls) /\ reqs # <<>> /\ reqs' = Tail(reqs)
      /\ up' = up /\ crashes' = crashes /\ proxied' = proxied /\ daemon' = daemon
      /\ hce_profiles' = hce_profiles /\ hce_mode_request_id' = hce_mode_request_id
      /\ hce_event' = hce_event /\ ncalls' = ncalls /\ calls' = calls
      /\ lastop' = lastop /\ exchanges' = exchanges /\ exchange' = exchange
      /\ OpInv'
  BY Served
<1>2. /\ q.op = "release_mode" /\ regs' = regs /\ inbox' = inbox
      /\ modes' = IF up THEN modes \ {q.id} ELSE modes
      /\ rw' = IF up /\ q.id = rw THEN 0 ELSE rw
  BY DEF ServeReleaseMode
<1>3. /\ reqs' \in Seq(BusCalls) /\ q \in BusCalls /\ CallKind(q) /\ Popped(reqs', reqs, q)
      /\ \A C : Single(reqs, C) => Single(reqs', C)
  BY <1>1, CallTaken
<1> HIDE DEF q
<1>4. TypeOK'
  <2>1. modes' \subseteq ModeIds /\ rw' \in ModeIds \union {0}
    BY <1>2 DEF HceInv, TypeOK
  <2> QED
    BY <1>1, <1>2, <1>3, <2>1 DEF HceInv, TypeOK
<1>5. LinkInv'
  BY <1>1, <1>2 DEF HceInv, LinkInv
<1>6. /\ q \in ModeCalls /\ q \notin RequestCalls /\ \A n : q \notin RegistersFor(n)
      /\ \A a : q \notin AidCalls(a) /\ q \notin Unregisters(a)
      /\ \A a, g : q \notin RegistersOther(a, g)
  BY <1>2, <1>3 DEF CallKind
<1>7. /\ \A C : q \notin C => (Free(reqs', C) <=> Free(reqs, C))
      /\ \A C, V : q \notin C => (LastIn(reqs', C, V) <=> LastIn(reqs, C, V))
  BY <1>3 DEF Popped
<1>8. CallInv'
  BY <1>1, <1>2, <1>3, <1>6, <1>7 DEF HceInv, CallInv
<1>9. ModeInv'
  <2>1. ~Free(reqs, ModeCalls)
    BY <1>3, <1>6 DEF Popped
  <2>2. LastIn(reqs, ModeCalls, RequestCalls) => LastIn(reqs', ModeCalls, RequestCalls)
    BY <1>3, <1>6 DEF Popped
  <2> QED
    BY <1>1, <2>1, <2>2 DEF HceInv, ModeInv, Present
<1>10. AddInv'
  BY <1>1, <1>2, <1>6, <1>7 DEF HceInv, AddInv, Present
<1>11. WaitInv'
  BY <1>1, <1>2, <1>3, <1>6, <1>7 DEF HceInv, WaitInv
<1>12. RouteInv'
  BY <1>1, <1>2, <1>6, <1>7 DEF HceInv, RouteInv, RegisteredNext, RoutedNow, NotRouted, Present
<1> QED
  BY <1>1, <1>4, <1>5, <1>8, <1>9, <1>10, <1>11, <1>12 DEF HceInv

LEMMA ServeStep ==
  ASSUME HceInv, Serve
  PROVE  HceInv'
BY ServeRequestModeStep, ServeRegisterStep, ServeUnregisterStep, ServeReleaseModeStep
   DEF Serve

-----------------------------------------------------------------------------
(* The main loop handles a message.                                        *)

LEMMA Dispatched ==
  ASSUME HceInv, NEW op, Dispatch(op)
  PROVE  /\ Head(inbox) \in BusMessages /\ Head(inbox).op = op /\ MessageKind(Head(inbox))
         /\ inbox' \in Seq(BusMessages)
         /\ \A C : Free(inbox, C) <=> Head(inbox) \notin C /\ Free(inbox', C)
         /\ \A C : Single(inbox, C) =>
              Single(inbox', C) /\ (Head(inbox) \in C => Free(inbox', C))
         /\ up' = up /\ crashes' = crashes /\ proxied' = proxied /\ regs' = regs
         /\ modes' = modes /\ rw' = rw /\ reqs' = reqs
         /\ exchanges' = exchanges /\ exchange' = exchange
<1>1. inbox \in Seq(BusMessages) /\ inbox # <<>> /\ inbox' = Tail(inbox)
  BY DEF HceInv, TypeOK, Dispatch
<1> QED
  BY <1>1, MessageTaken DEF Dispatch, nfcdVars, readerVars

\* A message that is not the answer to a registration: the callers' part of the
\* invariant stays.
LEMMA OtherMessage ==
  ASSUME HceInv, NEW op, Dispatch(op), op # "register", hce_profiles' = hce_profiles,
         UNCHANGED callVars
  PROVE  CallInv' /\ OpInv' /\ ModeInv' /\ AddInv' /\ WaitInv' /\ RouteInv'
<1> DEFINE m == Head(inbox)
<1>1. /\ m.op = op /\ MessageKind(m)
      /\ \A C : Free(inbox, C) <=> m \notin C /\ Free(inbox', C)
      /\ \A C : Single(inbox, C) => Single(inbox', C)
      /\ crashes' = crashes /\ regs' = regs /\ modes' = modes /\ rw' = rw /\ reqs' = reqs
  BY Dispatched
<1> HIDE DEF m
<1>2. ncalls' = ncalls /\ calls' = calls /\ lastop' = lastop
  BY DEF callVars
<1>3. /\ \A n : m \notin RegisteredFor(n)
      /\ \A a : m \notin RegisteredOk(a)
      /\ \A a, g : m \notin RegisteredOther(a, g)
  BY <1>1 DEF MessageKind
<1>4. CallInv'
  BY <1>1, <1>2, <1>3 DEF HceInv, CallInv
<1>5. OpInv' /\ ModeInv' /\ AddInv'
  BY <1>1, <1>2 DEF HceInv, OpInv, ModeInv, AddInv, Present
<1>6. WaitInv'
  BY <1>1, <1>3 DEF HceInv, WaitInv
<1>7. RouteInv'
  BY <1>1, <1>3 DEF HceInv, RouteInv, RegisteredNext, RoutedNow, NotRouted, Present
<1> QED
  BY <1>4, <1>5, <1>6, <1>7

\* Only after a crash is the client told that nfcd comes or goes.
LEMMA OwnerStep ==
  ASSUME HceInv, daemon_vanished \/ daemon_proxy_ready
  PROVE  HceInv'
<1>1. /\ \/ Dispatch("vanished") /\ daemon' = FALSE
         \/ Dispatch("daemon_ready") /\ daemon' = TRUE
      /\ UNCHANGED <<hceVars, callVars>>
  BY DEF daemon_vanished, daemon_proxy_ready
<1>2. PICK op \in {"vanished", "daemon_ready"} : Dispatch(op)
  BY <1>1
<1>3. /\ hce_profiles' = hce_profiles /\ hce_mode_request_id' = hce_mode_request_id
      /\ hce_event' = hce_event /\ ncalls' = ncalls /\ calls' = calls /\ lastop' = lastop
      /\ daemon' \in BOOLEAN
  BY <1>1 DEF hceVars, callVars
<1>4. CallInv' /\ OpInv' /\ ModeInv' /\ AddInv' /\ WaitInv' /\ RouteInv'
  BY <1>1, <1>2, <1>3, OtherMessage
<1>5. TypeOK'
  BY <1>2, <1>3, Dispatched DEF HceInv, TypeOK
<1>6. ~Free(inbox, Owner) /\ crashes' = crashes /\ rw' = rw /\ modes' = modes
  BY <1>2, Dispatched DEF MessageKind
<1>7. LinkInv'
  BY <1>6 DEF HceInv, LinkInv
<1> QED
  BY <1>4, <1>5, <1>7 DEF HceInv

LEMMA ModeReadyStep ==
  ASSUME HceInv, hce_mode_ready
  PROVE  HceInv'
<1>1. /\ Dispatch("request_mode") /\ daemon' = daemon /\ hce_profiles' = hce_profiles
      /\ hce_event' = hce_event /\ UNCHANGED callVars
      /\ hce_mode_request_id' \in {Head(inbox).id, hce_mode_request_id}
  BY DEF hce_mode_ready
<1>2. ncalls' = ncalls /\ calls' = calls /\ lastop' = lastop
  BY <1>1 DEF callVars
<1>3. CallInv' /\ OpInv' /\ ModeInv' /\ AddInv' /\ WaitInv' /\ RouteInv'
  BY <1>1, OtherMessage
<1>4. Head(inbox).id \in ModeIds \union {0}
  BY <1>1, Dispatched, MessageFields
<1>5. TypeOK'
  BY <1>1, <1>2, <1>4, Dispatched DEF HceInv, TypeOK
<1>6. /\ crashes' = crashes /\ rw' = rw /\ modes' = modes /\ up' = up /\ proxied' = proxied
      /\ Free(inbox, Owner) => Free(inbox', Owner)
  BY <1>1, Dispatched
<1>7. LinkInv'
  BY <1>1, <1>6 DEF HceInv, LinkInv
<1> QED
  BY <1>3, <1>5, <1>7 DEF HceInv

\* The answer is for the only call that waits for it; with callers that wait,
\* it is for the profile in the table.
LEMMA RegisterReadyStep ==
  ASSUME HceInv, hce_register_ready
  PROVE  HceInv'
<1> DEFINE m == Head(inbox)
           n == m.call
<1>1. /\ m \in BusMessages /\ m.op = "register" /\ MessageKind(m)
      /\ inbox' \in Seq(BusMessages)
      /\ \A C : Free(inbox, C) <=> m \notin C /\ Free(inbox', C)
      /\ \A C : Single(inbox, C) => Single(inbox', C) /\ (m \in C => Free(inbox', C))
      /\ up' = up /\ crashes' = crashes /\ proxied' = proxied /\ regs' = regs
      /\ modes' = modes /\ rw' = rw /\ reqs' = reqs
      /\ exchanges' = exchanges /\ exchange' = exchange
  BY Dispatched DEF hce_register_ready
<1>2. /\ Tell(n, m.ok) /\ daemon' = daemon /\ hce_mode_request_id' = hce_mode_request_id
      /\ hce_event' = hce_event /\ ncalls' = ncalls /\ lastop' = lastop
  BY DEF hce_register_ready
<1>3. \E T \in SUBSET Aids :
        /\ hce_profiles' = [a \in Aids |->
             IF a \in T THEN [hce_profiles[a] EXCEPT !.registered = TRUE] ELSE hce_profiles[a]]
        /\ hce_profiles[m.aid].gen = m.gen => T = IF m.ok THEN {m.aid} ELSE {}
  <2>1. m.aid \in Aids
    BY <1>1, MessageFields
  <2> QED
    BY <2>1 DEF hce_register_ready
<1>4. /\ m.aid \in Aids /\ n \in 1..MaxCalls /\ m.ok \in BOOLEAN
  BY <1>1, MessageFields, HceAssumption
<1> HIDE DEF m, n
<1>5. m \in RegisteredFor(n) /\ ~Free(inbox, RegisteredFor(n))
  BY <1>1 DEF MessageKind, n
<1>6. /\ calls[n].state = "pending" /\ Free(reqs, RegistersFor(n))
      /\ Free(inbox', RegisteredFor(n))
  BY <1>1, <1>4, <1>5 DEF HceInv, CallInv
<1>7. /\ calls \in [1..MaxCalls -> [op : {"none", "add", "remove", "clear"},
                                    state : {"idle", "pending", "ok", "failed"},
                                    lost : BOOLEAN]]
      /\ hce_profiles \in [Aids -> [gen : 0..MaxCalls, implicit : BOOLEAN,
                                    registered : BOOLEAN,
                                    next_response_id : 0..GuintMax]]
  BY DEF HceInv, TypeOK
<1>8. /\ calls' = [calls EXCEPT ![n].state = IF m.ok THEN "ok" ELSE "failed"]
  BY <1>2, <1>4, <1>6, <1>7 DEF Tell
<1>9. /\ calls' \in [1..MaxCalls -> [op : {"none", "add", "remove", "clear"},
                                     state : {"idle", "pending", "ok", "failed"},
                                     lost : BOOLEAN]]
      /\ \A k \in 1..MaxCalls : calls'[k].op = calls[k].op
      /\ \A k \in 1..MaxCalls : k # n => calls'[k] = calls[k]
      /\ calls'[n].state \in {"ok", "failed"}
  BY <1>4, <1>7, <1>8
<1>10. /\ hce_profiles' \in [Aids -> [gen : 0..MaxCalls, implicit : BOOLEAN,
                                     registered : BOOLEAN,
                                     next_response_id : 0..GuintMax]]
       /\ \A a \in Aids : /\ hce_profiles'[a].gen = hce_profiles[a].gen
                          /\ hce_profiles'[a].implicit = hce_profiles[a].implicit
                          /\ hce_profiles[a].registered = TRUE =>
                               hce_profiles'[a].registered = TRUE
       /\ hce_profiles[m.aid].gen = m.gen /\ m.ok = TRUE =>
            hce_profiles'[m.aid].registered = TRUE
  <2>1. PICK T \in SUBSET Aids :
          /\ hce_profiles' = [a \in Aids |->
               IF a \in T THEN [hce_profiles[a] EXCEPT !.registered = TRUE] ELSE hce_profiles[a]]
          /\ hce_profiles[m.aid].gen = m.gen => T = IF m.ok THEN {m.aid} ELSE {}
    BY <1>3
  <2>2. ASSUME NEW a \in Aids
        PROVE  /\ hce_profiles'[a] \in [gen : 0..MaxCalls, implicit : BOOLEAN,
                                        registered : BOOLEAN, next_response_id : 0..GuintMax]
               /\ hce_profiles'[a].gen = hce_profiles[a].gen
               /\ hce_profiles'[a].implicit = hce_profiles[a].implicit
               /\ hce_profiles[a].registered = TRUE => hce_profiles'[a].registered = TRUE
               /\ a \in T => hce_profiles'[a].registered = TRUE
    <3>1. hce_profiles'[a] = IF a \in T THEN [hce_profiles[a] EXCEPT !.registered = TRUE]
                             ELSE hce_profiles[a]
      BY <2>1
    <3>2. hce_profiles[a] \in [gen : 0..MaxCalls, implicit : BOOLEAN,
                               registered : BOOLEAN, next_response_id : 0..GuintMax]
      BY <1>7
    <3> QED
      BY <3>1, <3>2
  <2>3. hce_profiles[m.aid].gen = m.gen /\ m.ok = TRUE => m.aid \in T
    BY <2>1
  <2>4. hce_profiles' \in [Aids -> [gen : 0..MaxCalls, implicit : BOOLEAN,
                                    registered : BOOLEAN, next_response_id : 0..GuintMax]]
    BY <2>1, <2>2
  <2> QED
    BY <1>4, <2>2, <2>3, <2>4
<1>11. TypeOK' /\ LinkInv'
  BY <1>1, <1>2, <1>9, <1>10 DEF HceInv, TypeOK, LinkInv
<1>12. CallInv'
  <2>1. ASSUME NEW k \in 1..MaxCalls
        PROVE  Free(inbox, RegisteredFor(k)) => Free(inbox', RegisteredFor(k))
    BY <1>1
  <2>2. n \in 1..ncalls
    BY <1>4, <1>6 DEF HceInv, CallInv, TypeOK
  <2>3. ASSUME NEW k \in 1..MaxCalls, k > ncalls PROVE calls'[k].state = "idle"
    BY <1>9, <2>2, <2>3 DEF HceInv, CallInv, TypeOK
  <2>4. ASSUME NEW k \in 1..MaxCalls
        PROVE  /\ Single(reqs, RegistersFor(k)) /\ Single(inbox', RegisteredFor(k))
               /\ Free(reqs, RegistersFor(k)) \/ Free(inbox', RegisteredFor(k))
               /\ calls'[k].state # "pending" =>
                    Free(reqs, RegistersFor(k)) /\ Free(inbox', RegisteredFor(k))
    BY <1>1, <1>6, <1>9, <2>1 DEF HceInv, CallInv
  <2> QED
    BY <1>1, <1>2, <2>3, <2>4 DEF CallInv
<1>13. OpInv'
  <2>1. \A a \in Aids : lastop[a] \in 0..ncalls /\ ncalls \in 0..MaxCalls
    BY DEF HceInv, OpInv, TypeOK
  <2>2. \A a \in Aids : lastop[a] # 0 => lastop[a] \in 1..MaxCalls
    BY <2>1, HceAssumption
  <2>3. ASSUME NEW a \in Aids, lastop[a] # 0
        PROVE  /\ calls[lastop[a]].op = calls'[lastop[a]].op
               /\ calls'[lastop[a]].state \in {"pending", "ok"} =>
                    calls[lastop[a]].state \in {"pending", "ok"}
    BY <1>6, <1>9, <2>2, <2>3
  <2>4. \A a \in Aids : Present(a)' <=> Present(a)
    BY <1>10 DEF Present
  <2> QED
    BY <1>2, <2>3, <2>4 DEF HceInv, OpInv
<1>14. ModeInv' /\ AddInv'
  <2>1. \A a \in Aids : Present(a)' <=> Present(a)
    BY <1>10 DEF Present
  <2> QED
    BY <1>1, <2>1 DEF HceInv, ModeInv, AddInv
<1>15. WaitInv'
  BY <1>1, <1>10 DEF HceInv, WaitInv
<1>16. RouteInv'
  <2> SUFFICES ASSUME crashes = 0, ~Overlap, NEW a \in Aids
               PROVE  /\ Present(a)' => RegisteredNext(a)' \/ RoutedNow(a)'
                      /\ ~Present(a)' => NotRouted(a)'
    BY <1>1 DEF RouteInv
  <2>1. Present(a)' <=> Present(a)
    BY <1>10 DEF Present
  <2>2. /\ Present(a) => RegisteredNext(a) \/ RoutedNow(a)
        /\ ~Present(a) => NotRouted(a)
    BY DEF HceInv, RouteInv
  <2>3. NotRouted(a)' <=> NotRouted(a)
    BY <1>1 DEF NotRouted
  <2>4. RegisteredNext(a)' <=> RegisteredNext(a)
    BY <1>1, <1>10 DEF RegisteredNext
  <2>5. m \in RegisteredOk(a) => hce_profiles'[a].registered = TRUE
    <3> SUFFICES ASSUME m \in RegisteredOk(a) PROVE hce_profiles'[a].registered = TRUE
      OBVIOUS
    <3>1. m.aid = a /\ m.ok = TRUE
      BY <1>1 DEF MessageKind
    <3>2. m \notin RegisteredOther(a, hce_profiles[a].gen)
      BY <1>1 DEF HceInv, WaitInv
    <3> QED
      BY <1>1, <1>10, <3>1, <3>2 DEF MessageKind
  <2>6. RoutedNow(a) => RoutedNow(a)'
    BY <1>1, <1>10, <2>5 DEF RoutedNow
  <2> QED
    BY <2>1, <2>2, <2>3, <2>4, <2>6
<1> QED
  BY <1>11, <1>12, <1>13, <1>14, <1>15, <1>16 DEF HceInv

LEMMA ClientStep ==
  ASSUME HceInv, Client
  PROVE  HceInv'
BY OwnerStep, ModeReadyStep, RegisterReadyStep DEF Client

-----------------------------------------------------------------------------
(* nfcd crashes and comes back, readers.                                   *)

\* A crash forgets what nfcd had; the client hears of it later.
LEMMA CrashStep ==
  ASSUME HceInv, Crash
  PROVE  HceInv'
<1> DEFINE m == Msg("vanished", None, 0, 0, 0, TRUE)
<1>1. /\ crashes' = crashes + 1 /\ crashes < MaxCrashes /\ up' = FALSE /\ proxied' = FALSE
      /\ regs' = [a \in Aids |-> "no"] /\ modes' = {} /\ rw' = 0
      /\ inbox' = Append(inbox, m)
      /\ calls' = [n \in DOMAIN calls |-> [calls[n] EXCEPT !.lost = n <= ncalls]]
      /\ reqs' = reqs /\ daemon' = daemon /\ hce_profiles' = hce_profiles
      /\ hce_mode_request_id' = hce_mode_request_id /\ hce_event' = hce_event
      /\ ncalls' = ncalls /\ lastop' = lastop
      /\ exchanges' = exchanges /\ exchange' = exchange
  BY DEF Crash, hceVars, readerVars
<1>2. m \in BusMessages /\ m.op = "vanished" /\ inbox \in Seq(BusMessages)
  BY HceAssumption DEF Msg, BusMessages, HceInv, TypeOK
<1> HIDE DEF m
<1>3. /\ inbox' \in Seq(BusMessages) /\ MessageKind(m)
      /\ \A C : Free(inbox', C) <=> Free(inbox, C) /\ m \notin C
      /\ \A C : Single(inbox, C) /\ (m \notin C \/ Free(inbox, C)) => Single(inbox', C)
  BY <1>1, <1>2, MessageSent
<1>4. crashes' \in 0..MaxCrashes /\ crashes' # 0
  <2>1. crashes \in 0..MaxCrashes
    BY DEF HceInv, TypeOK
  <2> QED
    BY <1>1, <2>1, HceAssumption
<1>5. /\ calls' \in [1..MaxCalls -> [op : {"none", "add", "remove", "clear"},
                                     state : {"idle", "pending", "ok", "failed"},
                                     lost : BOOLEAN]]
      /\ \A n \in 1..MaxCalls : calls'[n].op = calls[n].op /\ calls'[n].state = calls[n].state
  <2>1. /\ calls \in [1..MaxCalls -> [op : {"none", "add", "remove", "clear"},
                                      state : {"idle", "pending", "ok", "failed"},
                                      lost : BOOLEAN]]
        /\ DOMAIN calls = 1..MaxCalls
    BY DEF HceInv, TypeOK
  <2>2. ASSUME NEW n \in 1..MaxCalls
        PROVE  /\ calls'[n] \in [op : {"none", "add", "remove", "clear"},
                                 state : {"idle", "pending", "ok", "failed"}, lost : BOOLEAN]
               /\ calls'[n].op = calls[n].op /\ calls'[n].state = calls[n].state
    <3>1. calls'[n] = [calls[n] EXCEPT !.lost = n <= ncalls]
      BY <1>1, <2>1
    <3>2. calls[n] \in [op : {"none", "add", "remove", "clear"},
                        state : {"idle", "pending", "ok", "failed"}, lost : BOOLEAN]
      BY <2>1
    <3>3. (n <= ncalls) \in BOOLEAN
      OBVIOUS
    <3> QED
      BY <3>1, <3>2, <3>3
  <2> QED
    BY <1>1, <2>1, <2>2
<1>6. TypeOK'
  BY <1>1, <1>3, <1>4, <1>5 DEF HceInv, TypeOK
<1>7. LinkInv'
  BY <1>1, <1>4 DEF LinkInv
<1>8. /\ \A n : m \notin RegisteredFor(n)
      /\ \A a, g : m \notin RegisteredOther(a, g)
  BY <1>2, <1>3 DEF MessageKind
<1>9. CallInv'
  BY <1>1, <1>3, <1>5, <1>8 DEF HceInv, CallInv
<1>10. OpInv'
  <2>1. \A a \in Aids : lastop[a] \in 0..ncalls /\ ncalls \in 0..MaxCalls
    BY DEF HceInv, OpInv, TypeOK
  <2>2. \A a \in Aids : lastop[a] # 0 => lastop[a] \in 1..MaxCalls
    BY <2>1, HceAssumption
  <2> QED
    BY <1>1, <1>5, <2>2 DEF HceInv, OpInv, Present
<1>11. WaitInv'
  BY <1>1, <1>3, <1>8 DEF HceInv, WaitInv
<1>12. ModeInv' /\ AddInv' /\ RouteInv'
  BY <1>4 DEF ModeInv, AddInv, RouteInv
<1> QED
  BY <1>6, <1>7, <1>9, <1>10, <1>11, <1>12 DEF HceInv

LEMMA RestartStep ==
  ASSUME HceInv, Restart
  PROVE  HceInv'
<1>1. /\ ~up /\ up' = TRUE /\ crashes' = crashes /\ proxied' = proxied /\ regs' = regs
      /\ modes' = modes /\ rw' = rw /\ reqs' = reqs /\ inbox' = inbox /\ daemon' = daemon
      /\ hce_profiles' = hce_profiles /\ hce_mode_request_id' = hce_mode_request_id
      /\ hce_event' = hce_event /\ ncalls' = ncalls /\ calls' = calls
      /\ lastop' = lastop /\ exchanges' = exchanges /\ exchange' = exchange
  BY DEF Restart, hceVars, callVars, readerVars
<1>2. crashes # 0
  BY <1>1 DEF HceInv, LinkInv
<1>3. TypeOK' /\ LinkInv'
  BY <1>1, <1>2 DEF HceInv, TypeOK, LinkInv
<1>4. CallInv' /\ OpInv' /\ WaitInv'
  BY <1>1 DEF HceInv, CallInv, OpInv, WaitInv, Present
<1>5. ModeInv' /\ AddInv' /\ RouteInv'
  BY <1>1, <1>2 DEF ModeInv, AddInv, RouteInv
<1> QED
  BY <1>3, <1>4, <1>5 DEF HceInv

LEMMA DaemonProxyStep ==
  ASSUME HceInv, DaemonProxy
  PROVE  HceInv'
<1> DEFINE m == Msg("daemon_ready", None, 0, 0, 0, TRUE)
<1>1. /\ ~proxied /\ proxied' = TRUE /\ up' = up /\ crashes' = crashes /\ regs' = regs
      /\ reqs' = reqs /\ inbox' = Append(inbox, m) /\ daemon' = daemon
      /\ hce_profiles' = hce_profiles /\ hce_mode_request_id' = hce_mode_request_id
      /\ hce_event' = hce_event /\ ncalls' = ncalls /\ calls' = calls
      /\ lastop' = lastop /\ exchanges' = exchanges /\ exchange' = exchange
  BY DEF DaemonProxy, hceVars, callVars, readerVars
<1>2. PICK id \in ModeIds : rw' = id /\ modes' = modes \union {id}
  BY DEF DaemonProxy
<1>3. m \in BusMessages /\ m.op = "daemon_ready" /\ inbox \in Seq(BusMessages)
  BY HceAssumption DEF Msg, BusMessages, HceInv, TypeOK
<1> HIDE DEF m
<1>4. /\ inbox' \in Seq(BusMessages) /\ MessageKind(m)
      /\ \A C : Free(inbox', C) <=> Free(inbox, C) /\ m \notin C
      /\ \A C : Single(inbox, C) /\ (m \notin C \/ Free(inbox, C)) => Single(inbox', C)
  BY <1>1, <1>3, MessageSent
<1>5. crashes # 0
  BY <1>1 DEF HceInv, LinkInv
<1>6. TypeOK' /\ LinkInv'
  BY <1>1, <1>2, <1>4, <1>5 DEF HceInv, TypeOK, LinkInv
<1>7. /\ \A n : m \notin RegisteredFor(n)
      /\ \A a, g : m \notin RegisteredOther(a, g)
  BY <1>3, <1>4 DEF MessageKind
<1>8. CallInv' /\ WaitInv'
  BY <1>1, <1>4, <1>7 DEF HceInv, CallInv, WaitInv
<1>9. OpInv'
  BY <1>1 DEF HceInv, OpInv, Present
<1>10. ModeInv' /\ AddInv' /\ RouteInv'
  BY <1>1, <1>5 DEF ModeInv, AddInv, RouteInv
<1> QED
  BY <1>6, <1>8, <1>9, <1>10 DEF HceInv

\* The counter goes through 1..GuintMax and passes 0 over.
LEMMA NextIdValue ==
  ASSUME NEW id \in 0..GuintMax
  PROVE  NextId(id) = IF id = GuintMax THEN 0 ELSE id + 1
<1>1. ASSUME NEW g \in Nat, NEW k \in 0..g PROVE (k + 1) % (g + 1) = IF k = g THEN 0 ELSE k + 1
  OBVIOUS
<1> QED
  BY <1>1, HceAssumption DEF NextId

LEMMA FreshIdValue ==
  ASSUME NEW p, p.next_response_id \in 0..GuintMax
  PROVE  FreshId(p) \in 1..GuintMax /\ FreshId(p) # p.next_response_id
<1>1. NextId(p.next_response_id) \in 0..GuintMax
  BY NextIdValue, HceAssumption
<1>2. FreshId(p) = IF p.next_response_id = GuintMax THEN 1 ELSE p.next_response_id + 1
  BY <1>1, NextIdValue, HceAssumption DEF FreshId
<1> QED
  BY <1>2, HceAssumption

LEMMA ReaderStep ==
  ASSUME HceInv, Reader
  PROVE  HceInv'
<1>1. /\ up' = up /\ crashes' = crashes /\ proxied' = proxied /\ regs' = regs
      /\ modes' = modes /\ rw' = rw /\ reqs' = reqs /\ inbox' = inbox /\ daemon' = daemon
      /\ hce_mode_request_id' = hce_mode_request_id
      /\ ncalls' = ncalls /\ calls' = calls /\ lastop' = lastop
  BY DEF Reader, hce_handle_process, hce_handle_response_status, nfcdVars, callVars
<1>2. /\ hce_profiles \in [Aids -> [gen : 0..MaxCalls, implicit : BOOLEAN,
                                    registered : BOOLEAN,
                                    next_response_id : 0..GuintMax]]
      /\ exchanges \in 0..MaxExchanges
      /\ exchange \in [aid : Aids \union {None}, response_id : 0..GuintMax]
      /\ hce_event \in [aid : Aids \union {None}, ok : BOOLEAN]
  BY DEF HceInv, TypeOK
<1>3. /\ hce_profiles' \in [Aids -> [gen : 0..MaxCalls, implicit : BOOLEAN,
                                     registered : BOOLEAN,
                                     next_response_id : 0..GuintMax]]
      /\ exchanges' \in 0..MaxExchanges
      /\ exchange' \in [aid : Aids \union {None}, response_id : 0..GuintMax]
      /\ hce_event' \in [aid : Aids \union {None}, ok : BOOLEAN]
      /\ \A b \in Aids : /\ hce_profiles'[b].gen = hce_profiles[b].gen
                         /\ hce_profiles'[b].implicit = hce_profiles[b].implicit
                         /\ hce_profiles'[b].registered = hce_profiles[b].registered
  <2>1. CASE \E a \in Aids : hce_handle_process(a)
    <3>1. PICK a \in Aids : hce_handle_process(a)
      BY <2>1
    <3> DEFINE id == FreshId(hce_profiles[a])
    <3>2. id \in 1..GuintMax
      BY <1>2, FreshIdValue
    <3>3. /\ exchanges' = exchanges + 1 /\ exchanges < MaxExchanges
          /\ exchange' = [aid |-> a, response_id |-> id]
          /\ hce_profiles' = [hce_profiles EXCEPT ![a].next_response_id = id]
          /\ hce_event' = hce_event
      BY <3>1 DEF hce_handle_process
    <3> HIDE DEF id
    <3>4. exchanges' \in 0..MaxExchanges /\ id \in 0..GuintMax
      BY <1>2, <3>2, <3>3, HceAssumption
    <3> QED
      BY <1>2, <3>3, <3>4
  <2>2. CASE \E a \in Aids, ok \in BOOLEAN : hce_handle_response_status(a, ok)
    <3>1. NoExchange \in [aid : Aids \union {None}, response_id : 0..GuintMax]
      BY HceAssumption DEF NoExchange
    <3> QED
      BY <1>2, <2>2, <3>1 DEF hce_handle_response_status
  <2> QED
    BY <2>1, <2>2 DEF Reader
<1>4. TypeOK' /\ LinkInv'
  BY <1>1, <1>3 DEF HceInv, TypeOK, LinkInv
<1>5. \A a \in Aids : Present(a)' <=> Present(a)
  BY <1>3 DEF Present
<1>6. CallInv' /\ OpInv' /\ ModeInv' /\ AddInv'
  BY <1>1, <1>5 DEF HceInv, CallInv, OpInv, ModeInv, AddInv
<1>7. WaitInv' /\ RouteInv'
  BY <1>1, <1>3, <1>5 DEF HceInv, WaitInv, RouteInv, RegisteredNext, RoutedNow, NotRouted
<1> QED
  BY <1>4, <1>6, <1>7 DEF HceInv

-----------------------------------------------------------------------------
(* Calls of luna clients.                                                  *)

\* Call n is the next one; a caller that waits calls when nothing is being
\* registered.
LEMMA Called ==
  ASSUME HceInv, NEW as, NEW n, NewCall(as, n)
  PROVE  /\ n \in 1..MaxCalls /\ n = ncalls + 1 /\ ncalls' = n
         /\ calls[n].state = "idle"
         /\ Free(reqs, RegistersFor(n)) /\ Free(inbox, RegisteredFor(n))
         /\ lastop' \in [Aids -> 0..MaxCalls]
         /\ \A a \in Aids : lastop'[a] = IF a \in as THEN n ELSE lastop[a]
         /\ ~Overlap => Free(reqs, Registers) /\ Free(inbox, Registered)
<1>1. /\ ncalls \in 0..MaxCalls /\ reqs \in Seq(BusCalls) /\ inbox \in Seq(BusMessages)
  BY DEF HceInv, TypeOK
<1>2. n \in 1..MaxCalls /\ n = ncalls + 1 /\ n > ncalls
  BY <1>1, HceAssumption DEF NewCall
<1>3. calls[n].state = "idle" /\ Free(reqs, RegistersFor(n)) /\ Free(inbox, RegisteredFor(n))
  BY <1>2 DEF HceInv, CallInv
<1>4. ASSUME ~Overlap, NEW k \in 1..MaxCalls PROVE calls[k].state # "pending"
  <2>1. k \in 1..ncalls \/ k > ncalls
    BY <1>1
  <2> QED
    BY <1>4, <2>1 DEF HceInv, CallInv, NewCall
<1>5. ASSUME ~Overlap PROVE Free(reqs, Registers)
  <2>1. ASSUME NEW i \in 1..Len(reqs), reqs[i] \in Registers PROVE FALSE
    <3>1. reqs[i] \in BusCalls /\ reqs[i].op = "register"
      BY <2>1 DEF Registers
    <3>2. reqs[i].call \in 1..MaxCalls /\ reqs[i] \in RegistersFor(reqs[i].call)
      BY <2>1, <3>1, CallFields, HceAssumption DEF RegistersFor
    <3>3. Free(reqs, RegistersFor(reqs[i].call))
      BY <1>4, <1>5, <3>2 DEF HceInv, CallInv
    <3> QED
      BY <3>2, <3>3 DEF Free
  <2> QED
    BY <2>1 DEF Free
<1>6. ASSUME ~Overlap PROVE Free(inbox, Registered)
  <2>1. ASSUME NEW i \in 1..Len(inbox), inbox[i] \in Registered PROVE FALSE
    <3>1. inbox[i] \in BusMessages /\ inbox[i].op = "register"
      BY <2>1 DEF Registered
    <3>2. inbox[i].call \in 1..MaxCalls /\ inbox[i] \in RegisteredFor(inbox[i].call)
      BY <2>1, <3>1, MessageFields, HceAssumption DEF RegisteredFor
    <3>3. Free(inbox, RegisteredFor(inbox[i].call))
      BY <1>4, <1>6, <3>2 DEF HceInv, CallInv
    <3> QED
      BY <3>2, <3>3 DEF Free
  <2> QED
    BY <2>1 DEF Free
<1>7. /\ lastop' \in [Aids -> 0..MaxCalls]
      /\ \A a \in Aids : lastop'[a] = IF a \in as THEN n ELSE lastop[a]
  <2>1. lastop \in [Aids -> 0..MaxCalls] /\ n \in 0..MaxCalls
    BY <1>2, HceAssumption DEF HceInv, TypeOK
  <2> QED
    BY <2>1 DEF NewCall
<1> QED
  BY <1>2, <1>3, <1>5, <1>6, <1>7 DEF NewCall

\* Calls after call n: the record of n is new, the others stay.
LEMMA MadeFacts ==
  ASSUME HceInv, NEW n \in 1..MaxCalls, NEW op \in {"add", "remove", "clear"},
         NEW state \in {"pending", "ok", "failed"}, Made(n, op, state)
  PROVE  /\ calls' \in [1..MaxCalls -> [op : {"none", "add", "remove", "clear"},
                                        state : {"idle", "pending", "ok", "failed"},
                                        lost : BOOLEAN]]
         /\ calls'[n].op = op /\ calls'[n].state = state
         /\ \A k \in 1..MaxCalls : k # n => calls'[k] = calls[k]
BY DEF HceInv, TypeOK, Made

\* The calls that go out are those of call n, if its caller waits.
LEMMA CallInvKept ==
  ASSUME HceInv, NEW as, NEW n, NewCall(as, n), NEW op \in {"add", "remove", "clear"},
         NEW state \in {"pending", "ok", "failed"}, Made(n, op, state), inbox' = inbox,
         \A k \in 1..MaxCalls :
           /\ Single(reqs', RegistersFor(k))
           /\ k # n \/ state # "pending" =>
                (Free(reqs', RegistersFor(k)) <=> Free(reqs, RegistersFor(k)))
  PROVE  CallInv'
<1>1. /\ n \in 1..MaxCalls /\ n = ncalls + 1 /\ ncalls' = n /\ ncalls \in 0..MaxCalls
      /\ Free(reqs, RegistersFor(n)) /\ Free(inbox, RegisteredFor(n))
  BY Called DEF HceInv, TypeOK
<1>2. calls'[n].state = state /\ \A k \in 1..MaxCalls : k # n => calls'[k] = calls[k]
  BY <1>1, MadeFacts
<1>3. ASSUME NEW k \in 1..MaxCalls, k > ncalls' PROVE calls'[k].state = "idle"
  <2>1. k # n /\ k > ncalls
    BY <1>1, <1>3
  <2> QED
    BY <1>2, <2>1 DEF HceInv, CallInv
<1>4. ASSUME NEW k \in 1..MaxCalls
      PROVE  /\ Single(inbox, RegisteredFor(k))
             /\ Free(reqs', RegistersFor(k)) \/ Free(inbox, RegisteredFor(k))
             /\ calls'[k].state # "pending" =>
                  Free(reqs', RegistersFor(k)) /\ Free(inbox, RegisteredFor(k))
  BY <1>1, <1>2 DEF HceInv, CallInv
<1> QED
  BY <1>3, <1>4 DEF CallInv

\* The table is as the call that was made, and succeeded at once or waits, wants it.
LEMMA OpInvKept ==
  ASSUME HceInv, NEW as, NEW n, NewCall(as, n), NEW op \in {"add", "remove", "clear"},
         NEW state \in {"pending", "ok", "failed"}, Made(n, op, state),
         \A a \in Aids \ as : Present(a)' <=> Present(a),
         \A a \in Aids : a \in as /\ op = "add" /\ state # "failed" => Present(a)',
         \A a \in Aids : a \in as /\ op # "add" => ~Present(a)'
  PROVE  OpInv'
<1>1. /\ n \in 1..MaxCalls /\ n = ncalls + 1 /\ ncalls' = n /\ ncalls \in 0..MaxCalls
      /\ \A a \in Aids : lastop'[a] = IF a \in as THEN n ELSE lastop[a]
  <2>1. ncalls \in 0..MaxCalls
    BY DEF HceInv, TypeOK
  <2> QED
    BY <2>1, Called
<1>2. /\ calls'[n].state = state /\ calls'[n].op = op
      /\ \A k \in 1..MaxCalls : k # n => calls'[k] = calls[k]
  BY <1>1, MadeFacts
<1>3. ASSUME NEW a \in Aids, a \in as
      PROVE  /\ lastop'[a] \in 0..ncalls'
             /\ lastop'[a] # 0 =>
                  /\ calls'[lastop'[a]].op = "add" /\ calls'[lastop'[a]].state \in {"pending", "ok"}
                       => Present(a)'
                  /\ calls'[lastop'[a]].op \in {"remove", "clear"} => ~Present(a)'
  <2>1. lastop'[a] = n
    BY <1>1, <1>3
  <2>2. n \in 0..n
    BY <1>1, HceAssumption
  <2> QED
    BY <1>1, <1>2, <1>3, <2>1, <2>2
<1>4. ASSUME NEW a \in Aids, a \notin as
      PROVE  /\ lastop'[a] \in 0..ncalls'
             /\ lastop'[a] # 0 =>
                  /\ calls'[lastop'[a]].op = "add" /\ calls'[lastop'[a]].state \in {"pending", "ok"}
                       => Present(a)'
                  /\ calls'[lastop'[a]].op \in {"remove", "clear"} => ~Present(a)'
  <2>1. lastop'[a] = lastop[a] /\ lastop[a] \in 0..ncalls
    BY <1>1, <1>4 DEF HceInv, OpInv
  <2>2. lastop[a] \in 0..n /\ lastop[a] # n /\ (lastop[a] # 0 => lastop[a] \in 1..MaxCalls)
    BY <1>1, <2>1, HceAssumption
  <2>3. Present(a)' <=> Present(a)
    BY <1>4
  <2> QED
    BY <1>1, <1>2, <2>1, <2>2, <2>3 DEF HceInv, OpInv
<1> QED
  BY <1>3, <1>4 DEF OpInv

-----------------------------------------------------------------------------
(* addCardEmulationProfile.                                                *)

\* A kind of calls is in queue t what it is in queue s.
SameKind(t, s, C) ==
  /\ Free(t, C) <=> Free(s, C)
  /\ \A V : LastIn(t, C, V) <=> LastIn(s, C, V)

\* t is s and then the calls of hce_do_register() for AID a.
RegisterAdded(t, s, a, implicit, n, gen) ==
  /\ t \in Seq(BusCalls)
  /\ LastIn(t, ModeCalls, RequestCalls)
  /\ LastIn(t, AidCalls(a), RegistersAid(a))
  /\ LastIn(t, AidCalls(a), RegistersAs(a, Flag(implicit)))
  /\ \A b : b # a => SameKind(t, s, AidCalls(b))
  /\ \A b : Free(t, Unregisters(b)) <=> Free(s, Unregisters(b))
  /\ \A b, g : b # a \/ g = gen =>
       (Free(t, RegistersOther(b, g)) <=> Free(s, RegistersOther(b, g)))
  /\ \A k : k # n => /\ Free(t, RegistersFor(k)) <=> Free(s, RegistersFor(k))
                     /\ Single(s, RegistersFor(k)) => Single(t, RegistersFor(k))
  /\ Free(s, RegistersFor(n)) => Single(t, RegistersFor(n))
  /\ Free(s, Registers) => Single(t, Registers)

LEMMA RegisterSent ==
  ASSUME NEW s \in Seq(BusCalls), NEW a \in Aids, NEW implicit \in BOOLEAN,
         NEW n \in 1..MaxCalls, NEW gen \in 1..MaxCalls
  PROVE  RegisterAdded(s \o RegisterCalls(a, implicit, n, gen), s, a, implicit, n, gen)
<1> DEFINE m == Req("request_mode", None, "no", 0, 0, 0)
           r == Req("register", a, Flag(implicit), n, gen, 0)
           u == RegisterCalls(a, implicit, n, gen)
           t == s \o u
<1>1. m \in BusCalls /\ m.op = "request_mode"
  BY HceAssumption DEF Req, BusCalls
<1>2. /\ r \in BusCalls /\ r.op = "register" /\ r.aid = a /\ r.flag = Flag(implicit)
      /\ r.call = n /\ r.gen = gen
  BY HceAssumption DEF Req, BusCalls, Flag
<1>3. u = <<m, r>>
  BY DEF RegisterCalls
<1> HIDE DEF m, r, u
<1>4. u \in Seq(BusCalls) /\ Len(u) = 2 /\ u[1] = m /\ u[2] = r
  BY <1>1, <1>2, <1>3
<1>5. /\ t \in Seq(BusCalls) /\ Joined(t, s, u)
  BY <1>4, JoinedKinds
<1>6. /\ \A C : Free(u, C) <=> m \notin C /\ r \notin C
      /\ \A C, V : r \in C => (LastIn(u, C, V) <=> r \in V)
      /\ \A C, V : r \notin C => (LastIn(u, C, V) <=> m \in C /\ m \in V)
      /\ \A C : m \notin C => Single(u, C)
  BY <1>4 DEF Free, LastIn, Single
<1> HIDE DEF t
<1>7. CallKind(m) /\ CallKind(r)
  BY <1>1, <1>2, Kinds
<1>8. /\ m \in ModeCalls /\ m \in RequestCalls /\ r \notin ModeCalls
      /\ r \in AidCalls(a) /\ r \in RegistersAid(a) /\ r \in RegistersAs(a, Flag(implicit))
      /\ m \notin Registers
  BY <1>1, <1>2, <1>7 DEF CallKind
<1>9. /\ \A b : m \notin AidCalls(b) /\ m \notin Unregisters(b) /\ r \notin Unregisters(b)
      /\ \A b : b # a => r \notin AidCalls(b)
      /\ \A b, g : m \notin RegistersOther(b, g)
      /\ \A b, g : b # a \/ g = gen => r \notin RegistersOther(b, g)
      /\ \A k : m \notin RegistersFor(k)
      /\ \A k : k # n => r \notin RegistersFor(k)
  BY <1>1, <1>2, <1>7 DEF CallKind
<1>10. /\ LastIn(t, ModeCalls, RequestCalls)
       /\ LastIn(t, AidCalls(a), RegistersAid(a))
       /\ LastIn(t, AidCalls(a), RegistersAs(a, Flag(implicit)))
  BY <1>5, <1>6, <1>8 DEF Joined
<1>11. \A C : m \notin C /\ r \notin C => /\ SameKind(t, s, C)
                                          /\ Single(s, C) => Single(t, C)
  BY <1>5, <1>6 DEF Joined, SameKind
<1>12. \A C : m \notin C /\ Free(s, C) => Single(t, C)
  BY <1>5, <1>6 DEF Joined
<1>13. /\ \A b : b # a => SameKind(t, s, AidCalls(b))
       /\ \A b : Free(t, Unregisters(b)) <=> Free(s, Unregisters(b))
       /\ \A b, g : b # a \/ g = gen =>
            (Free(t, RegistersOther(b, g)) <=> Free(s, RegistersOther(b, g)))
       /\ \A k : k # n => /\ Free(t, RegistersFor(k)) <=> Free(s, RegistersFor(k))
                          /\ Single(s, RegistersFor(k)) => Single(t, RegistersFor(k))
  BY <1>9, <1>11 DEF SameKind
<1> QED
  BY <1>5, <1>8, <1>9, <1>10, <1>12, <1>13 DEF RegisterAdded, t, u

\* t is s and then the call that unregisters AID a.
UnregisterAdded(t, s, a) ==
  /\ t \in Seq(BusCalls)
  /\ LastIn(t, AidCalls(a), Unregisters(a)) /\ ~Free(t, Unregisters(a))
  /\ \A b : b # a => SameKind(t, s, AidCalls(b))
  /\ \A b : b # a => (Free(t, Unregisters(b)) <=> Free(s, Unregisters(b)))
  /\ \A b, g : Free(t, RegistersOther(b, g)) <=> Free(s, RegistersOther(b, g))
  /\ \A k : /\ Free(t, RegistersFor(k)) <=> Free(s, RegistersFor(k))
            /\ Single(s, RegistersFor(k)) => Single(t, RegistersFor(k))
  /\ Free(t, Registers) <=> Free(s, Registers)
  /\ Single(s, Registers) => Single(t, Registers)
  /\ SameKind(t, s, ModeCalls)

LEMMA UnregisterSent ==
  ASSUME NEW s \in Seq(BusCalls), NEW a \in Aids
  PROVE  UnregisterAdded(Append(s, UnregisterCall(a)), s, a)
<1> DEFINE q == UnregisterCall(a)
           t == Append(s, q)
<1>1. q \in BusCalls /\ q.op = "unregister" /\ q.aid = a
  BY HceAssumption DEF UnregisterCall, Req, BusCalls
<1> HIDE DEF q
<1>2. t \in Seq(BusCalls) /\ Pushed(t, s, q)
  BY <1>1, Appended, AppendedKinds
<1>3. \A C : q \notin C /\ Single(s, C) => Single(t, C)
  BY <1>1, AppendedSingle
<1> HIDE DEF t
<1>4. CallKind(q)
  BY <1>1, Kinds
<1>5. /\ q \in AidCalls(a) /\ q \in Unregisters(a) /\ q \notin Registers /\ q \notin ModeCalls
      /\ \A b : b # a => q \notin AidCalls(b) /\ q \notin Unregisters(b)
      /\ \A b, g : q \notin RegistersOther(b, g)
      /\ \A k : q \notin RegistersFor(k)
  BY <1>1, <1>4 DEF CallKind
<1>6. \A C : q \notin C => SameKind(t, s, C)
  BY <1>2 DEF Pushed, SameKind
<1>7. LastIn(t, AidCalls(a), Unregisters(a)) /\ ~Free(t, Unregisters(a))
  BY <1>2, <1>5 DEF Pushed
<1> QED
  BY <1>2, <1>3, <1>5, <1>6, <1>7 DEF UnregisterAdded, SameKind, t, q

\* What of the state an add leaves alone.
AddLeaves ==
  /\ up' = up /\ crashes' = crashes /\ proxied' = proxied /\ regs' = regs
  /\ modes' = modes /\ rw' = rw /\ inbox' = inbox /\ daemon' = daemon
  /\ hce_mode_request_id' = hce_mode_request_id /\ hce_event' = hce_event
  /\ exchanges' = exchanges /\ exchange' = exchange

Profiles == [gen : 0..MaxCalls, implicit : BOOLEAN, registered : BOOLEAN,
             next_response_id : 0..GuintMax]

\* An add that nfcd does not hear of: until nfcd crashes, it changes nothing.
LEMMA AddQuiet ==
  ASSUME HceInv, NEW a \in Aids, NEW n, NewCall({a}, n), NEW state \in {"ok", "failed"},
         Made(n, "add", state), AddLeaves, reqs' = reqs,
         hce_profiles' \in [Aids -> Profiles],
         \A b \in Aids : b # a => hce_profiles'[b] = hce_profiles[b],
         state = "ok" => Present(a)',
         crashes = 0 => /\ hce_profiles'[a].gen = hce_profiles[a].gen
                        /\ hce_profiles'[a].implicit = hce_profiles[a].implicit
                        /\ hce_profiles'[a].registered = hce_profiles[a].registered
  PROVE  HceInv'
<1>1. /\ n \in 1..MaxCalls /\ ncalls' = n /\ lastop' \in [Aids -> 0..MaxCalls]
      /\ ~Overlap => Free(reqs, Registers) /\ Free(inbox, Registered)
  BY Called
<1>2. ncalls' \in 0..MaxCalls
  BY <1>1, HceAssumption
<1>3. calls' \in [1..MaxCalls -> [op : {"none", "add", "remove", "clear"},
                                  state : {"idle", "pending", "ok", "failed"},
                                  lost : BOOLEAN]]
  BY <1>1, MadeFacts
<1>4. TypeOK' /\ LinkInv'
  BY <1>1, <1>2, <1>3 DEF HceInv, TypeOK, LinkInv, AddLeaves, Profiles
<1>5. CallInv'
  <2>1. \A k \in 1..MaxCalls : Single(reqs', RegistersFor(k))
    BY DEF HceInv, CallInv
  <2> QED
    BY <2>1, CallInvKept DEF AddLeaves
<1>6. OpInv'
  <2>1. \A b \in Aids \ {a} : Present(b)' <=> Present(b)
    BY DEF Present
  <2> QED
    BY <2>1, OpInvKept
<1>7. WaitInv'
  <2>1. ~Overlap => \A b, g : /\ Free(reqs, RegistersOther(b, g))
                              /\ Free(inbox, RegisteredOther(b, g))
    BY <1>1 DEF Free, RegistersOther, RegistersAid, RegisteredOther
  <2> QED
    BY <2>1 DEF HceInv, WaitInv, AddLeaves
<1>8. ASSUME crashes = 0, NEW b \in Aids
      PROVE  /\ hce_profiles'[b].gen = hce_profiles[b].gen
             /\ hce_profiles'[b].implicit = hce_profiles[b].implicit
             /\ hce_profiles'[b].registered = hce_profiles[b].registered
             /\ Present(b)' <=> Present(b)
  BY <1>8 DEF Present
<1>9. ModeInv' /\ AddInv'
  BY <1>8 DEF HceInv, ModeInv, AddInv, AddLeaves
<1>10. RouteInv'
  BY <1>8 DEF HceInv, RouteInv, RegisteredNext, RoutedNow, NotRouted, AddLeaves
<1> QED
  BY <1>4, <1>5, <1>6, <1>7, <1>9, <1>10 DEF HceInv

\* An add that registers the AID, which nobody else is registering, and which
\* nfcd has not, or is told to forget first.
LEMMA AddAsks ==
  ASSUME HceInv, NEW a \in Aids, NEW implicit \in BOOLEAN, NEW n, NewCall({a}, n),
         NEW gen \in 1..MaxCalls, Made(n, "add", "pending"), AddLeaves,
         hce_profiles' \in [Aids -> Profiles],
         \A b \in Aids : b # a => hce_profiles'[b] = hce_profiles[b],
         hce_profiles'[a].gen = gen, hce_profiles'[a].implicit = implicit,
         NEW s \in Seq(BusCalls), reqs' = s \o RegisterCalls(a, implicit, n, gen),
         s = reqs \/ UnregisterAdded(s, reqs, a),
         s = reqs => ~Present(a)
  PROVE  HceInv'
<1>1. /\ n \in 1..MaxCalls /\ ncalls' = n /\ lastop' \in [Aids -> 0..MaxCalls]
      /\ Free(reqs, RegistersFor(n))
      /\ ~Overlap => Free(reqs, Registers) /\ Free(inbox, Registered)
  BY Called
<1>2. ncalls' \in 0..MaxCalls
  BY <1>1, HceAssumption
<1>3. calls' \in [1..MaxCalls -> [op : {"none", "add", "remove", "clear"},
                                  state : {"idle", "pending", "ok", "failed"},
                                  lost : BOOLEAN]]
  BY <1>1, MadeFacts
<1>4. RegisterAdded(reqs', s, a, implicit, n, gen)
  BY <1>1, RegisterSent
<1>5. /\ \A b : b # a => SameKind(s, reqs, AidCalls(b))
      /\ \A b : b # a => (Free(s, Unregisters(b)) <=> Free(reqs, Unregisters(b)))
      /\ \A b, g : Free(s, RegistersOther(b, g)) <=> Free(reqs, RegistersOther(b, g))
      /\ \A k : /\ Free(s, RegistersFor(k)) <=> Free(reqs, RegistersFor(k))
                /\ Single(reqs, RegistersFor(k)) => Single(s, RegistersFor(k))
      /\ Free(s, Registers) <=> Free(reqs, Registers)
  BY DEF UnregisterAdded, SameKind
<1>6. TypeOK' /\ LinkInv'
  <2>1. reqs' \in Seq(BusCalls)
    BY <1>4 DEF RegisterAdded
  <2> QED
    BY <1>1, <1>2, <1>3, <2>1 DEF HceInv, TypeOK, LinkInv, AddLeaves, Profiles
<1>7. CallInv'
  <2>1. ASSUME NEW k \in 1..MaxCalls
        PROVE  /\ Single(reqs', RegistersFor(k))
               /\ k # n => (Free(reqs', RegistersFor(k)) <=> Free(reqs, RegistersFor(k)))
    BY <1>1, <1>4, <1>5 DEF HceInv, CallInv, RegisterAdded
  <2> QED
    BY <2>1, CallInvKept DEF AddLeaves
<1>8. Present(a)' /\ \A b \in Aids : b # a => (Present(b)' <=> Present(b))
  BY HceAssumption DEF Present
<1>9. OpInv'
  BY <1>8, OpInvKept
<1>10. ModeInv'
  BY <1>4 DEF ModeInv, RegisterAdded
<1>11. \A b : b # a => SameKind(reqs', reqs, AidCalls(b))
  BY <1>4, <1>5 DEF RegisterAdded, SameKind
<1>12. AddInv'
  <2> SUFFICES ASSUME crashes = 0, ~MayReject, NEW b \in Aids, Present(b)'
               PROVE  \/ LastIn(reqs', AidCalls(b), RegistersAid(b))
                      \/ Free(reqs', AidCalls(b)) /\ regs[b] # "no"
    BY DEF AddInv, AddLeaves
  <2>1. CASE b = a
    BY <1>4, <2>1 DEF RegisterAdded
  <2>2. CASE b # a
    BY <1>8, <1>11, <2>2 DEF HceInv, AddInv, SameKind
  <2> QED
    BY <2>1, <2>2
<1>13. WaitInv'
  <2> SUFFICES ASSUME ~Overlap
               PROVE  /\ Single(reqs', Registers)
                      /\ \A b \in Aids :
                           /\ Free(reqs', RegistersOther(b, hce_profiles'[b].gen))
                           /\ Free(inbox, RegisteredOther(b, hce_profiles'[b].gen))
    BY DEF WaitInv, AddLeaves
  <2>1. Free(reqs, Registers) /\ Free(inbox, Registered)
    BY <1>1
  <2>2. \A b, g : /\ Free(reqs, RegistersOther(b, g)) /\ Free(inbox, RegisteredOther(b, g))
    BY <2>1 DEF Free, RegistersOther, RegistersAid, RegisteredOther
  <2> QED
    BY <1>4, <1>5, <2>1, <2>2 DEF RegisterAdded
<1>14. RouteInv'
  <2> SUFFICES ASSUME crashes = 0, ~Overlap, NEW b \in Aids
               PROVE  /\ Present(b)' => RegisteredNext(b)' \/ RoutedNow(b)'
                      /\ ~Present(b)' => NotRouted(b)'
    BY DEF RouteInv, AddLeaves
  <2>1. /\ Present(b) => RegisteredNext(b) \/ RoutedNow(b)
        /\ ~Present(b) => NotRouted(b)
    BY DEF HceInv, RouteInv
  <2>2. CASE b # a
    <3>1. Free(reqs', Unregisters(b)) <=> Free(reqs, Unregisters(b))
      BY <1>4, <1>5, <2>2 DEF RegisterAdded
    <3>2. hce_profiles'[b] = hce_profiles[b] /\ (Present(b)' <=> Present(b))
      BY <1>8, <2>2
    <3>3. SameKind(reqs', reqs, AidCalls(b))
      BY <1>11, <2>2
    <3> QED
      BY <2>1, <3>1, <3>2, <3>3 DEF RegisteredNext, RoutedNow, NotRouted, SameKind, AddLeaves
  <2>3. CASE b = a
    <3>1. regs[a] = "no" \/ ~Free(s, Unregisters(a))
      <4>1. CASE s = reqs
        BY <2>1, <2>3, <4>1, LastNotFree DEF NotRouted
      <4>2. CASE UnregisterAdded(s, reqs, a)
        BY <4>2 DEF UnregisterAdded
      <4> QED
        BY <4>1, <4>2
    <3>2. RegisteredNext(a)'
      BY <1>4, <3>1 DEF RegisteredNext, RegisterAdded, AddLeaves
    <3> QED
      BY <1>8, <2>3, <3>2
  <2> QED
    BY <2>2, <2>3
<1> QED
  BY <1>6, <1>7, <1>9, <1>10, <1>12, <1>13, <1>14 DEF HceInv

LEMMA AddStep ==
  ASSUME HceInv, NEW a \in Aids, NEW implicit \in BOOLEAN, NEW n,
         nfcd_client_add_card_emulation_profile(a, implicit, n)
  PROVE  HceInv'
<1>1. NewCall({a}, n) /\ AddLeaves
  BY DEF nfcd_client_add_card_emulation_profile, AddLeaves, nfcdVars, readerVars
<1>2. n \in 1..MaxCalls
  BY <1>1, Called
<1>3. hce_profiles \in [Aids -> Profiles] /\ reqs \in Seq(BusCalls) /\ daemon \in BOOLEAN
  BY DEF HceInv, TypeOK, Profiles
<1>4. crashes = 0 => daemon = TRUE
  BY DEF HceInv, LinkInv
<1>5. CASE Present(a) /\ UpdateProfile(a, implicit, n)
  <2>1. hce_profiles[a] \in Profiles /\ hce_profiles[a].gen \in 1..MaxCalls
    BY <1>3, <1>5, HceAssumption DEF Present, Profiles
  <2>2. CASE hce_profiles[a].implicit # implicit /\ daemon
    <3> DEFINE s == Append(reqs, UnregisterCall(a))
    <3>1. /\ hce_profiles' = [hce_profiles EXCEPT ![a].implicit = implicit,
                                                  ![a].registered = FALSE]
          /\ reqs' = s \o RegisterCalls(a, implicit, n, hce_profiles[a].gen)
          /\ Made(n, "add", "pending")
      BY <1>5, <2>2 DEF UpdateProfile
    <3>2. UnregisterAdded(s, reqs, a) /\ s \in Seq(BusCalls)
      BY <1>3, UnregisterSent DEF UnregisterAdded
    <3> HIDE DEF s
    <3>3. /\ hce_profiles' \in [Aids -> Profiles]
          /\ \A b \in Aids : b # a => hce_profiles'[b] = hce_profiles[b]
          /\ hce_profiles'[a].gen = hce_profiles[a].gen
          /\ hce_profiles'[a].implicit = implicit
      BY <1>3, <2>1, <3>1 DEF Profiles
    <3>4. s # reqs
      <4>1. Len(s) = Len(reqs) + 1 /\ Len(reqs) \in Nat
        BY <1>3 DEF s
      <4> QED
        BY <4>1
    <3> QED
      BY <1>1, <2>1, <3>1, <3>2, <3>3, <3>4, AddAsks
  <2>3. CASE ~(hce_profiles[a].implicit # implicit /\ daemon)
    <3>1. /\ hce_profiles' = [hce_profiles EXCEPT ![a].implicit = implicit]
          /\ reqs' = reqs /\ Made(n, "add", "ok")
      BY <1>5, <2>3 DEF UpdateProfile
    <3>2. /\ hce_profiles' \in [Aids -> Profiles]
          /\ \A b \in Aids : b # a => hce_profiles'[b] = hce_profiles[b]
          /\ hce_profiles'[a].gen = hce_profiles[a].gen
          /\ hce_profiles'[a].registered = hce_profiles[a].registered
          /\ hce_profiles'[a].implicit = implicit
      BY <1>3, <2>1, <3>1 DEF Profiles
    <3>3. Present(a)'
      BY <1>5, <3>2 DEF Present
    <3>4. crashes = 0 => hce_profiles[a].implicit = implicit
      BY <1>4, <2>3
    <3> QED
      BY <1>1, <3>1, <3>2, <3>3, <3>4, AddQuiet
  <2> QED
    BY <2>2, <2>3
<1>6. CASE ~Present(a) /\ NewProfile(a, implicit, n)
  <2> DEFINE p == [NoProfile EXCEPT !.gen = n, !.implicit = implicit]
  <2>1. hce_profiles' = [hce_profiles EXCEPT ![a] = p]
    BY <1>6 DEF NewProfile
  <2>2. p \in Profiles /\ p.gen = n /\ p.implicit = implicit
    <3>1. n \in 0..MaxCalls /\ 0 \in 0..GuintMax
      BY <1>2, HceAssumption
    <3>2. NoProfile \in Profiles
      BY <3>1, HceAssumption DEF NoProfile, Profiles
    <3> QED
      BY <3>1, <3>2 DEF Profiles
  <2> HIDE DEF p
  <2>3. /\ hce_profiles' \in [Aids -> Profiles]
        /\ \A b \in Aids : b # a => hce_profiles'[b] = hce_profiles[b]
        /\ hce_profiles'[a].gen = n /\ hce_profiles'[a].implicit = implicit
    BY <1>3, <2>1, <2>2
  <2>4. CASE daemon
    <3>1. reqs' = reqs \o RegisterCalls(a, implicit, n, n) /\ Made(n, "add", "pending")
      BY <1>6, <2>4 DEF NewProfile
    <3> QED
      BY <1>1, <1>2, <1>3, <1>6, <2>3, <3>1, AddAsks
  <2>5. CASE ~daemon
    <3>1. reqs' = reqs /\ Made(n, "add", "failed")
      BY <1>6, <2>5 DEF NewProfile
    <3>2. crashes # 0
      BY <1>4, <2>5
    <3> QED
      BY <1>1, <2>3, <3>1, <3>2, AddQuiet
  <2> QED
    BY <2>4, <2>5
<1>7. CASE hce_export_skeleton_fails(n)
  <2>1. Made(n, "add", "failed") /\ hce_profiles' = hce_profiles /\ reqs' = reqs
    BY <1>7 DEF hce_export_skeleton_fails
  <2> QED
    BY <1>1, <1>3, <2>1, AddQuiet
<1> QED
  BY <1>5, <1>6, <1>7 DEF nfcd_client_add_card_emulation_profile

-----------------------------------------------------------------------------
(* removeCardEmulationProfile and clearCardEmulation.                      *)

\* t is s and then a call for every AID in U, which unregisters it.
LEMMA UnregistersSent ==
  ASSUME NEW s \in Seq(BusCalls), NEW U \in SUBSET Aids, NEW order \in Orders(U),
         NEW t, t = s \o [i \in DOMAIN order |-> UnregisterCall(order[i])]
  PROVE  /\ t \in Seq(BusCalls)
         /\ \A a \in U : LastIn(t, AidCalls(a), Unregisters(a))
         /\ \A a : a \notin U => /\ SameKind(t, s, AidCalls(a))
                                 /\ Free(t, Unregisters(a)) <=> Free(s, Unregisters(a))
         /\ \A b, g : Free(t, RegistersOther(b, g)) <=> Free(s, RegistersOther(b, g))
         /\ \A k : /\ Free(t, RegistersFor(k)) <=> Free(s, RegistersFor(k))
                   /\ Single(s, RegistersFor(k)) => Single(t, RegistersFor(k))
         /\ Single(s, Registers) => Single(t, Registers)
         /\ SameKind(t, s, ModeCalls)
<1> DEFINE u == [i \in DOMAIN order |-> UnregisterCall(order[i])]
<1>1. PICK n \in Nat : order \in [1..n -> U]
  <2>1. PICK k \in 0..Cardinality(U) : order \in [1..k -> U]
    BY DEF Orders
  <2>2. IsFiniteSet(U)
    BY HceAssumption, FS_Subset
  <2>3. Cardinality(U) \in Nat
    BY <2>2, FS_CardinalityType
  <2> QED
    BY <2>1, <2>3
<1>2. /\ \A i, j \in 1..n : order[i] = order[j] => i = j
      /\ U = {order[i] : i \in 1..n}
  BY <1>1 DEF Orders
<1>3. ASSUME NEW i \in 1..n
      PROVE  /\ order[i] \in U /\ u[i] \in BusCalls
             /\ u[i].op = "unregister" /\ u[i].aid = order[i]
  <2>1. order[i] \in Aids /\ order[i] \in U /\ u[i] = UnregisterCall(order[i])
    BY <1>1
  <2> QED
    BY <2>1, HceAssumption DEF UnregisterCall, Req, BusCalls
<1>4. u \in [1..n -> BusCalls]
  BY <1>1, <1>3
<1>5. t = s \o u
  OBVIOUS
<1> HIDE DEF u
<1>6. u \in Seq(BusCalls) /\ Len(u) = n
  BY <1>4, FunctionSeq
<1>7. t \in Seq(BusCalls) /\ Joined(t, s, u)
  BY <1>5, <1>6, JoinedKinds
<1>8. ASSUME NEW i \in 1..n PROVE CallKind(u[i])
  BY <1>3, Kinds
<1>9. ASSUME NEW a \in U PROVE LastIn(u, AidCalls(a), Unregisters(a))
  <2>1. PICK i \in 1..n : order[i] = a
    BY <1>2
  <2>2. u[i] \in AidCalls(a) /\ u[i] \in Unregisters(a)
    BY <1>3, <1>8, <2>1 DEF CallKind
  <2>3. ASSUME NEW j \in 1..n, j > i PROVE u[j] \notin AidCalls(a)
    <3>1. order[j] # a
      BY <1>2, <2>1, <2>3
    <3> QED
      BY <1>3, <1>8, <3>1 DEF CallKind
  <2> QED
    BY <1>6, <2>2, <2>3 DEF LastIn
<1>10. ASSUME NEW a, a \notin U PROVE Free(u, AidCalls(a)) /\ Free(u, Unregisters(a))
  <2>1. \A i \in 1..n : u[i] \notin AidCalls(a) /\ u[i] \notin Unregisters(a)
    BY <1>3, <1>8, <1>10 DEF CallKind
  <2> QED
    BY <1>6, <2>1 DEF Free
<1>11. /\ \A b, g : Free(u, RegistersOther(b, g))
       /\ \A k : Free(u, RegistersFor(k))
       /\ Free(u, Registers) /\ Free(u, ModeCalls)
  <2>1. \A i \in 1..n : /\ \A b, g : u[i] \notin RegistersOther(b, g)
                        /\ \A k : u[i] \notin RegistersFor(k)
                        /\ u[i] \notin Registers /\ u[i] \notin ModeCalls
    BY <1>3, <1>8 DEF CallKind
  <2> QED
    BY <1>6, <2>1 DEF Free
<1>12. \A C : Free(u, C) => SameKind(t, s, C) /\ (Single(s, C) => Single(t, C))
  <2>1. ASSUME NEW C, Free(u, C) PROVE \A V : ~LastIn(u, C, V)
    BY <2>1, LastNotFree
  <2> QED
    BY <1>7, <2>1 DEF Joined, SameKind
<1>13. \A a \in U : LastIn(t, AidCalls(a), Unregisters(a))
  BY <1>7, <1>9 DEF Joined
<1> QED
  BY <1>7, <1>10, <1>11, <1>12, <1>13 DEF SameKind

\* The mode is given up, or nothing is sent.
LEMMA ReleaseSent ==
  ASSUME HceInv, NEW s \in Seq(BusCalls), NEW left, NEW t, t = s \o ReleaseModeCall(left)
  PROVE  /\ t \in Seq(BusCalls)
         /\ \A a : SameKind(t, s, AidCalls(a)) /\ (Free(t, Unregisters(a)) <=> Free(s, Unregisters(a)))
         /\ \A b, g : Free(t, RegistersOther(b, g)) <=> Free(s, RegistersOther(b, g))
         /\ \A k : /\ Free(t, RegistersFor(k)) <=> Free(s, RegistersFor(k))
                   /\ Single(s, RegistersFor(k)) => Single(t, RegistersFor(k))
         /\ Single(s, Registers) => Single(t, Registers)
         /\ left # {} => SameKind(t, s, ModeCalls)
<1> DEFINE q == Req("release_mode", None, "no", 0, 0, hce_mode_request_id)
           u == ReleaseModeCall(left)
<1>1. q \in BusCalls /\ q.op = "release_mode"
  BY HceAssumption DEF Req, BusCalls, HceInv, TypeOK
<1>2. u = <<>> \/ (left = {} /\ u = <<q>>)
  BY DEF ReleaseModeCall
<1>3. t = s \o u
  OBVIOUS
<1> HIDE DEF q, u
<1>4. u \in Seq(BusCalls) /\ (Len(u) = 0 \/ (left = {} /\ Len(u) = 1 /\ u[1] = q))
  <2>1. CASE u = <<>>
    BY <2>1
  <2>2. CASE left = {} /\ u = <<q>>
    BY <1>1, <2>2
  <2> QED
    BY <1>2, <2>1, <2>2
<1>5. t \in Seq(BusCalls) /\ Joined(t, s, u)
  BY <1>3, <1>4, JoinedKinds
<1>6. \A C : q \notin C \/ left # {} => Free(u, C)
  BY <1>4 DEF Free
<1>7. /\ \A a : q \notin AidCalls(a) /\ q \notin Unregisters(a)
      /\ \A b, g : q \notin RegistersOther(b, g)
      /\ \A k : q \notin RegistersFor(k)
      /\ q \notin Registers
  BY <1>1, Kinds DEF CallKind
<1>8. \A C : Free(u, C) => SameKind(t, s, C) /\ (Single(s, C) => Single(t, C))
  <2>1. ASSUME NEW C, Free(u, C) PROVE \A V : ~LastIn(u, C, V)
    BY <2>1, LastNotFree
  <2> QED
    BY <1>5, <2>1 DEF Joined, SameKind
<1> QED
  BY <1>5, <1>6, <1>7, <1>8 DEF SameKind

\* The profiles of as go.  A profile nfcd is not told of is one that was never
\* registered: with callers that wait, no registration of it is on its way.
LEMMA DropStep ==
  ASSUME HceInv, NEW as \in SUBSET Aids, NEW op \in {"remove", "clear"}, NEW n,
         NewCall(as, n), Drop(as, op, n)
  PROVE  HceInv'
<1> DEFINE left == {a \in Aids \ as : Present(a)}
           rel == ReleaseModeCall(left)
           U == Unregistered(as)
<1>1. /\ up' = up /\ crashes' = crashes /\ proxied' = proxied /\ regs' = regs
      /\ modes' = modes /\ rw' = rw /\ inbox' = inbox /\ daemon' = daemon
      /\ hce_event' = hce_event /\ exchanges' = exchanges /\ exchange' = exchange
      /\ hce_mode_request_id' \in {0, hce_mode_request_id}
      /\ Made(n, op, "ok")
  BY DEF Drop, nfcdVars, readerVars
<1>2. hce_profiles' = [a \in Aids |-> IF a \in as THEN NoProfile ELSE hce_profiles[a]]
  BY DEF Drop
<1>3. PICK order \in Orders(U) :
        reqs' = reqs \o [i \in DOMAIN order |-> UnregisterCall(order[i])] \o rel
  BY DEF Drop
<1> DEFINE s == reqs \o [i \in DOMAIN order |-> UnregisterCall(order[i])]
<1>4. U \in SUBSET Aids /\ reqs \in Seq(BusCalls)
  BY DEF Unregistered, HceInv, TypeOK
<1>5. /\ s \in Seq(BusCalls)
      /\ \A a \in U : LastIn(s, AidCalls(a), Unregisters(a))
      /\ \A a : a \notin U => /\ SameKind(s, reqs, AidCalls(a))
                              /\ Free(s, Unregisters(a)) <=> Free(reqs, Unregisters(a))
      /\ \A b, g : Free(s, RegistersOther(b, g)) <=> Free(reqs, RegistersOther(b, g))
      /\ \A k : /\ Free(s, RegistersFor(k)) <=> Free(reqs, RegistersFor(k))
                /\ Single(reqs, RegistersFor(k)) => Single(s, RegistersFor(k))
      /\ Single(reqs, Registers) => Single(s, Registers)
      /\ SameKind(s, reqs, ModeCalls)
  BY <1>4, UnregistersSent
<1>6. reqs' = s \o rel
  BY <1>3
<1> HIDE DEF s, U, left
<1>7. /\ reqs' \in Seq(BusCalls)
      /\ \A a : SameKind(reqs', s, AidCalls(a)) /\ (Free(reqs', Unregisters(a)) <=> Free(s, Unregisters(a)))
      /\ \A b, g : Free(reqs', RegistersOther(b, g)) <=> Free(s, RegistersOther(b, g))
      /\ \A k : /\ Free(reqs', RegistersFor(k)) <=> Free(s, RegistersFor(k))
                /\ Single(s, RegistersFor(k)) => Single(reqs', RegistersFor(k))
      /\ Single(s, Registers) => Single(reqs', Registers)
      /\ left # {} => SameKind(reqs', s, ModeCalls)
  BY <1>5, <1>6, ReleaseSent
<1>8. /\ \A a \in U : LastIn(reqs', AidCalls(a), Unregisters(a))
      /\ \A a : a \notin U => /\ SameKind(reqs', reqs, AidCalls(a))
                              /\ Free(reqs', Unregisters(a)) <=> Free(reqs, Unregisters(a))
      /\ \A b, g : Free(reqs', RegistersOther(b, g)) <=> Free(reqs, RegistersOther(b, g))
      /\ \A k : /\ Free(reqs', RegistersFor(k)) <=> Free(reqs, RegistersFor(k))
                /\ Single(reqs, RegistersFor(k)) => Single(reqs', RegistersFor(k))
      /\ Single(reqs, Registers) => Single(reqs', Registers)
      /\ left # {} => SameKind(reqs', reqs, ModeCalls)
  BY <1>5, <1>7 DEF SameKind
<1>9. /\ n \in 1..MaxCalls /\ ncalls' = n /\ lastop' \in [Aids -> 0..MaxCalls]
      /\ ~Overlap => Free(reqs, Registers) /\ Free(inbox, Registered)
  BY Called
<1>10. ncalls' \in 0..MaxCalls
  BY <1>9, HceAssumption
<1>11. calls' \in [1..MaxCalls -> [op : {"none", "add", "remove", "clear"},
                                   state : {"idle", "pending", "ok", "failed"},
                                   lost : BOOLEAN]]
  BY <1>1, <1>9, MadeFacts
<1>12. hce_profiles \in [Aids -> Profiles] /\ NoProfile \in Profiles /\ NoProfile.gen = 0
  BY HceAssumption DEF HceInv, TypeOK, NoProfile, Profiles
<1>13. /\ hce_profiles' \in [Aids -> Profiles]
       /\ \A a \in Aids : a \in as => hce_profiles'[a].gen = 0
       /\ \A a \in Aids : a \notin as => hce_profiles'[a] = hce_profiles[a]
  BY <1>2, <1>12
<1>14. TypeOK' /\ LinkInv'
  <2>1. hce_mode_request_id' \in ModeIds \union {0}
    BY <1>1 DEF HceInv, TypeOK
  <2> QED
    BY <1>1, <1>7, <1>9, <1>10, <1>11, <1>13, <2>1 DEF HceInv, TypeOK, LinkInv, Profiles
<1>15. CallInv'
  <2>1. \A k \in 1..MaxCalls :
          /\ Single(reqs', RegistersFor(k))
          /\ Free(reqs', RegistersFor(k)) <=> Free(reqs, RegistersFor(k))
    BY <1>8 DEF HceInv, CallInv
  <2> QED
    BY <1>1, <2>1, CallInvKept
<1>16. /\ \A a \in Aids : a \in as => ~Present(a)'
       /\ \A a \in Aids : a \notin as => (Present(a)' <=> Present(a))
  BY <1>13 DEF Present
<1>17. OpInv'
  BY <1>1, <1>16, OpInvKept
<1>18. ModeInv'
  <2> SUFFICES ASSUME crashes = 0, NEW a \in Aids, Present(a)'
               PROVE  \/ LastIn(reqs', ModeCalls, RequestCalls)
                      \/ Free(reqs', ModeCalls) /\ modes \ {rw} # {}
    BY <1>1 DEF ModeInv
  <2>1. Present(a) /\ left # {}
    BY <1>16 DEF left
  <2> QED
    BY <1>8, <2>1 DEF HceInv, ModeInv, SameKind
<1>19. AddInv'
  <2> SUFFICES ASSUME crashes = 0, ~MayReject, NEW a \in Aids, Present(a)'
               PROVE  \/ LastIn(reqs', AidCalls(a), RegistersAid(a))
                      \/ Free(reqs', AidCalls(a)) /\ regs[a] # "no"
    BY <1>1 DEF AddInv
  <2>1. Present(a) /\ a \notin U
    BY <1>16 DEF U, Unregistered
  <2> QED
    BY <1>8, <2>1 DEF HceInv, AddInv, SameKind
<1>20. WaitInv'
  <2> SUFFICES ASSUME ~Overlap
               PROVE  /\ Single(reqs', Registers)
                      /\ \A a \in Aids :
                           /\ Free(reqs', RegistersOther(a, hce_profiles'[a].gen))
                           /\ Free(inbox, RegisteredOther(a, hce_profiles'[a].gen))
    BY <1>1 DEF WaitInv
  <2>1. \A b, g : /\ Free(reqs, RegistersOther(b, g)) /\ Free(inbox, RegisteredOther(b, g))
    BY <1>9 DEF Free, RegistersOther, RegistersAid, RegisteredOther
  <2> QED
    BY <1>8, <2>1 DEF HceInv, WaitInv
<1>21. RouteInv'
  <2> SUFFICES ASSUME crashes = 0, ~Overlap, NEW a \in Aids
               PROVE  /\ Present(a)' => RegisteredNext(a)' \/ RoutedNow(a)'
                      /\ ~Present(a)' => NotRouted(a)'
    BY <1>1 DEF RouteInv
  <2>1. /\ Present(a) => RegisteredNext(a) \/ RoutedNow(a)
        /\ ~Present(a) => NotRouted(a)
        /\ daemon = TRUE
    BY DEF HceInv, RouteInv, LinkInv
  <2>2. CASE a \notin as
    <3>1. a \notin U
      BY <2>2 DEF U, Unregistered
    <3>2. hce_profiles'[a] = hce_profiles[a] /\ (Present(a)' <=> Present(a))
      BY <1>13, <1>16, <2>2
    <3> QED
      BY <1>1, <1>8, <2>1, <3>1, <3>2 DEF RegisteredNext, RoutedNow, NotRouted, SameKind
  <2>3. CASE a \in as /\ a \in U
    BY <1>8, <1>16, <2>3 DEF NotRouted
  <2>4. CASE a \in as /\ a \notin U
    <3>1. NotRouted(a)
      <4>1. CASE Present(a)
        <5>1. hce_profiles[a].registered # TRUE
          BY <2>1, <2>4, <4>1 DEF U, Unregistered
        <5>2. Free(reqs, Registers) /\ Free(inbox, Registered)
          BY <1>9
        <5>3. /\ \A f : Free(reqs, RegistersAs(a, f))
              /\ Free(inbox, RegisteredOk(a))
          BY <5>2 DEF Free, RegistersAs, RegistersAid, RegisteredOk
        <5>4. ~RegisteredNext(a)
          BY <5>3, LastNotFree DEF RegisteredNext
        <5> QED
          BY <2>1, <4>1, <5>1, <5>3, <5>4 DEF RoutedNow, NotRouted
      <4>2. CASE ~Present(a)
        BY <2>1, <4>2
      <4> QED
        BY <4>1, <4>2
    <3>2. NotRouted(a)'
      BY <1>1, <1>8, <2>4, <3>1 DEF NotRouted, SameKind
    <3> QED
      BY <1>16, <2>4, <3>2
  <2> QED
    BY <2>2, <2>3, <2>4
<1> QED
  BY <1>14, <1>15, <1>17, <1>18, <1>19, <1>20, <1>21 DEF HceInv

\* There is no profile to remove.
LEMMA RemoveNothing ==
  ASSUME HceInv, NEW a \in Aids, NEW n, NewCall({a}, n), ~Present(a),
         Made(n, "remove", "ok"),
         UNCHANGED <<nfcdVars, reqs, inbox, daemon, hceVars, readerVars>>
  PROVE  HceInv'
<1>1. /\ up' = up /\ crashes' = crashes /\ proxied' = proxied /\ regs' = regs
      /\ modes' = modes /\ rw' = rw /\ reqs' = reqs /\ inbox' = inbox /\ daemon' = daemon
      /\ hce_profiles' = hce_profiles /\ hce_mode_request_id' = hce_mode_request_id
      /\ hce_event' = hce_event /\ exchanges' = exchanges /\ exchange' = exchange
  BY DEF nfcdVars, hceVars, readerVars
<1>2. /\ n \in 1..MaxCalls /\ ncalls' = n /\ lastop' \in [Aids -> 0..MaxCalls]
  BY Called
<1>3. ncalls' \in 0..MaxCalls
  BY <1>2, HceAssumption
<1>4. calls' \in [1..MaxCalls -> [op : {"none", "add", "remove", "clear"},
                                  state : {"idle", "pending", "ok", "failed"},
                                  lost : BOOLEAN]]
  BY <1>2, MadeFacts
<1>5. TypeOK' /\ LinkInv'
  BY <1>1, <1>2, <1>3, <1>4 DEF HceInv, TypeOK, LinkInv
<1>6. CallInv'
  <2>1. \A k \in 1..MaxCalls : Single(reqs', RegistersFor(k))
    BY <1>1 DEF HceInv, CallInv
  <2> QED
    BY <1>1, <2>1, CallInvKept
<1>7. \A b \in Aids : Present(b)' <=> Present(b)
  BY <1>1 DEF Present
<1>8. OpInv'
  BY <1>7, OpInvKept
<1>9. ModeInv' /\ AddInv' /\ WaitInv'
  BY <1>1, <1>7 DEF HceInv, ModeInv, AddInv, WaitInv
<1>10. RouteInv'
  BY <1>1, <1>7 DEF HceInv, RouteInv, RegisteredNext, RoutedNow, NotRouted
<1> QED
  BY <1>5, <1>6, <1>8, <1>9, <1>10 DEF HceInv

LEMMA CallerStep ==
  ASSUME HceInv, Caller
  PROVE  HceInv'
<1>1. ASSUME NEW a \in Aids, NEW n, nfcd_client_remove_card_emulation_profile(a, n)
      PROVE  HceInv'
  <2>1. CASE Present(a)
    <3>1. NewCall({a}, n) /\ Drop({a}, "remove", n)
      BY <1>1, <2>1 DEF nfcd_client_remove_card_emulation_profile
    <3> QED
      BY <3>1, DropStep
  <2>2. CASE ~Present(a)
    <3>1. /\ NewCall({a}, n) /\ Made(n, "remove", "ok")
          /\ UNCHANGED <<nfcdVars, reqs, inbox, daemon, hceVars, readerVars>>
      BY <1>1, <2>2 DEF nfcd_client_remove_card_emulation_profile
    <3> QED
      BY <2>2, <3>1, RemoveNothing
  <2> QED
    BY <2>1, <2>2
<1>2. ASSUME NEW n, nfcd_client_clear_card_emulation(n) PROVE HceInv'
  BY <1>2, DropStep DEF nfcd_client_clear_card_emulation
<1> QED
  BY <1>1, <1>2, AddStep DEF Caller

-----------------------------------------------------------------------------
(* The invariant holds for ever.                                           *)

LEMMA InitInv == Init => HceInv
<1> SUFFICES ASSUME Init PROVE HceInv
  OBVIOUS
<1>1. rw \in ModeIds /\ modes = {rw}
  <2>1. ModeIds # {}
    <3>1. Cardinality({}) = 0
      BY FS_EmptySet
    <3> QED
      BY <3>1, HceAssumption
  <2> QED
    BY <2>1 DEF Init
<1>2. /\ up = TRUE /\ crashes = 0 /\ proxied = TRUE /\ daemon = TRUE
      /\ regs = [a \in Aids |-> "no"] /\ reqs = <<>> /\ inbox = <<>>
      /\ hce_profiles = [a \in Aids |-> NoProfile] /\ hce_mode_request_id = 0
      /\ hce_event = [aid |-> None, ok |-> FALSE] /\ ncalls = 0
      /\ calls = [n \in 1..MaxCalls |-> [op |-> "none", state |-> "idle", lost |-> FALSE]]
      /\ lastop = [a \in Aids |-> 0] /\ exchanges = 0 /\ exchange = NoExchange
  BY DEF Init
<1>3. Len(reqs) = 0 /\ Len(inbox) = 0
  BY <1>2
<1>4. /\ \A C : Free(reqs, C) /\ Free(inbox, C)
      /\ \A C : Single(reqs, C) /\ Single(inbox, C)
  BY <1>3 DEF Free, Single
<1>5. NoProfile \in Profiles /\ NoProfile.gen = 0
  BY HceAssumption DEF NoProfile, Profiles
<1>6. TypeOK
  <2>1. /\ reqs \in Seq(BusCalls) /\ inbox \in Seq(BusMessages)
    BY <1>2
  <2>2. /\ hce_profiles \in [Aids -> Profiles]
        /\ regs \in [Aids -> {"no", "plain", "implicit"}]
        /\ lastop \in [Aids -> 0..MaxCalls]
        /\ calls \in [1..MaxCalls -> [op : {"none", "add", "remove", "clear"},
                                      state : {"idle", "pending", "ok", "failed"},
                                      lost : BOOLEAN]]
    BY <1>2, <1>5, HceAssumption
  <2>3. /\ crashes \in 0..MaxCrashes /\ ncalls \in 0..MaxCalls /\ exchanges \in 0..MaxExchanges
        /\ exchange \in [aid : Aids \union {None}, response_id : 0..GuintMax]
        /\ hce_event \in [aid : Aids \union {None}, ok : BOOLEAN]
    BY <1>2, HceAssumption DEF NoExchange
  <2> QED
    BY <1>1, <1>2, <2>1, <2>2, <2>3 DEF TypeOK, Profiles
<1>7. LinkInv
  BY <1>1, <1>2, <1>4 DEF LinkInv
<1>8. CallInv
  BY <1>2, <1>4 DEF CallInv
<1>9. \A a \in Aids : ~Present(a) /\ lastop[a] = 0 /\ regs[a] = "no"
  BY <1>2, <1>5 DEF Present
<1>10. OpInv
  BY <1>2, <1>9 DEF OpInv
<1>11. ModeInv /\ AddInv /\ WaitInv /\ RouteInv
  BY <1>4, <1>9 DEF ModeInv, AddInv, WaitInv, RouteInv, NotRouted
<1> QED
  BY <1>6, <1>7, <1>8, <1>10, <1>11 DEF HceInv

LEMMA StutterInv ==
  ASSUME HceInv, UNCHANGED vars
  PROVE  HceInv'
<1>1. /\ up' = up /\ crashes' = crashes /\ proxied' = proxied /\ regs' = regs
      /\ modes' = modes /\ rw' = rw /\ reqs' = reqs /\ inbox' = inbox /\ daemon' = daemon
      /\ hce_profiles' = hce_profiles /\ hce_mode_request_id' = hce_mode_request_id
      /\ hce_event' = hce_event /\ ncalls' = ncalls /\ calls' = calls
      /\ lastop' = lastop /\ exchanges' = exchanges /\ exchange' = exchange
  BY DEF vars, nfcdVars, hceVars, callVars, readerVars
<1>2. TypeOK' /\ LinkInv' /\ CallInv'
  BY <1>1 DEF HceInv, TypeOK, LinkInv, CallInv
<1>3. OpInv' /\ ModeInv' /\ AddInv' /\ WaitInv'
  BY <1>1 DEF HceInv, OpInv, ModeInv, AddInv, WaitInv, Present
<1>4. RouteInv'
  BY <1>1 DEF HceInv, RouteInv, RegisteredNext, RoutedNow, NotRouted, Present
<1> QED
  BY <1>2, <1>3, <1>4 DEF HceInv

LEMMA HceStep ==
  ASSUME HceInv, [Next]_vars
  PROVE  HceInv'
<1>1. CASE Client
  BY <1>1, ClientStep
<1>2. CASE Serve
  BY <1>2, ServeStep
<1>3. CASE Caller
  BY <1>3, CallerStep
<1>4. CASE Reader
  BY <1>4, ReaderStep
<1>5. CASE Crash \/ Restart \/ DaemonProxy
  BY <1>5, CrashStep, RestartStep, DaemonProxyStep
<1>6. CASE UNCHANGED vars
  BY <1>6, StutterInv
<1> QED
  BY <1>1, <1>2, <1>3, <1>4, <1>5, <1>6 DEF Next

(***************************************************************************)
(* The inductive invariant of card emulation: what the calls of            *)
(* hce_do_register(), nfcd_client_remove_card_emulation_profile() and      *)
(* nfcd_client_clear_card_emulation() that are still on their way will     *)
(* make of nfcd's registrations and of the mode.                           *)
(***************************************************************************)
THEOREM HceInvariant == Spec => []HceInv
BY InitInv, HceStep, PTL DEF Spec

(***************************************************************************)
(* Every state is well typed: no luna call is ever answered twice, and     *)
(* whatever hce_register_ready() stores through req->profile, freed or     *)
(* not, leaves a table of profiles.                                        *)
(***************************************************************************)
THEOREM TypeCorrect == Spec => []TypeOK
<1>1. HceInv => TypeOK
  BY DEF HceInv
<1> QED
  BY <1>1, HceInvariant, PTL

\* Nothing is on its way: what the invariant says then.
LEMMA SettledKinds ==
  ASSUME Settled
  PROVE  /\ \A C : Free(reqs, C) /\ Free(inbox, C)
         /\ \A C, V : ~LastIn(reqs, C, V)
<1>1. Len(reqs) = 0 /\ Len(inbox) = 0
  BY DEF Settled
<1> QED
  BY <1>1 DEF Free, LastIn

(***************************************************************************)
(* Until nfcd crashes it has a card-emulation mode request for every       *)
(* profile that it serves, although the adapter forgets ids of requests,   *)
(* calls overlap and registrations are rejected (hce_do_register,          *)
(* hce_mode_ready, nfcd_client_remove_card_emulation_profile).             *)
(***************************************************************************)
THEOREM ModeIsHeld == Spec => []ModeWhileActive
<1>1. HceInv => ModeWhileActive
  BY SettledKinds DEF HceInv, ModeInv, ModeWhileActive
<1> QED
  BY <1>1, HceInvariant, PTL

(***************************************************************************)
(* An add that is answered with success leaves the AID registered, if nfcd *)
(* neither crashes nor rejects a registration: also when adds, removes and *)
(* clears overlap, when the table is cleared under a registration in       *)
(* flight and the AID added again, and when the flag changes.              *)
(***************************************************************************)
THEOREM AddRegisters == Spec => [](crashes = 0 /\ ~MayReject => AddMeansRegistered)
<1>1. ASSUME HceInv, crashes = 0, ~MayReject PROVE AddMeansRegistered
  <2> SUFFICES ASSUME Settled, NEW a \in Aids, LastWas(a, {"add"}) PROVE regs[a] # "no"
    BY DEF AddMeansRegistered
  <2>1. Present(a)
    BY <1>1 DEF HceInv, OpInv, LastWas
  <2> QED
    BY <1>1, <2>1, SettledKinds DEF HceInv, AddInv
<1>2. HceInv => (crashes = 0 /\ ~MayReject => AddMeansRegistered)
  BY <1>1
<1> QED
  BY <1>2, HceInvariant, PTL

(***************************************************************************)
(* With callers that wait for each answer, an AID that was removed or      *)
(* cleared is not registered, until nfcd crashes: the profiles that        *)
(* nfcd_client_remove_card_emulation_profile() does not unregister are     *)
(* those whose registration was rejected.                                  *)
(***************************************************************************)
THEOREM RemoveUnregisters ==
  Spec => [](crashes = 0 /\ ~Overlap => RemoveMeansUnregistered)
<1>1. ASSUME HceInv, crashes = 0, ~Overlap PROVE RemoveMeansUnregistered
  <2> SUFFICES ASSUME Settled, NEW a \in Aids, LastWas(a, {"remove", "clear"})
               PROVE  regs[a] = "no"
    BY DEF RemoveMeansUnregistered
  <2>1. ~Present(a)
    BY <1>1 DEF HceInv, OpInv, LastWas
  <2> QED
    BY <1>1, <2>1, SettledKinds DEF HceInv, RouteInv, NotRouted
<1>2. HceInv => (crashes = 0 /\ ~Overlap => RemoveMeansUnregistered)
  BY <1>1
<1> QED
  BY <1>2, HceInvariant, PTL

(***************************************************************************)
(* With callers that wait for each answer, nfcd routes an AID by the flag  *)
(* of its profile, until nfcd crashes: the add that changes the flag       *)
(* unregisters the AID first, and nothing registers it in between.         *)
(***************************************************************************)
THEOREM FlagFollows == Spec => [](crashes = 0 /\ ~Overlap => FlagIsCurrent)
<1>1. ASSUME HceInv, crashes = 0, ~Overlap PROVE FlagIsCurrent
  <2> SUFFICES ASSUME Settled, NEW a \in Aids, regs[a] # "no", Present(a)
               PROVE  regs[a] = Flag(hce_profiles[a].implicit)
    BY DEF FlagIsCurrent
  <2> QED
    BY <1>1, SettledKinds DEF HceInv, RouteInv, RegisteredNext, RoutedNow
<1>2. HceInv => (crashes = 0 /\ ~Overlap => FlagIsCurrent)
  BY <1>1
<1> QED
  BY <1>2, HceInvariant, PTL

(***************************************************************************)
(* hce_handle_process() never hands out response id 0, the wrap of the     *)
(* counter included, nor the id of the profile's last exchange.            *)
(***************************************************************************)
THEOREM UsableIds == Spec => ResponseIdsUsable
<1>1. ASSUME HceInv, NEW a \in Aids, hce_handle_process(a)
      PROVE  /\ exchange'.response_id # 0
             /\ exchange'.response_id # hce_profiles[a].next_response_id
  <2>1. hce_profiles[a].next_response_id \in 0..GuintMax
    BY <1>1 DEF HceInv, TypeOK
  <2>2. exchange'.response_id = FreshId(hce_profiles[a])
    BY <1>1 DEF hce_handle_process
  <2> QED
    BY <2>1, <2>2, FreshIdValue
<1>2. HceInv => [\A a \in Aids :
                   hce_handle_process(a) =>
                     /\ exchange'.response_id # 0
                     /\ exchange'.response_id # hce_profiles[a].next_response_id]_vars
  BY <1>1
<1> QED
  BY <1>2, HceInvariant, PTL DEF ResponseIdsUsable

-----------------------------------------------------------------------------
(* The contract of module Request.                                         *)

\* What a step makes of the luna calls: nothing, or one of them is made or,
\* if it waits, answered.
LEMMA CallSteps ==
  ASSUME HceInv, [Next]_vars
  PROVE  \/ \A k \in 1..MaxCalls : calls'[k].state = calls[k].state
         \/ \E n \in 1..MaxCalls :
              /\ \A k \in 1..MaxCalls : k # n => calls'[k].state = calls[k].state
              /\ \/ calls[n].state = "idle" /\ calls'[n].state \in {"pending", "ok", "failed"}
                 \/ calls[n].state = "pending" /\ calls'[n].state \in {"ok", "failed"}
<1> DEFINE Goal ==
         \/ \A k \in 1..MaxCalls : calls'[k].state = calls[k].state
         \/ \E n \in 1..MaxCalls :
              /\ \A k \in 1..MaxCalls : k # n => calls'[k].state = calls[k].state
              /\ \/ calls[n].state = "idle" /\ calls'[n].state \in {"pending", "ok", "failed"}
                 \/ calls[n].state = "pending" /\ calls'[n].state \in {"ok", "failed"}
<1> SUFFICES Goal
  OBVIOUS
<1>1. calls \in [1..MaxCalls -> [op : {"none", "add", "remove", "clear"},
                                 state : {"idle", "pending", "ok", "failed"},
                                 lost : BOOLEAN]]
  BY DEF HceInv, TypeOK
<1>2. ASSUME calls' = calls PROVE Goal
  BY <1>2
<1>3. ASSUME NEW as, NEW n, NewCall(as, n), NEW op \in {"add", "remove", "clear"},
             NEW state \in {"pending", "ok", "failed"}, Made(n, op, state)
      PROVE  Goal
  <2>1. n \in 1..MaxCalls /\ calls[n].state = "idle"
    BY <1>3, Called
  <2>2. calls'[n].state = state /\ \A k \in 1..MaxCalls : k # n => calls'[k] = calls[k]
    BY <1>3, <2>1, MadeFacts
  <2> QED
    BY <2>1, <2>2
<1>4. CASE Caller
  <2>1. ASSUME NEW a \in Aids, NEW implicit \in BOOLEAN, NEW n,
               nfcd_client_add_card_emulation_profile(a, implicit, n)
        PROVE  Goal
    <3>1. NewCall({a}, n) /\ \E state \in {"pending", "ok", "failed"} : Made(n, "add", state)
      BY <2>1 DEF nfcd_client_add_card_emulation_profile, UpdateProfile, NewProfile,
                  hce_export_skeleton_fails
    <3> HIDE DEF Goal
    <3> QED
      BY <1>3, <3>1
  <2>2. ASSUME NEW a \in Aids, NEW n, nfcd_client_remove_card_emulation_profile(a, n)
        PROVE  Goal
    <3>1. NewCall({a}, n) /\ Made(n, "remove", "ok")
      BY <2>2 DEF nfcd_client_remove_card_emulation_profile, Drop
    <3> HIDE DEF Goal
    <3> QED
      BY <1>3, <3>1
  <2>3. ASSUME NEW n, nfcd_client_clear_card_emulation(n) PROVE Goal
    <3>1. NewCall(Aids, n) /\ Made(n, "clear", "ok")
      BY <2>3 DEF nfcd_client_clear_card_emulation, Drop
    <3> HIDE DEF Goal
    <3> QED
      BY <1>3, <3>1
  <2> HIDE DEF Goal
  <2> QED
    BY <1>4, <2>1, <2>2, <2>3 DEF Caller
<1>5. CASE hce_register_ready
  <2> DEFINE m == Head(inbox)
             n == m.call
  <2>1. /\ m \in BusMessages /\ m.op = "register" /\ MessageKind(m)
        /\ ~Free(inbox, RegisteredFor(n))
    BY <1>5, Dispatched DEF hce_register_ready, MessageKind
  <2>2. n \in 1..MaxCalls /\ Tell(n, m.ok)
    BY <1>5, <2>1, MessageFields, HceAssumption DEF hce_register_ready
  <2>3. calls[n].state = "pending"
    BY <2>1, <2>2 DEF HceInv, CallInv
  <2> HIDE DEF m, n
  <2>4. /\ calls'[n].state \in {"ok", "failed"}
        /\ \A k \in 1..MaxCalls : k # n => calls'[k] = calls[k]
    BY <1>1, <2>2, <2>3 DEF Tell
  <2> QED
    BY <2>2, <2>3, <2>4
<1>6. CASE Crash
  <2>1. calls' = [n \in 1..MaxCalls |-> [calls[n] EXCEPT !.lost = n <= ncalls]]
    BY <1>1, <1>6 DEF Crash
  <2>2. ASSUME NEW k \in 1..MaxCalls PROVE calls'[k].state = calls[k].state
    <3>1. /\ calls'[k] = [calls[k] EXCEPT !.lost = k <= ncalls]
          /\ calls[k] \in [op : {"none", "add", "remove", "clear"},
                           state : {"idle", "pending", "ok", "failed"}, lost : BOOLEAN]
      BY <1>1, <2>1
    <3> QED
      BY <3>1
  <2> QED
    BY <2>2
<1>7. CASE \/ daemon_vanished \/ daemon_proxy_ready \/ hce_mode_ready \/ Serve \/ Reader
           \/ Restart \/ DaemonProxy \/ UNCHANGED vars
  <2>1. calls' = calls
    BY <1>7 DEF daemon_vanished, daemon_proxy_ready, hce_mode_ready, Serve, Reader,
                hce_handle_process, hce_handle_response_status, Restart, DaemonProxy, vars, callVars
  <2> QED
    BY <1>2, <2>1
<1> HIDE DEF Goal
<1> QED
  BY <1>4, <1>5, <1>6, <1>7 DEF Next, Client

\* So every step is a step of the contract, or none.
LEMMA ContractSim ==
  ASSUME HceInv, [Next]_vars
  PROVE  [Contract!Next]_[n \in 1..MaxCalls |-> calls[n].state]
<1> DEFINE phase == [n \in 1..MaxCalls |-> calls[n].state]
<1>1. CASE \A k \in 1..MaxCalls : calls'[k].state = calls[k].state
  BY <1>1
<1>2. ASSUME NEW n \in 1..MaxCalls,
             \A k \in 1..MaxCalls : k # n => calls'[k].state = calls[k].state,
             \/ calls[n].state = "idle" /\ calls'[n].state \in {"pending", "ok", "failed"}
             \/ calls[n].state = "pending" /\ calls'[n].state \in {"ok", "failed"}
      PROVE  [Contract!Next]_phase
  <2>1. phase' = [phase EXCEPT ![n] = calls'[n].state] /\ phase[n] = calls[n].state
    BY <1>2
  <2>2. CASE calls[n].state = "idle" /\ calls'[n].state = "pending"
    BY <2>1, <2>2 DEF Contract!Next, Contract!Ask
  <2>3. CASE calls[n].state = "idle" /\ calls'[n].state \in {"ok", "failed"}
    BY <2>1, <2>3 DEF Contract!Next, Contract!AnswerAtOnce, Contract!Answers
  <2>4. CASE calls[n].state = "pending" /\ calls'[n].state \in {"ok", "failed"}
    BY <2>1, <2>4 DEF Contract!Next, Contract!Answer, Contract!Answers
  <2> QED
    BY <1>2, <2>2, <2>3, <2>4
<1> QED
  BY <1>1, <1>2, CallSteps

(***************************************************************************)
(* nfcd_client.h's promise of one callback per call, for add, remove and   *)
(* clear: no call is answered twice or before it is made, whatever         *)
(* overlaps, is rejected or crashes.  With the liveness that TLC checks    *)
(* this is CallsAnswered.                                                  *)
(***************************************************************************)
THEOREM AnsweredOnce == Spec => Contract!Safety
<1>1. Init => Contract!Init
  BY DEF Init, Contract!Init
<1>2. HceInv /\ [Next]_vars => [Contract!Next]_[n \in 1..MaxCalls |-> calls[n].state]
  BY ContractSim
<1> QED
  BY <1>1, <1>2, HceInvariant, PTL DEF Spec, Contract!Safety
=============================================================================
