-------------------------- MODULE NfcdLink_proofs --------------------------
(***************************************************************************)
(* Proof that the client's view of nfcd is right whenever everything on    *)
(* its way has been handled, for any number of crashes, restarts, adapters *)
(* and tags, and with queues of any length.                                *)
(*                                                                         *)
(* The invariant says what the queues still bring.  While nfcd is down, or *)
(* before the client hears of a new instance, the messages to come leave   *)
(* the client detached (DetachInv).  Once it has heard, it asks for a      *)
(* daemon proxy, the mode and the daemon's properties (ModeInv, DaemonInv).*)
(* When the last daemon_get_all has been answered (Synced), the last word  *)
(* on the adapter that is still to come is right, and if no change of the  *)
(* adapter is to come, the client has asked for it or follows it (SyncInv).*)
(* The hard part is an adapter attached to through an early signal: its    *)
(* calls are behind the daemon's in the queue (AheadInv), so its answer    *)
(* comes last and pushes the version that daemon_get_all_ready() stored.   *)
(***************************************************************************)
EXTENDS NfcdLink, QueueLemmas

Calls ==
  {q \in [t : ReqNames, path : Adapters \union {None}] :
     (q.path # None) = (q.t \in {"adapter_proxy", "adapter_get_all"})}

Messages ==
  {m \in [t : MsgNames, path : Adapters \union {None}, tag : Tags \union {None},
          ok : BOOLEAN] :
     m.t \in {"adapter_proxy", "adapter_get_all", "tags_changed", "present_changed"}
       => m.path # None}

-----------------------------------------------------------------------------
(* Kinds of calls and messages.                                            *)

CallsOf(t) == {q \in Calls : q.t = t}
CallsOn(p) == {q \in Calls : q.path = p}
ProxyCalls == CallsOf("daemon_proxy") \union CallsOf("adapter_proxy")
ReadCalls(p) == CallsOf("adapter_get_all") \intersect CallsOn(p)
GetAllCalls(p) == CallsOf("daemon_get_all") \union ReadCalls(p)

Named(t) == {m \in Messages : m.t = t}
Answers(t) == {m \in Messages : m.t = t /\ m.ok}
On(p) == {m \in Messages : m.path = p}
Shows(p, t) == {m \in Messages : m.path = p /\ m.tag = t}
Owner == Named("appeared") \union Named("vanished")
ProxyAnswers == Named("daemon_proxy") \union Named("adapter_proxy")
GetAllAnswers == Answers("daemon_get_all") \union Answers("adapter_get_all")

\* What tells the client of the adapter, of the tag, and of the rest.
AdapterNews == Named("adapters_changed") \union Answers("daemon_get_all")
TagNews == Named("tags_changed") \union Answers("adapter_get_all")
PresentNews == Named("present_changed") \union Answers("adapter_get_all")
News == AdapterNews \union TagNews \union PresentNews
NewsElsewhere(p) == AdapterNews \ On(p)

\* What an adapter says, and what says that it is gone.
Losses == Named("adapters_changed") \union Named("vanished")
Sayings == TagNews \union PresentNews \union Losses

-----------------------------------------------------------------------------
(* The invariant.                                                          *)

Types ==
  /\ up \in BOOLEAN /\ nadapter \in Adapters \union {None}
  /\ ntag \in Tags \union {None} /\ held \in Nat /\ events \in 0..MaxEvents
  /\ reqs \in Seq(Calls) /\ inbox \in Seq(Messages)
  /\ daemon \in BOOLEAN /\ daemon_version \in {0, 1}
  /\ mode_request_id \in {0, 1}
  /\ adapter \in Adapters \union {None}
  /\ adapter_path \in Adapters \union {None}
  /\ available \in BOOLEAN /\ present \in BOOLEAN
  /\ tag_path \in Tags \union {None}
  /\ pushed \in [available : BOOLEAN, adapter_path : Adapters \union {None},
                 present : BOOLEAN, daemon_version : {0, 1}]

\* A call is out; a call is out or its answer is in the inbox.
Waits(t) == ~Free(reqs, CallsOf(t))
Pending(t) == Waits(t) \/ ~Free(inbox, Named(t))

\* nfcd is up, and the client knows of it or hears of it next.
OwnerInv ==
  /\ ~up => nadapter = None
  /\ nadapter = None => ntag = None
  /\ up => Free(inbox, Owner) \/ LastIn(inbox, Owner, Named("appeared"))
  /\ nadapter = None => Free(inbox, Sayings) \/ LastIn(inbox, Sayings, Losses)

Detached ==
  /\ adapter_path = None /\ available = FALSE /\ tag_path = None
  /\ daemon_version = 0
  /\ pushed.adapter_path = None /\ pushed.daemon_version = 0

\* Once the first n messages are handled the client is detached.
DetachedAfter(n) ==
  \/ \E j \in 1..n : /\ inbox[j] \in Named("vanished")
                     /\ \A k \in 1..n : k > j => inbox[k] \notin News
  \/ Detached /\ \A k \in 1..n : inbox[k] \notin News

\* It is when nfcd is gone, and whenever it hears of a new one.
DetachInv ==
  /\ ~up => DetachedAfter(Len(inbox))
  /\ \A i \in 1..Len(inbox) : inbox[i] \in Named("appeared") => DetachedAfter(i - 1)

\* The last adapter proxy asked for is that of adapter_path.
ProxyInv ==
  adapter_path # None =>
    \/ LastIn(reqs, CallsOf("adapter_proxy"), CallsOn(adapter_path))
    \/ /\ Free(reqs, CallsOf("adapter_proxy"))
       /\ LastIn(inbox, Named("adapter_proxy"), On(adapter_path))
    \/ ~Pending("adapter_proxy") /\ adapter = adapter_path

PushInv == pushed.available = available /\ pushed.present = present

\* nfcd is up and the client has heard so.
Connecting == up /\ Free(inbox, Owner)

\* It asks for reader/writer mode then, and for the daemon proxy.
ModeInv ==
  Connecting =>
    \/ Pending("daemon_proxy")
    \/ Waits("request_mode")
    \/ held >= 1 /\ (mode_request_id = 1 \/ ~Free(inbox, Answers("request_mode")))
DaemonInv == Connecting => daemon = TRUE \/ Pending("daemon_proxy")

\* An adapter that is attached to before the daemon has answered is asked
\* after the daemon.
AheadInv ==
  Connecting /\ adapter_path # None =>
    /\ Waits("daemon_proxy") =>
         LastIn(reqs, ProxyCalls, CallsOf("adapter_proxy"))
    /\ ~Free(inbox, Named("daemon_proxy")) =>
         \/ Waits("adapter_proxy")
         \/ LastIn(inbox, ProxyAnswers, Named("adapter_proxy"))
    /\ Waits("daemon_get_all") =>
         \/ Pending("adapter_proxy")
         \/ LastIn(reqs, GetAllCalls(adapter_path), CallsOf("adapter_get_all"))

\* The daemon has answered, for the last time since nfcd came up.
Synced == Connecting /\ ~Pending("daemon_proxy") /\ ~Waits("daemon_get_all")

\* No adapter change is on its way.
Exact == adapter_path = nadapter /\ Free(inbox, NewsElsewhere(nadapter))

\* nfcd has no adapter, and the client hears so or shows none.
NoAdapter ==
  \/ ~Free(inbox, AdapterNews)
  \/ /\ Free(inbox, News) /\ available = FALSE /\ tag_path = None
     /\ pushed.adapter_path = None /\ pushed.daemon_version = 1

\* The client listens to the adapter, and shows or hears next what it has.
Follows ==
  /\ adapter = nadapter
  /\ \/ LastIn(inbox, TagNews, Shows(nadapter, ntag))
     \/ Free(inbox, TagNews) /\ tag_path = ntag
  /\ \/ LastIn(inbox, PresentNews, Shows(nadapter, ntag))
     \/ Free(inbox, PresentNews) /\ present = (ntag # None)
  /\ \/ LastIn(inbox, GetAllAnswers, Answers("adapter_get_all"))
     \/ /\ available = TRUE /\ pushed.adapter_path = nadapter
        /\ pushed.daemon_version = 1 /\ daemon_version = 1

\* The adapter is asked for, or followed.
Attached ==
  \/ Pending("adapter_proxy")
  \/ ~Free(reqs, ReadCalls(nadapter))
  \/ Follows

SyncInv ==
  Synced =>
    /\ ~Free(inbox, Answers("daemon_get_all")) \/ daemon_version = 1
    /\ \/ LastIn(inbox, AdapterNews, On(nadapter))
       \/ Free(inbox, AdapterNews) /\ adapter_path = nadapter
    /\ Exact /\ nadapter = None => NoAdapter
    /\ Exact /\ nadapter # None => Attached

LinkInv ==
  /\ Types /\ OwnerInv /\ DetachInv /\ ProxyInv /\ PushInv
  /\ ModeInv /\ DaemonInv /\ AheadInv /\ SyncInv

-----------------------------------------------------------------------------
(* Which kinds a message or a call is of.                                  *)

KindOf(m) ==
  /\ \A t : m \in Named(t) <=> m.t = t
  /\ \A t : m \in Answers(t) <=> m.t = t /\ m.ok = TRUE
  /\ \A p : m \in On(p) <=> m.path = p
  /\ \A p, t : m \in Shows(p, t) <=> m.path = p /\ m.tag = t
  /\ m \in Owner <=> m.t \in {"appeared", "vanished"}
  /\ m \in ProxyAnswers <=> m.t \in {"daemon_proxy", "adapter_proxy"}
  /\ m \in GetAllAnswers <=> m.t \in {"daemon_get_all", "adapter_get_all"} /\ m.ok = TRUE
  /\ m \in AdapterNews <=> m.t = "adapters_changed" \/ (m.t = "daemon_get_all" /\ m.ok = TRUE)
  /\ m \in TagNews <=> m.t = "tags_changed" \/ (m.t = "adapter_get_all" /\ m.ok = TRUE)
  /\ m \in PresentNews <=> m.t = "present_changed" \/ (m.t = "adapter_get_all" /\ m.ok = TRUE)
  /\ m \in News <=> m \in AdapterNews \/ m \in TagNews \/ m \in PresentNews
  /\ \A p : m \in NewsElsewhere(p) <=> m \in AdapterNews /\ m.path # p
  /\ m \in Losses <=> m.t \in {"adapters_changed", "vanished"}
  /\ m \in Sayings <=> m \in TagNews \/ m \in PresentNews \/ m \in Losses

LEMMA Kinds ==
  ASSUME NEW m \in Messages
  PROVE  KindOf(m)
<1>1. /\ \A t : m \in Named(t) <=> m.t = t
      /\ \A t : m \in Answers(t) <=> m.t = t /\ m.ok = TRUE
      /\ \A p : m \in On(p) <=> m.path = p
      /\ \A p, t : m \in Shows(p, t) <=> m.path = p /\ m.tag = t
  BY DEF Named, Answers, On, Shows, Messages
<1>2. m \in AdapterNews <=> m.t = "adapters_changed" \/ (m.t = "daemon_get_all" /\ m.ok = TRUE)
  BY <1>1 DEF AdapterNews
<1>3. m \in TagNews <=> m.t = "tags_changed" \/ (m.t = "adapter_get_all" /\ m.ok = TRUE)
  BY <1>1 DEF TagNews
<1>4. m \in PresentNews <=> m.t = "present_changed" \/ (m.t = "adapter_get_all" /\ m.ok = TRUE)
  BY <1>1 DEF PresentNews
<1>5. /\ m \in Owner <=> m.t \in {"appeared", "vanished"}
      /\ m \in ProxyAnswers <=> m.t \in {"daemon_proxy", "adapter_proxy"}
      /\ m \in GetAllAnswers <=> m.t \in {"daemon_get_all", "adapter_get_all"} /\ m.ok = TRUE
      /\ m \in Losses <=> m.t \in {"adapters_changed", "vanished"}
  BY <1>1 DEF Owner, ProxyAnswers, GetAllAnswers, Losses
<1>6. /\ m \in News <=> m \in AdapterNews \/ m \in TagNews \/ m \in PresentNews
      /\ \A p : m \in NewsElsewhere(p) <=> m \in AdapterNews /\ m.path # p
      /\ m \in Sayings <=> m \in TagNews \/ m \in PresentNews \/ m \in Losses
  BY <1>1 DEF News, NewsElsewhere, Sayings
<1> QED
  BY <1>1, <1>2, <1>3, <1>4, <1>5, <1>6 DEF KindOf

KindOfCall(q) ==
  /\ \A t : q \in CallsOf(t) <=> q.t = t
  /\ \A p : q \in CallsOn(p) <=> q.path = p
  /\ q \in ProxyCalls <=> q.t \in {"daemon_proxy", "adapter_proxy"}
  /\ \A p : q \in ReadCalls(p) <=> q.t = "adapter_get_all" /\ q.path = p
  /\ \A p : q \in GetAllCalls(p) <=> q.t = "daemon_get_all" \/ q \in ReadCalls(p)

LEMMA CallKinds ==
  ASSUME NEW q \in Calls
  PROVE  KindOfCall(q)
<1>1. /\ \A t : q \in CallsOf(t) <=> q.t = t
      /\ \A p : q \in CallsOn(p) <=> q.path = p
  BY DEF CallsOf, CallsOn
<1> QED
  BY <1>1 DEF KindOfCall, ProxyCalls, ReadCalls, GetAllCalls

-----------------------------------------------------------------------------
(* What a step does to the queues.                                         *)

\* The client takes message m, of type t.
Took(m, t) ==
  /\ m = Head(inbox) /\ m.t = t
  /\ inbox' \in Seq(Messages) /\ Popped(inbox', inbox, m)
  /\ up' = up /\ nadapter' = nadapter /\ ntag' = ntag /\ held' = held /\ events' = events

\* Call q is made.
Made(q) == q \in Calls /\ reqs' \in Seq(Calls) /\ Pushed(reqs', reqs, q)

LEMMA Dispatched ==
  ASSUME Types, NEW t, Dispatch(t)
  PROVE  \E m \in Messages : Took(m, t) /\ KindOf(m)
<1>1. inbox \in Seq(Messages) /\ inbox # <<>> /\ inbox' = Tail(inbox) /\ Head(inbox).t = t
  BY DEF Types, Dispatch
<1>2. Head(inbox) \in Messages /\ inbox' \in Seq(Messages)
  BY <1>1, Taken
<1>3. Popped(inbox', inbox, Head(inbox))
  BY <1>1, TakenKinds
<1> QED
  BY <1>1, <1>2, <1>3, Kinds DEF Took, Dispatch, nfcdVars

LEMMA Called ==
  ASSUME Types, NEW q \in Calls, Call(q)
  PROVE  Made(q)
<1>1. reqs \in Seq(Calls) /\ reqs' = Append(reqs, q)
  BY DEF Types, Call
<1> QED
  BY <1>1, Appended, AppendedKinds DEF Made

\* A call for an adapter, and one for the daemon.
LEMMA CallTypes ==
  /\ \A t \in {"daemon_proxy", "daemon_get_all", "request_mode"} : Req(t, None) \in Calls
  /\ \A t \in {"adapter_proxy", "adapter_get_all"}, p \in Adapters : Req(t, p) \in Calls
  /\ \A t, p : Req(t, p).t = t /\ Req(t, p).path = p
BY LinkAssumption DEF Req, Calls, ReqNames

\* Messages of nfcd and of the bus are added to the inbox.
LEMMA DetachGrows ==
  ASSUME Types, DetachInv, inbox' \in Seq(Messages),
         Len(inbox') >= Len(inbox), \A k \in 1..Len(inbox) : inbox'[k] = inbox[k],
         Detached' <=> Detached,
         \A i \in 1..Len(inbox') : i > Len(inbox) /\ inbox'[i] \in Named("appeared") =>
           i = Len(inbox) + 1 /\ ~up,
         ~up' => /\ Len(inbox') = Len(inbox) + 1
                 /\ \/ inbox'[Len(inbox) + 1] \in Named("vanished")
                    \/ ~up /\ inbox'[Len(inbox) + 1] \notin News
  PROVE  DetachInv'
<1>1. Len(inbox) \in Nat /\ Len(inbox') \in Nat
  BY LenProperties DEF Types
<1>2. ASSUME NEW n \in 0..Len(inbox), DetachedAfter(n) PROVE DetachedAfter(n)'
  <2>1. \A k \in 1..n : inbox'[k] = inbox[k]
    BY <1>1
  <2> QED
    BY <1>2, <2>1 DEF DetachedAfter
<1>3. ASSUME ~up' PROVE DetachedAfter(Len(inbox))'
  <2> DEFINE n == Len(inbox)
  <2>1. CASE inbox'[n + 1] \in Named("vanished")
    <3>1. n + 1 \in 1..n + 1 /\ \A k \in 1..n + 1 : ~(k > n + 1)
      BY <1>1
    <3> QED
      BY <1>3, <2>1, <3>1 DEF DetachedAfter
  <2>2. CASE ~up /\ inbox'[n + 1] \notin News
    <3>1. DetachedAfter(n)
      BY <2>2 DEF DetachInv
    <3> QED
      BY <1>1, <1>3, <2>2, <3>1 DEF DetachedAfter
  <2> QED
    BY <1>3, <2>1, <2>2
<1>4. ASSUME NEW i \in 1..Len(inbox'), inbox'[i] \in Named("appeared")
      PROVE  DetachedAfter(i - 1)'
  <2>1. i - 1 \in 0..Len(inbox)
    BY <1>1, <1>4
  <2>2. CASE i \in 1..Len(inbox)
    BY <1>2, <1>4, <2>1, <2>2 DEF DetachInv
  <2>3. CASE i > Len(inbox)
    BY <1>1, <1>2, <1>4, <2>1, <2>3 DEF DetachInv
  <2> QED
    BY <1>1, <2>2, <2>3
<1> QED
  BY <1>3, <1>4 DEF DetachInv

\* The client handles the head.
LEMMA DetachTaken ==
  ASSUME Types, DetachInv, NEW m \in Messages, NEW t, Dispatch(t), m = Head(inbox),
         m \in Named("vanished") => Detached',
         m \notin News /\ m \notin Named("vanished") => (Detached => Detached')
  PROVE  DetachInv'
<1>1. /\ Len(inbox) \in Nat \ {0} /\ Len(inbox') = Len(inbox) - 1 /\ m = inbox[1]
      /\ \A k \in 1..Len(inbox') : inbox'[k] = inbox[k + 1] /\ k + 1 \in 1..Len(inbox)
      /\ up' = up
  BY Taken DEF Types, Dispatch, nfcdVars
<1>2. ASSUME NEW n \in 1..Len(inbox), DetachedAfter(n) PROVE DetachedAfter(n - 1)'
  <2>1. \A k \in 1..n - 1 : inbox'[k] = inbox[k + 1] /\ k + 1 \in 1..n
    BY <1>1
  <2>2. ASSUME NEW j \in 1..n, j # 1, inbox[j] \in Named("vanished"),
               \A k \in 1..n : k > j => inbox[k] \notin News
        PROVE  DetachedAfter(n - 1)'
    <3>1. j - 1 \in 1..n - 1 /\ inbox'[j - 1] \in Named("vanished")
      BY <1>1, <2>1, <2>2
    <3>2. \A k \in 1..n - 1 : k > j - 1 => inbox'[k] \notin News
      BY <1>1, <2>1, <2>2
    <3> QED
      BY <3>1, <3>2 DEF DetachedAfter
  <2>3. ASSUME \A k \in 1..n : k > 1 => inbox[k] \notin News, Detached'
        PROVE  DetachedAfter(n - 1)'
    <3>1. \A k \in 1..n - 1 : inbox'[k] \notin News
      BY <1>1, <2>1, <2>3
    <3> QED
      BY <2>3, <3>1 DEF DetachedAfter
  <2>4. CASE Detached /\ \A k \in 1..n : inbox[k] \notin News
    <3>1. m \notin News
      BY <1>1, <2>4
    <3> QED
      BY <2>3, <2>4, <3>1
  <2>5. ASSUME NEW j \in 1..n, inbox[j] \in Named("vanished"),
               \A k \in 1..n : k > j => inbox[k] \notin News
        PROVE  DetachedAfter(n - 1)'
    BY <1>1, <2>2, <2>3, <2>5
  <2> QED
    BY <1>2, <2>4, <2>5 DEF DetachedAfter
<1>3. ~up' => DetachedAfter(Len(inbox))'
  BY <1>1, <1>2 DEF DetachInv
<1>4. ASSUME NEW i \in 1..Len(inbox'), inbox'[i] \in Named("appeared")
      PROVE  DetachedAfter(i - 1)'
  <2>1. i + 1 \in 1..Len(inbox) /\ inbox[i + 1] \in Named("appeared") /\ i \in 1..Len(inbox)
    BY <1>1, <1>4
  <2>2. DetachedAfter((i + 1) - 1) /\ (i + 1) - 1 = i
    BY <2>1 DEF DetachInv
  <2> QED
    BY <1>2, <2>1, <2>2
<1> QED
  BY <1>3, <1>4 DEF DetachInv

-----------------------------------------------------------------------------
(* The client's callbacks, one by one.                                     *)

LEMMA AppearedStep ==
  ASSUME LinkInv, daemon_appeared
  PROVE  LinkInv'
<1>1. PICK m \in Messages : Took(m, "appeared") /\ KindOf(m)
  BY Dispatched DEF LinkInv, daemon_appeared
<1> DEFINE q == Req("daemon_proxy", None)
<1>2. Made(q) /\ KindOfCall(q) /\ q.t = "daemon_proxy"
  BY CallTypes, Called, CallKinds DEF LinkInv, daemon_appeared
<1> HIDE DEF q
<1>3. UNCHANGED <<daemon, daemon_version, mode_request_id, adapter, adapter_path,
                  available, present, tag_path, pushed>>
  BY DEF daemon_appeared, daemonVars, adapterVars
<1>4. Types'
  BY <1>1, <1>2, <1>3 DEF LinkInv, Types, Took, Made
<1>5. OwnerInv'
  BY <1>1 DEF LinkInv, OwnerInv, Took, KindOf, Popped
<1>6. DetachInv'
  BY <1>1, <1>3, DetachTaken DEF LinkInv, daemon_appeared, Detached, Took, KindOf
<1>7. adapter_path = None
  <2>1. Len(inbox) \in Nat \ {0} /\ inbox[1] = m
    BY <1>1, Taken DEF LinkInv, Types, daemon_appeared, Dispatch, Took
  <2>2. DetachedAfter(1 - 1)
    BY <1>1, <2>1 DEF LinkInv, DetachInv, Took, KindOf
  <2> QED
    BY <2>2 DEF DetachedAfter, Detached
<1>8. ProxyInv' /\ AheadInv' /\ PushInv'
  BY <1>3, <1>7 DEF LinkInv, ProxyInv, AheadInv, PushInv
<1>9. Pending("daemon_proxy")'
  BY <1>2 DEF Pending, Waits, Made, KindOfCall, Pushed
<1> QED
  BY <1>4, <1>5, <1>6, <1>8, <1>9 DEF LinkInv, ModeInv, DaemonInv, SyncInv, Synced

LEMMA VanishedStep ==
  ASSUME LinkInv, daemon_vanished
  PROVE  LinkInv'
<1>1. PICK m \in Messages : Took(m, "vanished") /\ KindOf(m)
  BY Dispatched DEF LinkInv, daemon_vanished
<1>2. /\ daemon' = FALSE /\ daemon_version' = 0 /\ mode_request_id' = 0
      /\ adapter' = None /\ adapter_path' = None /\ available' = FALSE /\ tag_path' = None
      /\ present' = present /\ reqs' = reqs
      /\ pushed' = [available |-> FALSE, adapter_path |-> None, present |-> present,
                    daemon_version |-> 0]
  BY DEF daemon_vanished, attach_adapter, notify_state, Status
<1>3. Types'
  BY <1>1, <1>2 DEF LinkInv, Types, Took
<1>4. OwnerInv'
  BY <1>1 DEF LinkInv, OwnerInv, Took, KindOf, Popped
<1>5. DetachInv'
  BY <1>1, <1>2, DetachTaken DEF LinkInv, daemon_vanished, Detached, Took
<1>6. ProxyInv' /\ AheadInv' /\ PushInv'
  BY <1>2 DEF LinkInv, ProxyInv, AheadInv, PushInv
<1>7. ~Connecting'
  BY <1>1 DEF LinkInv, OwnerInv, Connecting, Took, KindOf, Popped
<1> QED
  BY <1>3, <1>4, <1>5, <1>6, <1>7 DEF LinkInv, ModeInv, DaemonInv, SyncInv, Synced

LEMMA DaemonProxyStep ==
  ASSUME LinkInv, daemon_proxy_ready
  PROVE  LinkInv'
<1>1. PICK m \in Messages : Took(m, "daemon_proxy") /\ KindOf(m)
  BY Dispatched DEF LinkInv, daemon_proxy_ready
<1> DEFINE q1 == Req("daemon_get_all", None)
           q2 == Req("request_mode", None)
           r1 == Append(reqs, q1)
<1>2. /\ q1 \in Calls /\ KindOfCall(q1) /\ q1.t = "daemon_get_all"
      /\ q2 \in Calls /\ KindOfCall(q2) /\ q2.t = "request_mode"
  BY CallTypes, CallKinds
<1>3. reqs \in Seq(Calls) /\ reqs' = Append(r1, q2)
  BY DEF LinkInv, Types, daemon_proxy_ready
<1> HIDE DEF q1, q2
<1>4. r1 \in Seq(Calls) /\ Pushed(r1, reqs, q1)
  BY <1>2, <1>3, Appended, AppendedKinds
<1> HIDE DEF r1
<1>5. reqs' \in Seq(Calls) /\ Pushed(reqs', r1, q2)
  BY <1>2, <1>3, <1>4, Appended, AppendedKinds
<1>6. /\ daemon' = TRUE /\ mode_request_id' = 0
      /\ UNCHANGED <<daemon_version, adapter, adapter_path, available, present, tag_path,
                     pushed>>
  BY DEF daemon_proxy_ready, adapterVars
<1>7. Types'
  BY <1>1, <1>5, <1>6 DEF LinkInv, Types, Took
<1>8. OwnerInv'
  BY <1>1 DEF LinkInv, OwnerInv, Took, KindOf, Popped
<1>9. DetachInv'
  BY <1>1, <1>6, DetachTaken DEF LinkInv, daemon_proxy_ready, Detached, Took, KindOf
<1>10. Waits("daemon_get_all")' /\ Waits("request_mode")'
  BY <1>2, <1>4, <1>5 DEF Waits, KindOfCall, Pushed
<1>11. ModeInv' /\ DaemonInv' /\ SyncInv' /\ PushInv'
  BY <1>6, <1>10 DEF LinkInv, ModeInv, DaemonInv, SyncInv, Synced, PushInv
<1>12. ProxyInv'
  BY <1>1, <1>2, <1>4, <1>5, <1>6
     DEF LinkInv, ProxyInv, Pending, Waits, Took, KindOf, KindOfCall, Popped, Pushed
<1>13. AheadInv'
  <2>1. /\ up' = up /\ (Free(inbox', Owner) <=> Free(inbox, Owner))
        /\ ~Free(inbox, Named("daemon_proxy"))
        /\ LastIn(inbox, ProxyAnswers, Named("adapter_proxy")) =>
             LastIn(inbox', ProxyAnswers, Named("adapter_proxy"))
        /\ LastIn(inbox', ProxyAnswers, Named("adapter_proxy")) =>
             ~Free(inbox', Named("adapter_proxy"))
    BY <1>1 DEF Took, KindOf, Popped
  <2>2. /\ Waits("daemon_proxy")' <=> Waits("daemon_proxy")
        /\ Waits("adapter_proxy")' <=> Waits("adapter_proxy")
        /\ LastIn(reqs', ProxyCalls, CallsOf("adapter_proxy")) <=>
             LastIn(reqs, ProxyCalls, CallsOf("adapter_proxy"))
    BY <1>2, <1>4, <1>5 DEF Waits, KindOfCall, Pushed
  <2> QED
    BY <1>6, <2>1, <2>2 DEF LinkInv, AheadInv, Connecting, Pending
<1> QED
  BY <1>7, <1>8, <1>9, <1>11, <1>12, <1>13 DEF LinkInv

\* A message that tells nothing about adapters and tags.
LEMMA IdleStep ==
  ASSUME LinkInv, NEW m \in Messages, NEW t, Dispatch(t), Took(m, t), KindOf(m),
         m \notin Owner, m \notin News, m \notin ProxyAnswers,
         UNCHANGED <<daemon, daemon_version, adapter, adapter_path, available, present,
                     tag_path, pushed, reqs>>
  PROVE  /\ OwnerInv' /\ DetachInv' /\ ProxyInv' /\ PushInv' /\ DaemonInv'
         /\ AheadInv' /\ SyncInv'
<1>1. /\ m \notin Named("appeared") /\ m \notin Named("vanished")
      /\ m \notin Named("daemon_proxy") /\ m \notin Named("adapter_proxy")
      /\ m \notin AdapterNews /\ m \notin TagNews /\ m \notin PresentNews
      /\ m \notin GetAllAnswers /\ m \notin Answers("daemon_get_all")
      /\ m \notin Answers("adapter_get_all")
      /\ \A p : m \notin NewsElsewhere(p)
  BY DEF KindOf
<1>2. /\ up' = up /\ nadapter' = nadapter /\ ntag' = ntag
      /\ \A C : m \notin C => (Free(inbox', C) <=> Free(inbox, C))
      /\ \A C, V : m \notin C => (LastIn(inbox', C, V) <=> LastIn(inbox, C, V))
      /\ \A C, V : LastIn(inbox, C, V) => LastIn(inbox', C, V) \/ Free(inbox', C)
      /\ \A C : Free(inbox, C) => Free(inbox', C)
  BY DEF Took, Popped
<1>3. OwnerInv'
  BY <1>2 DEF LinkInv, OwnerInv
<1>4. DetachInv'
  <2>1. Detached => Detached'
    BY DEF Detached
  <2> QED
    BY <1>1, <2>1, DetachTaken DEF LinkInv, Took
<1>5. ProxyInv' /\ PushInv'
  BY <1>1, <1>2 DEF LinkInv, ProxyInv, PushInv, Pending, Waits
<1>6. Connecting' <=> Connecting
  BY <1>2 DEF Connecting
<1>7. DaemonInv' /\ AheadInv'
  BY <1>1, <1>2, <1>6 DEF LinkInv, DaemonInv, AheadInv, Pending, Waits
<1>8. SyncInv'
  <2>1. (Synced' <=> Synced) /\ (Exact' <=> Exact)
    BY <1>1, <1>2, <1>6 DEF Synced, Exact, Pending, Waits
  <2>2. (NoAdapter' <=> NoAdapter) /\ (Attached' <=> Attached)
    BY <1>1, <1>2 DEF NoAdapter, Attached, Follows, Pending, Waits
  <2> QED
    BY <1>1, <1>2, <2>1, <2>2 DEF LinkInv, SyncInv
<1> QED
  BY <1>3, <1>4, <1>5, <1>7, <1>8

LEMMA ModeStep ==
  ASSUME LinkInv, request_reader_writer_mode_ready
  PROVE  LinkInv'
<1>1. PICK m \in Messages : Took(m, "request_mode") /\ KindOf(m)
  BY Dispatched DEF LinkInv, request_reader_writer_mode_ready
<1>2. /\ mode_request_id' = IF m.ok = TRUE THEN 1 ELSE mode_request_id
      /\ UNCHANGED <<daemon, daemon_version, adapter, adapter_path, available, present,
                     tag_path, pushed, reqs>>
  BY <1>1 DEF request_reader_writer_mode_ready, adapterVars, Took, Messages
<1>3. Types'
  BY <1>1, <1>2 DEF LinkInv, Types, Took
<1>4. /\ OwnerInv' /\ DetachInv' /\ ProxyInv' /\ PushInv' /\ DaemonInv'
      /\ AheadInv' /\ SyncInv'
  <2>1. m \notin Owner /\ m \notin News /\ m \notin ProxyAnswers
    BY <1>1 DEF Took, KindOf
  <2> QED
    BY <1>1, <1>2, <2>1, IdleStep DEF request_reader_writer_mode_ready
<1>5. ModeInv'
  BY <1>1, <1>2 DEF LinkInv, ModeInv, Connecting, Pending, Waits, Took, KindOf, Popped
<1> QED
  BY <1>3, <1>4, <1>5 DEF LinkInv

LEMMA AdapterProxyStep ==
  ASSUME LinkInv, adapter_proxy_ready
  PROVE  LinkInv'
<1>1. PICK m \in Messages : Took(m, "adapter_proxy") /\ KindOf(m) /\ m.path \in Adapters
  BY Dispatched DEF LinkInv, adapter_proxy_ready, Took, Messages
<1> DEFINE q == Req("adapter_get_all", m.path)
<1>2. /\ Made(q) /\ KindOfCall(q) /\ q.t = "adapter_get_all" /\ q.path = m.path
  BY <1>1, CallTypes, Called, CallKinds DEF LinkInv, adapter_proxy_ready, Took
<1> HIDE DEF q
<1>3. /\ adapter' = m.path
      /\ UNCHANGED <<daemon, daemon_version, mode_request_id, adapter_path, available,
                     present, tag_path, pushed>>
  BY <1>1 DEF adapter_proxy_ready, daemonVars, Took
<1>4. Types'
  BY <1>1, <1>2, <1>3 DEF LinkInv, Types, Took, Made
<1>5. /\ m \in Named("adapter_proxy") /\ m \in ProxyAnswers
      /\ m \notin Owner /\ m \notin News /\ m \notin Named("vanished")
      /\ m \notin Named("daemon_proxy")
      /\ m \notin AdapterNews /\ m \notin TagNews /\ m \notin PresentNews
      /\ m \notin GetAllAnswers /\ m \notin Answers("daemon_get_all")
      /\ m \notin Answers("request_mode")
      /\ \A p : m \notin NewsElsewhere(p)
      /\ \A p : m \in On(p) <=> m.path = p
  BY <1>1 DEF Took, KindOf
<1>6. /\ up' = up /\ nadapter' = nadapter /\ ntag' = ntag /\ held' = held
      /\ \A C : m \notin C => (Free(inbox', C) <=> Free(inbox, C))
      /\ \A C, V : m \notin C => (LastIn(inbox', C, V) <=> LastIn(inbox, C, V))
      /\ \A C, V : LastIn(inbox, C, V) =>
           LastIn(inbox', C, V) \/ (m \in C /\ m \in V /\ Free(inbox', C))
      /\ \A C : Free(inbox, C) => Free(inbox', C)
      /\ \A C : m \in C => ~Free(inbox, C)
      /\ \A C, V : LastIn(inbox', C, V) => ~Free(inbox', C)
  BY <1>1 DEF Took, Popped
<1>7. /\ \A t : t # "adapter_get_all" =>
           (Free(reqs', CallsOf(t)) <=> Free(reqs, CallsOf(t)))
      /\ \A V : LastIn(reqs', CallsOf("adapter_proxy"), V) <=>
                  LastIn(reqs, CallsOf("adapter_proxy"), V)
      /\ \A V : LastIn(reqs', ProxyCalls, V) <=> LastIn(reqs, ProxyCalls, V)
      /\ \A p : ~Free(reqs, ReadCalls(p)) => ~Free(reqs', ReadCalls(p))
      /\ ~Free(reqs', ReadCalls(m.path))
      /\ LastIn(reqs', GetAllCalls(m.path), CallsOf("adapter_get_all"))
      /\ \A p : LastIn(reqs, GetAllCalls(p), CallsOf("adapter_get_all")) =>
                  LastIn(reqs', GetAllCalls(p), CallsOf("adapter_get_all"))
      /\ \A C, V : LastIn(reqs, C, V) => ~Free(reqs, C)
  BY <1>2 DEF Made, KindOfCall, Pushed
<1>8. OwnerInv'
  BY <1>6 DEF LinkInv, OwnerInv
<1>9. DetachInv'
  BY <1>1, <1>3, <1>5, DetachTaken DEF LinkInv, adapter_proxy_ready, Detached, Took
<1>10. ProxyInv'
  BY <1>3, <1>5, <1>6, <1>7 DEF LinkInv, ProxyInv, Pending, Waits
<1>11. Connecting' <=> Connecting
  BY <1>5, <1>6 DEF Connecting
<1>12. PushInv' /\ ModeInv' /\ DaemonInv'
  BY <1>3, <1>5, <1>6, <1>7, <1>11 DEF LinkInv, PushInv, ModeInv, DaemonInv, Pending, Waits
<1>13. adapter_path # None => Pending("adapter_proxy")' \/ adapter_path = m.path
  BY <1>5, <1>6, <1>7 DEF LinkInv, ProxyInv, Pending, Waits
<1>14. AheadInv'
  <2> SUFFICES ASSUME Connecting, adapter_path # None PROVE AheadInv'
    BY <1>3, <1>11 DEF AheadInv
  <2>1. /\ Waits("daemon_proxy") => LastIn(reqs, ProxyCalls, CallsOf("adapter_proxy"))
        /\ ~Free(inbox, Named("daemon_proxy")) =>
             \/ Waits("adapter_proxy")
             \/ LastIn(inbox, ProxyAnswers, Named("adapter_proxy"))
        /\ Waits("daemon_get_all") =>
             \/ Pending("adapter_proxy")
             \/ LastIn(reqs, GetAllCalls(adapter_path), CallsOf("adapter_get_all"))
    BY DEF LinkInv, AheadInv
  <2>2. Waits("daemon_proxy")' => LastIn(reqs', ProxyCalls, CallsOf("adapter_proxy"))
    BY <1>7, <2>1 DEF Waits
  <2>3. ~Free(inbox', Named("daemon_proxy")) =>
          \/ Waits("adapter_proxy")'
          \/ LastIn(inbox', ProxyAnswers, Named("adapter_proxy"))
    <3>1. Free(inbox', ProxyAnswers) => Free(inbox', Named("daemon_proxy"))
      BY DEF Free, ProxyAnswers
    <3> QED
      BY <1>5, <1>6, <1>7, <2>1, <3>1 DEF Waits
  <2>4. Waits("daemon_get_all")' =>
          \/ Pending("adapter_proxy")'
          \/ LastIn(reqs', GetAllCalls(adapter_path), CallsOf("adapter_get_all"))
    BY <1>7, <1>13
  <2> QED
    BY <1>3, <2>2, <2>3, <2>4 DEF AheadInv
<1>15. SyncInv'
  <2>1. (Synced' <=> Synced) /\ (Exact' <=> Exact) /\ (NoAdapter' <=> NoAdapter)
    BY <1>3, <1>5, <1>6, <1>7, <1>11 DEF Synced, Exact, NoAdapter, Pending, Waits
  <2>2. Exact /\ nadapter # None => Attached'
    BY <1>6, <1>7, <1>13 DEF Exact, Attached
  <2> QED
    BY <1>3, <1>5, <1>6, <2>1, <2>2 DEF LinkInv, SyncInv
<1> QED
  BY <1>4, <1>8, <1>9, <1>10, <1>12, <1>14, <1>15 DEF LinkInv

\* What a message on the adapter leaves alone.
LEMMA SayingStep ==
  ASSUME LinkInv, NEW m \in Messages, NEW t, Dispatch(t), Took(m, t), KindOf(m),
         t \in {"tags_changed", "present_changed", "adapter_get_all"},
         UNCHANGED <<daemon, daemon_version, mode_request_id, adapter, adapter_path, reqs>>,
         m \notin News => (Detached => Detached')
  PROVE  /\ OwnerInv' /\ DetachInv' /\ ProxyInv' /\ ModeInv' /\ DaemonInv' /\ AheadInv'
         /\ (Synced' <=> Synced) /\ (Exact' <=> Exact)
         /\ Synced => /\ daemon_version = 1 \/ ~Free(inbox', Answers("daemon_get_all"))
                      /\ \/ LastIn(inbox', AdapterNews, On(nadapter))
                         \/ Free(inbox', AdapterNews) /\ adapter_path = nadapter
<1>1. /\ m \notin Owner /\ m \notin Named("vanished") /\ m \notin ProxyAnswers
      /\ m \notin Named("daemon_proxy") /\ m \notin Named("adapter_proxy")
      /\ m \notin AdapterNews /\ m \notin Answers("daemon_get_all")
      /\ m \notin Answers("request_mode")
      /\ \A p : m \notin NewsElsewhere(p)
  BY DEF Took, KindOf
<1>2. /\ up' = up /\ nadapter' = nadapter /\ ntag' = ntag /\ held' = held
      /\ \A C : m \notin C => (Free(inbox', C) <=> Free(inbox, C))
      /\ \A C, V : m \notin C => (LastIn(inbox', C, V) <=> LastIn(inbox, C, V))
      /\ \A C, V : LastIn(inbox, C, V) => LastIn(inbox', C, V) \/ Free(inbox', C)
      /\ \A C : Free(inbox, C) => Free(inbox', C)
  BY DEF Took, Popped
<1>3. OwnerInv'
  BY <1>2 DEF LinkInv, OwnerInv
<1>4. DetachInv'
  BY <1>1, DetachTaken DEF LinkInv, Took
<1>5. Connecting' <=> Connecting
  BY <1>1, <1>2 DEF Connecting
<1>6. ProxyInv' /\ ModeInv' /\ DaemonInv' /\ AheadInv'
  BY <1>1, <1>2, <1>5 DEF LinkInv, ProxyInv, ModeInv, DaemonInv, AheadInv, Pending, Waits
<1>7. (Synced' <=> Synced) /\ (Exact' <=> Exact)
  BY <1>1, <1>2, <1>5 DEF Synced, Exact, Pending, Waits
<1>8. Synced => /\ daemon_version = 1 \/ ~Free(inbox', Answers("daemon_get_all"))
                /\ \/ LastIn(inbox', AdapterNews, On(nadapter))
                   \/ Free(inbox', AdapterNews) /\ adapter_path = nadapter
  BY <1>1, <1>2 DEF LinkInv, SyncInv
<1> QED
  BY <1>3, <1>4, <1>6, <1>7, <1>8

LEMMA TagsChangedStep ==
  ASSUME LinkInv, adapter_tags_changed
  PROVE  LinkInv'
<1>1. PICK m \in Messages : /\ Took(m, "tags_changed") /\ KindOf(m)
                            /\ m.tag \in Tags \union {None}
  BY Dispatched DEF LinkInv, adapter_tags_changed, Messages
<1>2. /\ tag_path' = IF Connected(m.path) THEN m.tag ELSE tag_path
      /\ UNCHANGED <<daemon, daemon_version, mode_request_id, adapter, adapter_path,
                     available, present, pushed, reqs>>
  BY <1>1 DEF adapter_tags_changed, daemonVars, Took
<1>3. Types' /\ PushInv'
  BY <1>1, <1>2 DEF LinkInv, Types, PushInv, Took
<1>4. /\ m \in TagNews /\ m \in News /\ m \notin PresentNews /\ m \notin GetAllAnswers
      /\ \A p, t : m \in Shows(p, t) <=> m.path = p /\ m.tag = t
  BY <1>1 DEF Took, KindOf
<1>5. /\ nadapter' = nadapter /\ ntag' = ntag
      /\ \A C : m \notin C => (Free(inbox', C) <=> Free(inbox, C))
      /\ \A C, V : m \notin C => (LastIn(inbox', C, V) <=> LastIn(inbox, C, V))
      /\ \A C, V : LastIn(inbox, C, V) =>
           LastIn(inbox', C, V) \/ (m \in C /\ m \in V /\ Free(inbox', C))
      /\ \A C : m \in C => ~Free(inbox, C)
  BY <1>1 DEF Took, Popped
<1>6. /\ OwnerInv' /\ DetachInv' /\ ProxyInv' /\ ModeInv' /\ DaemonInv' /\ AheadInv'
      /\ (Synced' <=> Synced) /\ (Exact' <=> Exact)
      /\ Synced => /\ daemon_version = 1 \/ ~Free(inbox', Answers("daemon_get_all"))
                   /\ \/ LastIn(inbox', AdapterNews, On(nadapter))
                      \/ Free(inbox', AdapterNews) /\ adapter_path = nadapter
  BY <1>1, <1>2, <1>4, SayingStep DEF adapter_tags_changed
<1>7. SyncInv'
  <2>1. m \notin AdapterNews /\ m \notin Named("adapter_proxy")
    BY <1>1 DEF Took, KindOf
  <2>2. NoAdapter => NoAdapter'
    BY <1>4, <1>5, <2>1 DEF NoAdapter
  <2>3. Follows => Follows'
    <3>1. adapter = nadapter /\ m.path = nadapter => tag_path' = m.tag
      BY <1>2 DEF Connected
    <3> QED
      BY <1>2, <1>4, <1>5, <3>1 DEF Follows
  <2>4. Attached => Attached'
    BY <1>2, <1>5, <2>1, <2>3 DEF Attached, Pending, Waits
  <2> QED
    BY <1>2, <1>5, <1>6, <2>2, <2>4 DEF LinkInv, SyncInv
<1> QED
  BY <1>3, <1>6, <1>7 DEF LinkInv

LEMMA PresentChangedStep ==
  ASSUME LinkInv, adapter_present_changed
  PROVE  LinkInv'
<1>1. PICK m \in Messages : Took(m, "present_changed") /\ KindOf(m)
  BY Dispatched DEF LinkInv, adapter_present_changed
<1>2. /\ UNCHANGED <<daemon, daemon_version, mode_request_id, adapter, adapter_path,
                     available, tag_path, reqs>>
      /\ \/ UNCHANGED <<present, pushed>> /\ ~Connected(m.path)
         \/ /\ present' = (m.tag # None)
            /\ pushed' = [available |-> available, adapter_path |-> adapter_path,
                          present |-> present', daemon_version |-> daemon_version]
  BY <1>1 DEF adapter_present_changed, daemonVars, adapterVars, Took, notify_state, Status
<1>3. Types' /\ PushInv'
  <2>1. CASE UNCHANGED <<present, pushed>>
    BY <1>1, <1>2, <2>1 DEF LinkInv, Types, PushInv, Took
  <2>2. CASE /\ present' = (m.tag # None)
             /\ pushed' = [available |-> available, adapter_path |-> adapter_path,
                           present |-> present', daemon_version |-> daemon_version]
    <3>1. present' \in BOOLEAN
      BY <2>2
    <3>2. pushed'.available = available /\ pushed'.present = present'
      BY <2>2
    <3>3. pushed' \in [available : BOOLEAN, adapter_path : Adapters \union {None},
                       present : BOOLEAN, daemon_version : {0, 1}]
      BY <2>2, <3>1 DEF LinkInv, Types
    <3> QED
      BY <1>1, <1>2, <3>1, <3>2, <3>3 DEF LinkInv, Types, PushInv, Took
  <2> QED
    BY <1>2, <2>1, <2>2
<1>4. /\ m \in PresentNews /\ m \in News /\ m \notin TagNews /\ m \notin GetAllAnswers
      /\ \A p, t : m \in Shows(p, t) <=> m.path = p /\ m.tag = t
  BY <1>1 DEF Took, KindOf
<1>5. /\ nadapter' = nadapter /\ ntag' = ntag
      /\ \A C : m \notin C => (Free(inbox', C) <=> Free(inbox, C))
      /\ \A C, V : m \notin C => (LastIn(inbox', C, V) <=> LastIn(inbox, C, V))
      /\ \A C, V : LastIn(inbox, C, V) =>
           LastIn(inbox', C, V) \/ (m \in C /\ m \in V /\ Free(inbox', C))
      /\ \A C : m \in C => ~Free(inbox, C)
  BY <1>1 DEF Took, Popped
<1>6. /\ OwnerInv' /\ DetachInv' /\ ProxyInv' /\ ModeInv' /\ DaemonInv' /\ AheadInv'
      /\ (Synced' <=> Synced) /\ (Exact' <=> Exact)
      /\ Synced => /\ daemon_version = 1 \/ ~Free(inbox', Answers("daemon_get_all"))
                   /\ \/ LastIn(inbox', AdapterNews, On(nadapter))
                      \/ Free(inbox', AdapterNews) /\ adapter_path = nadapter
  BY <1>1, <1>2, <1>4, SayingStep DEF adapter_present_changed
<1>7. SyncInv'
  <2>1. m \notin AdapterNews /\ m \notin Named("adapter_proxy")
    BY <1>1 DEF Took, KindOf
  <2>2. NoAdapter => NoAdapter'
    BY <1>4, <1>5, <2>1 DEF NoAdapter
  <2>3. Exact /\ Follows => Follows'
    <3>1. adapter = nadapter /\ m.path = nadapter => present' = (m.tag # None)
      BY <1>2 DEF Connected
    <3>2. \/ LastIn(inbox', PresentNews, Shows(nadapter, ntag))
          \/ Free(inbox', PresentNews) /\ present' = (ntag # None)
          \/ ~Follows
      BY <1>4, <1>5, <3>1 DEF Follows
    <3>3. pushed' = pushed \/ (/\ pushed'.adapter_path = adapter_path
                               /\ pushed'.daemon_version = daemon_version)
      BY <1>2
    <3> QED
      BY <1>2, <1>4, <1>5, <3>2, <3>3 DEF Follows, Exact
  <2>4. Exact /\ Attached => Attached'
    BY <1>2, <1>5, <2>1, <2>3 DEF Attached, Pending, Waits
  <2> QED
    BY <1>2, <1>5, <1>6, <2>2, <2>4 DEF LinkInv, SyncInv
<1> QED
  BY <1>3, <1>6, <1>7 DEF LinkInv

LEMMA AdapterGetAllStep ==
  ASSUME LinkInv, adapter_get_all_ready
  PROVE  LinkInv'
<1>1. PICK m \in Messages : /\ Took(m, "adapter_get_all") /\ KindOf(m)
                            /\ m.tag \in Tags \union {None} /\ m.ok \in BOOLEAN
  BY Dispatched DEF LinkInv, adapter_get_all_ready, Messages
<1>2. UNCHANGED <<daemon, daemon_version, mode_request_id, adapter, adapter_path, reqs>>
  BY DEF adapter_get_all_ready, daemonVars, adapterVars
<1>3. CASE m.ok = FALSE
  <2>1. UNCHANGED <<available, present, tag_path, pushed>>
    BY <1>1, <1>3 DEF adapter_get_all_ready, adapterVars, Took
  <2>2. Types'
    BY <1>1, <1>2, <2>1 DEF LinkInv, Types, Took
  <2>3. m \notin Owner /\ m \notin News /\ m \notin ProxyAnswers
    BY <1>1, <1>3 DEF Took, KindOf
  <2>4. /\ OwnerInv' /\ DetachInv' /\ ProxyInv' /\ PushInv' /\ DaemonInv'
        /\ AheadInv' /\ SyncInv'
    BY <1>1, <1>2, <2>1, <2>3, IdleStep DEF adapter_get_all_ready
  <2>5. ModeInv'
    BY <1>1, <1>2 DEF LinkInv, ModeInv, Connecting, Pending, Waits, Took, KindOf, Popped
  <2> QED
    BY <2>2, <2>4, <2>5 DEF LinkInv
<1>4. CASE m.ok = TRUE
  <2>1. /\ present' = (m.tag # None) /\ available' = TRUE /\ tag_path' = m.tag
        /\ pushed' = [available |-> TRUE, adapter_path |-> adapter_path,
                      present |-> present', daemon_version |-> daemon_version]
    BY <1>1, <1>4 DEF adapter_get_all_ready, notify_state, Status, Took
  <2>2. Types' /\ PushInv'
    BY <1>1, <1>2, <2>1 DEF LinkInv, Types, PushInv, Took
  <2>3. /\ m \in PresentNews /\ m \in TagNews /\ m \in News /\ m \in GetAllAnswers
        /\ m \notin AdapterNews /\ m \notin Named("adapter_proxy")
        /\ m \notin Answers("daemon_get_all")
        /\ \A p, t : m \in Shows(p, t) <=> m.path = p /\ m.tag = t
    BY <1>1, <1>4 DEF Took, KindOf
  <2>4. /\ nadapter' = nadapter /\ ntag' = ntag
        /\ \A C : m \notin C => (Free(inbox', C) <=> Free(inbox, C))
        /\ \A C, V : LastIn(inbox, C, V) =>
             LastIn(inbox', C, V) \/ (m \in C /\ m \in V /\ Free(inbox', C))
        /\ \A C : m \in C => ~Free(inbox, C)
    BY <1>1 DEF Took, Popped
  <2>5. /\ OwnerInv' /\ DetachInv' /\ ProxyInv' /\ ModeInv' /\ DaemonInv' /\ AheadInv'
        /\ (Synced' <=> Synced) /\ (Exact' <=> Exact)
        /\ Synced => /\ daemon_version = 1 \/ ~Free(inbox', Answers("daemon_get_all"))
                     /\ \/ LastIn(inbox', AdapterNews, On(nadapter))
                        \/ Free(inbox', AdapterNews) /\ adapter_path = nadapter
    BY <1>1, <1>2, <2>3, SayingStep DEF adapter_get_all_ready
  <2>6. SyncInv'
    <3>1. NoAdapter => NoAdapter'
      BY <2>3, <2>4 DEF NoAdapter
    <3>2. Synced /\ Exact /\ Follows => Follows'
      <4>1. ASSUME Synced, Exact, Follows
            PROVE  /\ LastIn(inbox', GetAllAnswers, Answers("adapter_get_all"))
                      \/ (/\ available' = TRUE /\ pushed'.adapter_path = nadapter
                          /\ pushed'.daemon_version = 1 /\ daemon_version = 1)
        <5>1. Free(inbox', GetAllAnswers) => Free(inbox', Answers("daemon_get_all"))
          BY DEF Free, GetAllAnswers
        <5>2. pushed'.adapter_path = adapter_path /\ pushed'.daemon_version = daemon_version
          BY <2>1
        <5> QED
          BY <2>1, <2>4, <2>5, <4>1, <5>1, <5>2 DEF Follows, Exact
      <4> QED
        BY <1>2, <2>1, <2>3, <2>4, <4>1 DEF Follows
    <3>3. Synced /\ Exact /\ Attached => Attached'
      BY <1>2, <2>3, <2>4, <3>2 DEF Attached, Pending, Waits
    <3> QED
      BY <1>2, <2>4, <2>5, <3>1, <3>3 DEF LinkInv, SyncInv
  <2> QED
    BY <2>2, <2>5, <2>6 DEF LinkInv
<1> QED
  BY <1>1, <1>3, <1>4

\* attach_adapter() for an adapter change that is handled.
LEMMA AttachStep ==
  ASSUME LinkInv, NEW m \in Messages, NEW t, Dispatch(t), Took(m, t), KindOf(m),
         m \in AdapterNews, daemon_version' \in {0, 1},
         daemon_version' = IF t = "daemon_get_all" THEN 1 ELSE daemon_version,
         attach_adapter(m.path, daemon_version'),
         UNCHANGED <<daemon, mode_request_id>>
  PROVE  LinkInv'
<1>1. /\ m.path \in Adapters \union {None}
      /\ t \in {"adapters_changed", "daemon_get_all"}
      /\ t = "daemon_get_all" <=> m \in Answers("daemon_get_all")
  BY DEF Messages, Took, KindOf
<1>2. /\ m \in News /\ m \notin Owner /\ m \notin Named("vanished")
      /\ m \notin Named("daemon_proxy") /\ m \notin Named("adapter_proxy")
      /\ m \notin ProxyAnswers /\ m \notin TagNews /\ m \notin PresentNews
      /\ m \notin Answers("request_mode") /\ m \notin Answers("adapter_get_all")
      /\ \A p : m \in NewsElsewhere(p) <=> m.path # p
      /\ \A p : m \in On(p) <=> m.path = p
  BY <1>1 DEF Took, KindOf
<1>3. /\ up' = up /\ nadapter' = nadapter /\ ntag' = ntag /\ held' = held /\ events' = events
      /\ inbox' \in Seq(Messages)
      /\ \A C : m \notin C => (Free(inbox', C) <=> Free(inbox, C))
      /\ \A C, V : m \notin C => (LastIn(inbox', C, V) <=> LastIn(inbox, C, V))
      /\ \A C, V : LastIn(inbox, C, V) =>
           LastIn(inbox', C, V) \/ (m \in C /\ m \in V /\ Free(inbox', C))
      /\ \A C : Free(inbox, C) => Free(inbox', C)
      /\ \A C : m \in C => ~Free(inbox, C)
      /\ \A C : Free(inbox, C) <=> m \notin C /\ Free(inbox', C)
  BY DEF Took, Popped
<1>4. OwnerInv'
  BY <1>3 DEF LinkInv, OwnerInv
<1>5. DetachInv'
  BY <1>2, DetachTaken DEF LinkInv, Took
<1>6. Connecting' <=> Connecting
  BY <1>2, <1>3 DEF Connecting
<1>7. CASE m.path = None
  <2>1. /\ adapter' = None /\ adapter_path' = None /\ available' = FALSE /\ tag_path' = None
        /\ present' = present /\ reqs' = reqs
        /\ pushed' = [available |-> FALSE, adapter_path |-> None, present |-> present,
                      daemon_version |-> daemon_version']
    BY <1>7 DEF attach_adapter, notify_state, Status
  <2>2. Types' /\ PushInv' /\ ProxyInv' /\ AheadInv'
    BY <1>3, <2>1 DEF LinkInv, Types, PushInv, ProxyInv, AheadInv
  <2>3. ModeInv' /\ DaemonInv'
    BY <1>2, <1>3, <1>6, <2>1 DEF LinkInv, ModeInv, DaemonInv, Pending, Waits
  <2>4. SyncInv'
    <3>1. Synced' <=> Synced
      BY <1>2, <1>3, <1>6, <2>1 DEF Synced, Pending, Waits
    <3> SUFFICES ASSUME Synced PROVE SyncInv'
      BY <3>1 DEF SyncInv
    <3>2. ~Free(inbox', Answers("daemon_get_all")) \/ daemon_version' = 1
      BY <1>1, <1>3 DEF LinkInv, SyncInv
    <3>3. \/ LastIn(inbox', AdapterNews, On(nadapter))
          \/ Free(inbox', AdapterNews) /\ None = nadapter
      BY <1>2, <1>3, <1>7 DEF LinkInv, SyncInv
    <3>4. ASSUME nadapter = None, Free(inbox', AdapterNews)
          PROVE  Free(inbox', News)
      <4>1. Free(inbox', Sayings) \/ LastIn(inbox', Sayings, Losses)
        BY <1>4, <1>3, <3>4 DEF OwnerInv
      <4>2. Free(inbox', Owner)
        BY <1>6 DEF Synced, Connecting
      <4>3. Free(inbox', Losses)
        BY <3>4, <4>2 DEF Free, AdapterNews, Owner, Losses
      <4>4. Free(inbox', Sayings)
        BY <4>1, <4>3, LastNotFree
      <4> QED
        BY <3>4, <4>4 DEF Free, News, Sayings
    <3>5. nadapter = None => NoAdapter'
      <4>1. Free(inbox', AdapterNews) => Free(inbox', Answers("daemon_get_all"))
        BY DEF Free, AdapterNews
      <4> QED
        BY <2>1, <3>2, <3>4, <4>1 DEF NoAdapter
    <3> QED
      BY <1>3, <2>1, <3>2, <3>3, <3>5 DEF SyncInv, Exact
  <2> QED
    BY <1>4, <1>5, <2>2, <2>3, <2>4 DEF LinkInv
<1>8. CASE m.path # None /\ adapter_path = m.path
  <2>1. UNCHANGED <<adapter, adapter_path, available, present, tag_path, pushed, reqs>>
    BY <1>8 DEF attach_adapter
  <2>2. Types' /\ PushInv'
    BY <1>3, <2>1 DEF LinkInv, Types, PushInv
  <2>3. ProxyInv' /\ AheadInv' /\ ModeInv' /\ DaemonInv'
    BY <1>2, <1>3, <1>6, <2>1
       DEF LinkInv, ProxyInv, AheadInv, ModeInv, DaemonInv, Pending, Waits
  <2>4. SyncInv'
    <3>1. Synced' <=> Synced
      BY <1>2, <1>3, <1>6, <2>1 DEF Synced, Pending, Waits
    <3> SUFFICES ASSUME Synced PROVE SyncInv'
      BY <3>1 DEF SyncInv
    <3>2. ~Free(inbox', Answers("daemon_get_all")) \/ daemon_version' = 1
      BY <1>1, <1>3 DEF LinkInv, SyncInv
    <3>3. \/ LastIn(inbox', AdapterNews, On(nadapter))
          \/ Free(inbox', AdapterNews) /\ adapter_path = nadapter
      BY <1>2, <1>3, <1>8 DEF LinkInv, SyncInv
    <3>4. Exact' => Exact /\ nadapter # None
      BY <1>2, <1>3, <1>8, <2>1 DEF Exact
    <3>5. Follows => Follows'
      <4>1. \/ LastIn(inbox', GetAllAnswers, Answers("adapter_get_all"))
            \/ /\ available = TRUE /\ pushed.adapter_path = nadapter
               /\ pushed.daemon_version = 1 /\ daemon_version' = 1
            \/ ~Follows
        BY <1>2, <1>3 DEF Follows
      <4> QED
        BY <1>2, <1>3, <2>1, <4>1 DEF Follows
    <3>6. Attached => Attached'
      BY <1>2, <1>3, <2>1, <3>5 DEF Attached, Pending, Waits
    <3> QED
      BY <1>3, <2>1, <3>2, <3>3, <3>4, <3>6 DEF LinkInv, SyncInv
  <2> QED
    BY <1>4, <1>5, <2>2, <2>3, <2>4 DEF LinkInv
<1>9. CASE m.path # None /\ adapter_path # m.path
  <2> DEFINE q == Req("adapter_proxy", m.path)
  <2>1. /\ adapter_path' = m.path /\ Call(q)
        /\ UNCHANGED <<adapter, available, present, tag_path, pushed>>
    BY <1>9 DEF attach_adapter
  <2>2. Made(q) /\ KindOfCall(q) /\ q.t = "adapter_proxy" /\ q.path = m.path
    <3>1. q \in Calls /\ q.t = "adapter_proxy" /\ q.path = m.path
      BY <1>1, <1>9, CallTypes
    <3> HIDE DEF q
    <3> QED
      BY <2>1, <3>1, Called, CallKinds DEF LinkInv
  <2> HIDE DEF q
  <2>3. Types' /\ PushInv'
    <3>1. reqs' \in Seq(Calls)
      BY <2>2 DEF Made
    <3> QED
      BY <1>1, <1>3, <2>1, <3>1 DEF LinkInv, Types, PushInv
  <2>4. /\ \A s : s # "adapter_proxy" =>
             (Free(reqs', CallsOf(s)) <=> Free(reqs, CallsOf(s)))
        /\ LastIn(reqs', CallsOf("adapter_proxy"), CallsOn(m.path))
        /\ LastIn(reqs', ProxyCalls, CallsOf("adapter_proxy"))
        /\ Waits("adapter_proxy")'
    BY <2>2 DEF Made, KindOfCall, Pushed, Waits
  <2>5. ProxyInv' /\ AheadInv'
    BY <2>1, <2>4 DEF ProxyInv, AheadInv, Pending
  <2>6. ModeInv' /\ DaemonInv'
    BY <1>2, <1>3, <1>6, <2>1, <2>4 DEF LinkInv, ModeInv, DaemonInv, Pending, Waits
  <2>7. SyncInv'
    <3>1. Synced' <=> Synced
      BY <1>2, <1>3, <1>6, <2>1, <2>4 DEF Synced, Pending, Waits
    <3> SUFFICES ASSUME Synced PROVE SyncInv'
      BY <3>1 DEF SyncInv
    <3>2. ~Free(inbox', Answers("daemon_get_all")) \/ daemon_version' = 1
      BY <1>1, <1>3 DEF LinkInv, SyncInv
    <3>3. \/ LastIn(inbox', AdapterNews, On(nadapter))
          \/ Free(inbox', AdapterNews) /\ m.path = nadapter
      BY <1>2, <1>3 DEF LinkInv, SyncInv
    <3>4. Attached' /\ (Exact' => nadapter # None)
      BY <1>3, <1>9, <2>1, <2>4 DEF Attached, Pending, Exact
    <3> QED
      BY <1>3, <2>1, <3>2, <3>3, <3>4 DEF SyncInv
  <2> QED
    BY <1>4, <1>5, <2>3, <2>5, <2>6, <2>7 DEF LinkInv
<1> QED
  BY <1>7, <1>8, <1>9

LEMMA DaemonGetAllStep ==
  ASSUME LinkInv, daemon_get_all_ready
  PROVE  LinkInv'
<1>1. PICK m \in Messages : /\ Took(m, "daemon_get_all") /\ KindOf(m) /\ m.ok \in BOOLEAN
  BY Dispatched DEF LinkInv, daemon_get_all_ready, Messages
<1>2. CASE m.ok = TRUE
  <2>1. /\ daemon_version' = 1 /\ attach_adapter(m.path, 1)
        /\ UNCHANGED <<daemon, mode_request_id>>
    BY <1>1, <1>2 DEF daemon_get_all_ready, Took
  <2>2. m \in AdapterNews
    BY <1>1, <1>2 DEF Took, KindOf
  <2> QED
    BY <1>1, <2>1, <2>2, AttachStep DEF daemon_get_all_ready
<1>3. CASE m.ok = FALSE
  <2>1. UNCHANGED <<daemon, daemon_version, mode_request_id, adapter, adapter_path, available,
                    present, tag_path, pushed, reqs>>
    BY <1>1, <1>3 DEF daemon_get_all_ready, daemonVars, adapterVars, Took
  <2>2. Types'
    BY <1>1, <2>1 DEF LinkInv, Types, Took
  <2>3. m \notin Owner /\ m \notin News /\ m \notin ProxyAnswers
    BY <1>1, <1>3 DEF Took, KindOf
  <2>4. /\ OwnerInv' /\ DetachInv' /\ ProxyInv' /\ PushInv' /\ DaemonInv'
        /\ AheadInv' /\ SyncInv'
    BY <1>1, <2>1, <2>3, IdleStep DEF daemon_get_all_ready
  <2>5. ModeInv'
    BY <1>1, <2>1 DEF LinkInv, ModeInv, Connecting, Pending, Waits, Took, KindOf, Popped
  <2> QED
    BY <2>2, <2>4, <2>5 DEF LinkInv
<1> QED
  BY <1>1, <1>2, <1>3

LEMMA AdaptersChangedStep ==
  ASSUME LinkInv, daemon_adapters_changed
  PROVE  LinkInv'
<1>1. PICK m \in Messages : Took(m, "adapters_changed") /\ KindOf(m)
  BY Dispatched DEF LinkInv, daemon_adapters_changed
<1>2. UNCHANGED <<daemon, daemon_version, mode_request_id>> /\ daemon \in BOOLEAN
  BY DEF daemon_adapters_changed, daemonVars, LinkInv, Types
<1>3. CASE daemon = TRUE
  <2>1. attach_adapter(m.path, daemon_version)
    BY <1>1, <1>3 DEF daemon_adapters_changed, Took
  <2>2. m \in AdapterNews /\ daemon_version \in {0, 1}
    BY <1>1 DEF Took, KindOf, LinkInv, Types
  <2> QED
    BY <1>1, <1>2, <2>1, <2>2, AttachStep DEF daemon_adapters_changed
<1>4. CASE daemon = FALSE
  <2>1. UNCHANGED <<adapter, adapter_path, available, present, tag_path, pushed, reqs>>
    BY <1>4 DEF daemon_adapters_changed, adapterVars
  <2>2. Types' /\ PushInv'
    BY <1>1, <1>2, <2>1 DEF LinkInv, Types, PushInv, Took
  <2>3. OwnerInv'
    BY <1>1 DEF LinkInv, OwnerInv, Took, Popped
  <2>4. DetachInv'
    BY <1>1, DetachTaken DEF LinkInv, daemon_adapters_changed, Took, KindOf
  <2>5. ProxyInv' /\ ModeInv' /\ DaemonInv' /\ AheadInv'
    BY <1>1, <1>2, <2>1
       DEF LinkInv, ProxyInv, ModeInv, DaemonInv, AheadInv, Connecting, Pending, Waits,
           Took, KindOf, Popped
  <2>6. SyncInv'
    BY <1>2, <1>4, <2>5 DEF DaemonInv, SyncInv, Synced
  <2> QED
    BY <2>2, <2>3, <2>4, <2>5, <2>6 DEF LinkInv
<1> QED
  BY <1>2, <1>3, <1>4

-----------------------------------------------------------------------------
(* nfcd and the bus.                                                       *)

\* Message m is put in the inbox.
Sent(m) ==
  /\ inbox' \in Seq(Messages) /\ Pushed(inbox', inbox, m)
  /\ Len(inbox) \in Nat /\ Len(inbox') = Len(inbox) + 1 /\ inbox'[Len(inbox) + 1] = m
  /\ \A k \in 1..Len(inbox) : inbox'[k] = inbox[k]

LEMMA IsSent ==
  ASSUME Types, NEW m \in Messages, inbox' = Append(inbox, m)
  PROVE  Sent(m) /\ KindOf(m)
<1>1. inbox \in Seq(Messages)
  BY DEF Types
<1> QED
  BY <1>1, Appended, AppendedKinds, Kinds DEF Sent

\* One message leaves DetachInv alone when it is no news, or nfcd is up.
LEMMA DetachSent ==
  ASSUME Types, DetachInv, NEW m \in Messages, Sent(m), Detached' <=> Detached,
         m \in Named("appeared") => ~up,
         ~up' => m \in Named("vanished") \/ (~up /\ m \notin News)
  PROVE  DetachInv'
<1>1. \A i \in 1..Len(inbox') : i > Len(inbox) => i = Len(inbox) + 1
  BY DEF Sent
<1> QED
  BY <1>1, DetachGrows DEF Sent

\* An answer is of the kind of its call.
LEMMA Answered ==
  ASSUME Types, OwnerInv, NEW q \in Calls
  PROVE  /\ Reply(q) \in Messages
         /\ Reply(q).t = q.t
         /\ q.t # "daemon_get_all" => Reply(q).path = q.path
         /\ q.t = "daemon_get_all" => Reply(q).path = nadapter
         /\ q.t = "adapter_get_all" => Reply(q).tag = ntag
         /\ q.t \in {"daemon_get_all", "request_mode"} => Reply(q).ok = up
         /\ q.t = "adapter_get_all" => Reply(q).ok = (nadapter = q.path)
<1>1. /\ q.t \in ReqNames /\ q.path \in Adapters \union {None}
      /\ (q.path # None) = (q.t \in {"adapter_proxy", "adapter_get_all"})
  BY DEF Calls
<1>2. up \in BOOLEAN /\ nadapter \in Adapters \union {None} /\ ntag \in Tags \union {None}
  BY DEF Types
<1>3. q.t = "adapter_get_all" => (up /\ nadapter = q.path <=> nadapter = q.path)
  BY <1>1 DEF OwnerInv
<1> DEFINE ok == /\ q.t \in {"daemon_get_all", "request_mode", "adapter_get_all"} => up
                 /\ q.t = "adapter_get_all" => nadapter = q.path
           p == IF q.t = "daemon_get_all" THEN nadapter ELSE q.path
           g == IF q.t = "adapter_get_all" THEN ntag ELSE None
<1>4. Reply(q) = [t |-> q.t, path |-> p, tag |-> g, ok |-> ok]
  BY DEF Reply, Msg
<1>5. /\ ok \in BOOLEAN
      /\ q.t \in {"daemon_get_all", "request_mode"} => ok = up
      /\ q.t = "adapter_get_all" => ok = (nadapter = q.path)
  BY <1>2, <1>3
<1>6. /\ p \in Adapters \union {None} /\ g \in Tags \union {None} /\ q.t \in MsgNames
      /\ q.t \in {"adapter_proxy", "adapter_get_all", "tags_changed", "present_changed"}
           => p # None
  BY <1>1, <1>2 DEF MsgNames, ReqNames
<1> HIDE DEF ok
<1>7. Reply(q) \in Messages
  BY <1>4, <1>5, <1>6 DEF Messages
<1> QED
  BY <1>4, <1>5, <1>7

\* A call waited for is answered or still waited for.
LEMMA ServeStep ==
  ASSUME LinkInv, Serve
  PROVE  LinkInv'
<1> DEFINE q == Head(reqs)
           m == Reply(q)
<1>1. /\ reqs \in Seq(Calls) /\ reqs # <<>> /\ reqs' = Tail(reqs)
      /\ inbox' = Append(inbox, m)
      /\ held' = IF q.t = "request_mode" /\ up THEN held + 1 ELSE held
      /\ UNCHANGED <<up, nadapter, ntag, events, daemon, daemon_version, mode_request_id,
                     adapter, adapter_path, available, present, tag_path, pushed>>
  BY DEF LinkInv, Types, Serve, daemonVars, adapterVars
<1>2. q \in Calls /\ reqs' \in Seq(Calls) /\ Popped(reqs', reqs, q)
  BY <1>1, Taken, TakenKinds
<1>3. KindOfCall(q) /\ (q.t = "adapter_get_all" => q.path # None)
  BY <1>2, CallKinds DEF Calls
<1>4. /\ m \in Messages /\ m.t = q.t
      /\ q.t # "daemon_get_all" => m.path = q.path
      /\ q.t = "daemon_get_all" => m.path = nadapter
      /\ q.t = "adapter_get_all" => m.tag = ntag
      /\ q.t \in {"daemon_get_all", "request_mode"} => m.ok = up
      /\ q.t = "adapter_get_all" => m.ok = (nadapter = q.path)
  BY <1>2, Answered DEF LinkInv
<1>5. q.t \in ReqNames
  BY <1>2 DEF Calls
<1> HIDE DEF q, m
<1>6. Sent(m) /\ KindOf(m)
  BY <1>1, <1>4, IsSent DEF LinkInv
<1>7. /\ \A C : Free(inbox', C) <=> Free(inbox, C) /\ m \notin C
      /\ \A C, V : LastIn(inbox', C, V) <=>
                     (m \in C /\ m \in V) \/ (m \notin C /\ LastIn(inbox, C, V))
  BY <1>6 DEF Sent, Pushed
<1>8. /\ \A C : Free(reqs, C) <=> q \notin C /\ Free(reqs', C)
      /\ \A C, V : LastIn(reqs, C, V) =>
                     LastIn(reqs', C, V) \/ (q \in C /\ q \in V /\ Free(reqs', C))
      /\ \A C, V : LastIn(reqs', C, V) => ~Free(reqs', C) /\ ~Free(reqs', V)
  BY <1>2 DEF Popped
<1>9. /\ \A t : q \in CallsOf(t) <=> q.t = t
      /\ \A p : q \in CallsOn(p) <=> q.path = p
      /\ q \in ProxyCalls <=> q.t \in {"daemon_proxy", "adapter_proxy"}
      /\ \A p : q \in ReadCalls(p) <=> q.t = "adapter_get_all" /\ q.path = p
  BY <1>3 DEF KindOfCall
<1>10. /\ \A t : m \in Named(t) <=> q.t = t
       /\ m \notin Owner
       /\ m \in ProxyAnswers <=> q.t \in {"daemon_proxy", "adapter_proxy"}
       /\ m \in AdapterNews <=> q.t = "daemon_get_all" /\ up = TRUE
       /\ m \in Answers("daemon_get_all") <=> q.t = "daemon_get_all" /\ up = TRUE
       /\ m \in Answers("request_mode") <=> q.t = "request_mode" /\ up = TRUE
       /\ m \in Answers("adapter_get_all") <=> q.t = "adapter_get_all" /\ nadapter = q.path
       /\ m \in TagNews <=> q.t = "adapter_get_all" /\ nadapter = q.path
       /\ m \in PresentNews <=> q.t = "adapter_get_all" /\ nadapter = q.path
  BY <1>4, <1>5, <1>6 DEF KindOf, ReqNames
<1>11. /\ m \in News <=> m \in AdapterNews \/ m \in TagNews
       /\ m \in GetAllAnswers <=> m \in AdapterNews \/ m \in TagNews
       /\ m \in Sayings <=> m \in TagNews
       /\ \A p : m \in On(p) <=> m.path = p
       /\ \A p : m \in NewsElsewhere(p) <=> m \in AdapterNews /\ m.path # p
       /\ \A p, t : m \in Shows(p, t) <=> m.path = p /\ m.tag = t
  BY <1>4, <1>5, <1>6 DEF KindOf, ReqNames
<1>12. Types'
  BY <1>1, <1>2, <1>6 DEF LinkInv, Types, Sent
<1>13. OwnerInv'
  BY <1>1, <1>3, <1>7, <1>10, <1>11 DEF LinkInv, OwnerInv
<1>14. DetachInv'
  <2>1. Detached' <=> Detached
    BY <1>1 DEF Detached
  <2>2. m \notin Named("appeared")
    BY <1>5, <1>10 DEF ReqNames
  <2>3. ~up => m \notin News
    BY <1>3, <1>10, <1>11 DEF LinkInv, OwnerInv
  <2> QED
    BY <1>1, <1>4, <1>6, <2>1, <2>2, <2>3, DetachSent DEF LinkInv
<1>15. \A t : Pending(t)' <=> Pending(t)
  BY <1>7, <1>8, <1>9, <1>10 DEF Pending, Waits
<1>16. Connecting' <=> Connecting
  BY <1>1, <1>7, <1>10 DEF Connecting
<1>17. ProxyInv' /\ PushInv'
  <2> SUFFICES ASSUME adapter_path # None PROVE ProxyInv' /\ PushInv'
    BY <1>1 DEF LinkInv, ProxyInv, PushInv
  <2>1. CASE LastIn(reqs, CallsOf("adapter_proxy"), CallsOn(adapter_path))
    BY <1>1, <1>4, <1>7, <1>8, <1>9, <1>10, <1>11, <2>1 DEF LinkInv, ProxyInv, PushInv
  <2>2. CASE /\ Free(reqs, CallsOf("adapter_proxy"))
             /\ LastIn(inbox, Named("adapter_proxy"), On(adapter_path))
    BY <1>1, <1>7, <1>8, <1>9, <1>10, <2>2 DEF LinkInv, ProxyInv, PushInv
  <2>3. CASE ~Pending("adapter_proxy") /\ adapter = adapter_path
    BY <1>1, <1>15, <2>3 DEF LinkInv, ProxyInv, PushInv
  <2> QED
    BY <2>1, <2>2, <2>3 DEF LinkInv, ProxyInv
<1>18. ModeInv' /\ DaemonInv'
  <2>1. held \in Nat /\ up \in BOOLEAN
    BY DEF LinkInv, Types
  <2>2. held >= 1 => held' >= 1
    BY <1>1, <2>1
  <2>3. q.t = "request_mode" /\ up => held' >= 1
    BY <1>1, <2>1
  <2>4. Connecting /\ Waits("request_mode") =>
          \/ Waits("request_mode")'
          \/ held' >= 1 /\ ~Free(inbox', Answers("request_mode"))
    BY <1>7, <1>8, <1>9, <1>10, <2>1, <2>3 DEF Waits, Connecting
  <2> QED
    BY <1>1, <1>7, <1>15, <1>16, <2>2, <2>4 DEF LinkInv, ModeInv, DaemonInv
<1>19. AheadInv'
  <2> SUFFICES ASSUME Connecting, adapter_path # None PROVE AheadInv'
    BY <1>1, <1>16 DEF AheadInv
  <2>1. /\ Waits("daemon_proxy") => LastIn(reqs, ProxyCalls, CallsOf("adapter_proxy"))
        /\ ~Free(inbox, Named("daemon_proxy")) =>
             \/ Waits("adapter_proxy")
             \/ LastIn(inbox, ProxyAnswers, Named("adapter_proxy"))
        /\ Waits("daemon_get_all") =>
             \/ Pending("adapter_proxy")
             \/ LastIn(reqs, GetAllCalls(adapter_path), CallsOf("adapter_get_all"))
    BY DEF LinkInv, AheadInv
  <2>2. /\ Free(reqs', ProxyCalls) => Free(reqs', CallsOf("daemon_proxy"))
        /\ Free(reqs', GetAllCalls(adapter_path)) => Free(reqs', CallsOf("daemon_get_all"))
    BY DEF Free, ProxyCalls, GetAllCalls
  <2>3. Waits("daemon_proxy")' => LastIn(reqs', ProxyCalls, CallsOf("adapter_proxy"))
    BY <1>8, <2>1, <2>2 DEF Waits
  <2>4. ~Free(inbox', Named("daemon_proxy")) =>
          \/ Waits("adapter_proxy")'
          \/ LastIn(inbox', ProxyAnswers, Named("adapter_proxy"))
    BY <1>7, <1>8, <1>9, <1>10, <2>1 DEF Waits
  <2>5. Waits("daemon_get_all")' =>
          \/ Pending("adapter_proxy")'
          \/ LastIn(reqs', GetAllCalls(adapter_path), CallsOf("adapter_get_all"))
    BY <1>8, <1>15, <2>1, <2>2 DEF Waits
  <2> QED
    BY <1>1, <2>3, <2>4, <2>5 DEF AheadInv
<1>20. ASSUME Synced, Exact, Attached, nadapter # None PROVE Attached'
  <2>1. CASE Pending("adapter_proxy")
    BY <1>15, <2>1 DEF Attached
  <2>2. CASE ~Free(reqs', ReadCalls(nadapter))
    BY <1>1, <2>2 DEF Attached
  <2>3. CASE ~Pending("adapter_proxy") /\ q \in ReadCalls(nadapter)
    <3>1. adapter = nadapter
      BY <1>8, <1>20, <2>3, LastNotFree DEF LinkInv, ProxyInv, Exact, Pending, Waits
    <3>2. m \in TagNews /\ m \in PresentNews /\ m \in Shows(nadapter, ntag)
          /\ m \in GetAllAnswers /\ m \in Answers("adapter_get_all")
      BY <1>4, <1>9, <1>10, <1>11, <2>3
    <3> QED
      BY <1>1, <1>7, <3>1, <3>2 DEF Attached, Follows
  <2>4. CASE Follows
    <3>1. q.t # "daemon_get_all"
      BY <1>8, <1>9, <1>20 DEF Synced, Waits
    <3>2. CASE m \in TagNews
      <4>1. m \in PresentNews /\ m \in Shows(nadapter, ntag)
            /\ m \in GetAllAnswers /\ m \in Answers("adapter_get_all")
        BY <1>4, <1>10, <1>11, <3>2
      <4> QED
        BY <1>1, <1>7, <2>4, <3>2, <4>1 DEF Attached, Follows
    <3>3. CASE m \notin TagNews
      <4>1. m \notin PresentNews /\ m \notin GetAllAnswers
        BY <1>10, <1>11, <3>1, <3>3
      <4> QED
        BY <1>1, <1>7, <2>4, <3>3, <4>1 DEF Attached, Follows
    <3> QED
      BY <3>2, <3>3
  <2> QED
    BY <1>8, <1>20, <2>1, <2>2, <2>3, <2>4 DEF Attached
<1>21. SyncInv'
  <2> SUFFICES ASSUME Synced' PROVE SyncInv'
    BY DEF SyncInv
  <2>1. Connecting /\ up = TRUE /\ ~Pending("daemon_proxy") /\ ~Waits("daemon_get_all")'
    BY <1>15, <1>16 DEF Synced, Connecting, LinkInv, Types
  <2>2. CASE q.t # "daemon_get_all"
    <3>1. Synced
      BY <1>8, <1>9, <2>1, <2>2 DEF Synced, Waits
    <3>2. m \notin AdapterNews /\ m \notin Answers("daemon_get_all")
          /\ \A p : m \notin NewsElsewhere(p)
      BY <1>10, <1>11, <2>2
    <3>3. Exact' <=> Exact
      BY <1>1, <1>7, <3>2 DEF Exact
    <3>4. nadapter = None => m \notin News
      BY <1>3, <1>10, <1>11, <3>2
    <3>5. nadapter = None /\ NoAdapter => NoAdapter'
      BY <1>1, <1>7, <3>4 DEF NoAdapter
    <3> QED
      BY <1>1, <1>7, <1>20, <3>1, <3>2, <3>3, <3>5 DEF LinkInv, SyncInv
  <2>3. CASE q.t = "daemon_get_all"
    <3>1. m \in AdapterNews /\ m \in Answers("daemon_get_all") /\ m \in On(nadapter)
      BY <1>4, <1>10, <1>11, <2>1, <2>3
    <3>2. NoAdapter'
      BY <1>7, <3>1 DEF NoAdapter
    <3>3. Exact' /\ nadapter # None => Attached'
      <4> SUFFICES ASSUME adapter_path = nadapter, nadapter # None PROVE Attached'
        BY <1>1 DEF Exact
      <4>1. \/ Pending("adapter_proxy")
            \/ LastIn(reqs, GetAllCalls(nadapter), CallsOf("adapter_get_all"))
        BY <1>8, <1>9, <2>1, <2>3 DEF LinkInv, AheadInv, Waits
      <4>2. LastIn(reqs', GetAllCalls(nadapter), CallsOf("adapter_get_all")) =>
              ~Free(reqs', ReadCalls(nadapter))
        BY DEF LastIn, Free, GetAllCalls, ReadCalls, CallsOf
      <4> QED
        BY <1>1, <1>8, <1>9, <1>15, <2>3, <4>1, <4>2 DEF Attached
    <3> QED
      BY <1>1, <1>7, <3>1, <3>2, <3>3 DEF SyncInv
  <2> QED
    BY <2>2, <2>3
<1> QED
  BY <1>12, <1>13, <1>14, <1>17, <1>18, <1>19, <1>21 DEF LinkInv

LEMMA StartStep ==
  ASSUME LinkInv, NfcdStart
  PROVE  LinkInv'
<1> DEFINE m == Msg("appeared", None, None, TRUE)
<1>1. /\ up = FALSE /\ up' = TRUE /\ inbox' = Append(inbox, m)
      /\ events' = events + 1 /\ events < MaxEvents
      /\ UNCHANGED <<nadapter, ntag, held, reqs, daemon, daemon_version, mode_request_id,
                     adapter, adapter_path, available, present, tag_path, pushed>>
  BY DEF LinkInv, Types, NfcdStart, Event, daemonVars, adapterVars
<1>2. m \in Messages /\ m.t = "appeared"
  BY DEF Msg, Messages, MsgNames
<1> HIDE DEF m
<1>3. Sent(m) /\ KindOf(m)
  BY <1>1, <1>2, IsSent DEF LinkInv
<1>4. Types'
  <2>1. events' \in 0..MaxEvents
    BY <1>1, LinkAssumption DEF LinkInv, Types
  <2>2. inbox' \in Seq(Messages)
    BY <1>3 DEF Sent
  <2>3. held' \in Nat
    BY <1>1 DEF LinkInv, Types
  <2> QED
    BY <1>1, <2>1, <2>2, <2>3 DEF LinkInv, Types
<1>5. m \in Owner /\ m \in Named("appeared") /\ m \notin Sayings
  BY <1>2, <1>3 DEF KindOf
<1>6. OwnerInv' /\ ~Connecting'
  BY <1>1, <1>3, <1>5 DEF LinkInv, OwnerInv, Connecting, Sent, Pushed
<1>7. DetachInv'
  <2>1. Detached' <=> Detached
    BY <1>1 DEF Detached
  <2> QED
    BY <1>1, <1>2, <1>3, <2>1, DetachSent DEF LinkInv
<1>8. ProxyInv' /\ PushInv'
  BY <1>1, <1>2, <1>3 DEF LinkInv, ProxyInv, PushInv, Pending, Waits, Sent, KindOf, Pushed
<1> QED
  BY <1>4, <1>6, <1>7, <1>8 DEF LinkInv, ModeInv, DaemonInv, AheadInv, SyncInv, Synced

LEMMA CrashStep ==
  ASSUME LinkInv, NfcdCrash
  PROVE  LinkInv'
<1> DEFINE m == Msg("vanished", None, None, TRUE)
<1>1. /\ up' = FALSE /\ nadapter' = None /\ ntag' = None /\ held' = 0
      /\ inbox' = Append(inbox, m)
      /\ events' = events + 1 /\ events < MaxEvents
      /\ UNCHANGED <<reqs, daemon, daemon_version, mode_request_id,
                     adapter, adapter_path, available, present, tag_path, pushed>>
  BY DEF LinkInv, Types, NfcdCrash, Event, daemonVars, adapterVars
<1>2. m \in Messages /\ m.t = "vanished"
  BY DEF Msg, Messages, MsgNames
<1> HIDE DEF m
<1>3. Sent(m) /\ KindOf(m)
  BY <1>1, <1>2, IsSent DEF LinkInv
<1>4. Types'
  <2>1. events' \in 0..MaxEvents
    BY <1>1, LinkAssumption DEF LinkInv, Types
  <2>2. inbox' \in Seq(Messages)
    BY <1>3 DEF Sent
  <2>3. held' \in Nat
    BY <1>1 DEF LinkInv, Types
  <2>4. /\ reqs' \in Seq(Calls) /\ daemon' \in BOOLEAN /\ daemon_version' \in {0, 1}
        /\ mode_request_id' \in {0, 1} /\ adapter' \in Adapters \union {None}
        /\ adapter_path' \in Adapters \union {None} /\ available' \in BOOLEAN
        /\ present' \in BOOLEAN /\ tag_path' \in Tags \union {None}
    BY <1>1 DEF LinkInv, Types
  <2>5. (pushed \in [available : BOOLEAN, adapter_path : Adapters \union {None},
                    present : BOOLEAN, daemon_version : {0, 1}])'
    BY <1>1 DEF LinkInv, Types
  <2> QED
    BY <1>1, <2>1, <2>2, <2>3, <2>4, <2>5 DEF Types
<1>5. m \in Named("vanished") /\ m \notin Named("appeared") /\ m \in Sayings /\ m \in Losses
  BY <1>2, <1>3 DEF KindOf
<1>6. OwnerInv' /\ ~Connecting'
  BY <1>1, <1>3, <1>5 DEF LinkInv, OwnerInv, Connecting, Sent, Pushed
<1>7. DetachInv'
  <2>1. Detached' <=> Detached
    BY <1>1 DEF Detached
  <2> QED
    BY <1>1, <1>2, <1>3, <1>5, <2>1, DetachSent DEF LinkInv
<1>8. ProxyInv' /\ PushInv'
  BY <1>1, <1>2, <1>3 DEF LinkInv, ProxyInv, PushInv, Pending, Waits, Sent, KindOf, Pushed
<1> QED
  BY <1>4, <1>6, <1>7, <1>8 DEF LinkInv, ModeInv, DaemonInv, AheadInv, SyncInv, Synced

LEMMA AdaptersStep ==
  ASSUME LinkInv, NEW a \in Adapters \union {None}, NfcdAdapters(a)
  PROVE  LinkInv'
<1> DEFINE m == Msg("adapters_changed", a, None, TRUE)
<1>1. /\ up = TRUE /\ up' = up /\ a # nadapter /\ nadapter' = a /\ ntag' = None
      /\ held' = held /\ inbox' = Append(inbox, m)
      /\ events' = events + 1 /\ events < MaxEvents
      /\ UNCHANGED <<reqs, daemon, daemon_version, mode_request_id,
                     adapter, adapter_path, available, present, tag_path, pushed>>
  BY DEF LinkInv, Types, NfcdAdapters, Event, daemonVars, adapterVars
<1>2. m \in Messages /\ m.t = "adapters_changed" /\ m.path = a
  BY DEF Msg, Messages, MsgNames
<1> HIDE DEF m
<1>3. Sent(m) /\ KindOf(m)
  BY <1>1, <1>2, IsSent DEF LinkInv
<1>4. Types'
  <2>1. events' \in 0..MaxEvents
    BY <1>1, LinkAssumption DEF LinkInv, Types
  <2>2. inbox' \in Seq(Messages)
    BY <1>3 DEF Sent
  <2>3. held' \in Nat
    BY <1>1 DEF LinkInv, Types
  <2> QED
    BY <1>1, <2>1, <2>2, <2>3 DEF LinkInv, Types
<1>5. /\ m \in Sayings /\ m \in Losses /\ m \notin Owner /\ m \in AdapterNews
      /\ m \in On(a) /\ m \notin Named("appeared") /\ m \notin NewsElsewhere(a)
      /\ m \notin Named("daemon_proxy") /\ m \notin Named("adapter_proxy")
      /\ m \notin ProxyAnswers /\ m \notin Answers("daemon_get_all")
  BY <1>2, <1>3 DEF KindOf
<1>6. /\ \A C : Free(inbox', C) <=> Free(inbox, C) /\ m \notin C
      /\ \A C, V : LastIn(inbox', C, V) <=>
                     (m \in C /\ m \in V) \/ (m \notin C /\ LastIn(inbox, C, V))
  BY <1>3 DEF Sent, Pushed
<1>7. OwnerInv' /\ (Connecting' <=> Connecting)
  BY <1>1, <1>5, <1>6 DEF LinkInv, OwnerInv, Connecting
<1>8. DetachInv'
  <2>1. Detached' <=> Detached
    BY <1>1 DEF Detached
  <2> QED
    BY <1>1, <1>2, <1>3, <1>5, <2>1, DetachSent DEF LinkInv
<1>9. ProxyInv' /\ PushInv'
  BY <1>1, <1>5, <1>6 DEF LinkInv, ProxyInv, PushInv, Pending, Waits
<1>10. ModeInv' /\ DaemonInv' /\ AheadInv'
  BY <1>1, <1>5, <1>6, <1>7 DEF LinkInv, ModeInv, DaemonInv, AheadInv, Pending, Waits
<1>11. SyncInv'
  <2>1. Synced' <=> Synced
    BY <1>1, <1>5, <1>6, <1>7 DEF Synced, Pending, Waits
  <2> SUFFICES ASSUME Synced PROVE SyncInv'
    BY <2>1 DEF SyncInv
  <2>2. /\ ~Free(inbox', Answers("daemon_get_all")) \/ daemon_version' = 1
        /\ LastIn(inbox', AdapterNews, On(a))
    BY <1>1, <1>5, <1>6 DEF LinkInv, SyncInv
  <2>3. NoAdapter'
    BY <1>5, <1>6 DEF NoAdapter
  <2>4. ~Exact'
    <3>1. LastIn(inbox, AdapterNews, On(nadapter)) => ~Free(inbox, NewsElsewhere(a))
      BY <1>1 DEF LastIn, Free, On, NewsElsewhere
    <3> QED
      BY <1>1, <1>6, <3>1 DEF LinkInv, SyncInv, Exact
  <2> QED
    BY <1>1, <2>2, <2>3, <2>4 DEF SyncInv
<1> QED
  BY <1>4, <1>7, <1>8, <1>9, <1>10, <1>11 DEF LinkInv

\* nfcd announces a tag twice: in its list of tags and in present.
LEMMA TagStep ==
  ASSUME LinkInv, NEW t \in Tags \union {None}, NfcdTag(t)
  PROVE  LinkInv'
<1> DEFINE m1 == Msg("tags_changed", nadapter, t, TRUE)
           m2 == Msg("present_changed", nadapter, t, TRUE)
           i1 == Append(inbox, m1)
<1>1. /\ up = TRUE /\ up' = up /\ nadapter # None /\ nadapter' = nadapter /\ ntag' = t
      /\ held' = held /\ inbox' = Append(i1, m2)
      /\ events' = events + 1 /\ events < MaxEvents
      /\ UNCHANGED <<reqs, daemon, daemon_version, mode_request_id,
                     adapter, adapter_path, available, present, tag_path, pushed>>
  BY DEF LinkInv, Types, NfcdTag, Event, daemonVars, adapterVars
<1>2. /\ m1 \in Messages /\ m1.t = "tags_changed" /\ m1.path = nadapter /\ m1.tag = t
      /\ m2 \in Messages /\ m2.t = "present_changed" /\ m2.path = nadapter /\ m2.tag = t
  BY <1>1 DEF LinkInv, Types, Msg, Messages, MsgNames
<1> HIDE DEF m1, m2
<1>3. KindOf(m1) /\ KindOf(m2) /\ inbox \in Seq(Messages)
  BY <1>2, Kinds DEF LinkInv, Types
<1>4. /\ i1 \in Seq(Messages) /\ Pushed(i1, inbox, m1) /\ Len(inbox) \in Nat
      /\ Len(i1) = Len(inbox) + 1 /\ i1[Len(inbox) + 1] = m1
      /\ \A k \in 1..Len(inbox) : i1[k] = inbox[k]
  BY <1>2, <1>3, Appended, AppendedKinds
<1> HIDE DEF i1
<1>5. /\ inbox' \in Seq(Messages) /\ Pushed(inbox', i1, m2)
      /\ Len(inbox') = Len(inbox) + 2 /\ inbox'[Len(inbox) + 2] = m2
      /\ \A k \in 1..Len(inbox) + 1 : inbox'[k] = i1[k]
  BY <1>1, <1>2, <1>4, Appended, AppendedKinds
<1>6. /\ m1 \in TagNews /\ m1 \in Shows(nadapter, t) /\ m1 \notin PresentNews
      /\ m2 \in PresentNews /\ m2 \in Shows(nadapter, t) /\ m2 \notin TagNews
  BY <1>2, <1>3 DEF KindOf
<1>7. \A m \in {m1, m2} :
        /\ m \notin Owner /\ m \notin Named("appeared") /\ m \notin AdapterNews
        /\ m \notin ProxyAnswers /\ m \notin Named("daemon_proxy")
        /\ m \notin Named("adapter_proxy") /\ m \notin GetAllAnswers
        /\ m \notin Answers("daemon_get_all")
        /\ \A p : m \notin NewsElsewhere(p)
  BY <1>2, <1>3 DEF KindOf
<1>8. /\ \A C : Free(inbox', C) <=> Free(inbox, C) /\ m1 \notin C /\ m2 \notin C
      /\ \A C, V : m1 \notin C /\ m2 \notin C =>
           (LastIn(inbox', C, V) <=> LastIn(inbox, C, V))
      /\ LastIn(inbox', TagNews, Shows(nadapter, t))
      /\ LastIn(inbox', PresentNews, Shows(nadapter, t))
  BY <1>4, <1>5, <1>6 DEF Pushed
<1>9. Types'
  <2>1. events' \in 0..MaxEvents
    BY <1>1, LinkAssumption DEF LinkInv, Types
  <2> QED
    BY <1>1, <1>5, <2>1 DEF LinkInv, Types
<1>10. OwnerInv' /\ (Connecting' <=> Connecting)
  BY <1>1, <1>7, <1>8 DEF LinkInv, OwnerInv, Connecting
<1>11. DetachInv'
  <2>1. Detached' <=> Detached
    BY <1>1 DEF Detached
  <2>2. \A k \in 1..Len(inbox) : inbox'[k] = inbox[k]
    BY <1>4, <1>5
  <2>3. ASSUME NEW i \in 1..Len(inbox'), i > Len(inbox)
        PROVE  inbox'[i] \notin Named("appeared")
    <3>1. i = Len(inbox) + 1 \/ i = Len(inbox) + 2
      BY <1>4, <1>5, <2>3
    <3>2. inbox'[Len(inbox) + 1] = m1
      BY <1>4, <1>5
    <3> QED
      BY <1>5, <1>7, <3>1, <3>2
  <2>4. Len(inbox') >= Len(inbox)
    BY <1>4, <1>5
  <2> QED
    BY <1>1, <1>5, <2>1, <2>2, <2>3, <2>4, DetachGrows DEF LinkInv
<1>12. ProxyInv' /\ PushInv'
  BY <1>1, <1>7, <1>8 DEF LinkInv, ProxyInv, PushInv, Pending, Waits
<1>13. ModeInv' /\ DaemonInv' /\ AheadInv'
  BY <1>1, <1>7, <1>8, <1>10 DEF LinkInv, ModeInv, DaemonInv, AheadInv, Pending, Waits
<1>14. SyncInv'
  <2>1. (Synced' <=> Synced) /\ (Exact' <=> Exact)
    BY <1>1, <1>7, <1>8, <1>10 DEF Synced, Exact, Pending, Waits
  <2>2. Attached => Attached'
    BY <1>1, <1>7, <1>8 DEF Attached, Follows, Pending, Waits
  <2> QED
    BY <1>1, <1>7, <1>8, <2>1, <2>2 DEF LinkInv, SyncInv
<1> QED
  BY <1>9, <1>10, <1>11, <1>12, <1>13, <1>14 DEF LinkInv

-----------------------------------------------------------------------------
(* The invariant holds for ever.                                           *)

LEMMA InitInv == Init => LinkInv
<1> SUFFICES ASSUME Init PROVE LinkInv
  OBVIOUS
<1> DEFINE m == Msg(IF up THEN "appeared" ELSE "vanished", None, None, TRUE)
<1>1. /\ m \in Messages /\ (up = TRUE => m.t = "appeared") /\ (up = FALSE => m.t = "vanished")
  BY DEF Msg, Messages, MsgNames
<1>2. inbox = <<m>> /\ reqs = <<>> /\ up \in BOOLEAN
  BY DEF Init
<1> HIDE DEF m
<1>3. KindOf(m) /\ inbox \in Seq(Messages) /\ Len(inbox) = 1 /\ inbox[1] = m
  BY <1>1, <1>2, Kinds
<1>4. /\ \A C : Free(inbox, C) <=> m \notin C
      /\ \A C, V : LastIn(inbox, C, V) <=> m \in C /\ m \in V
  BY <1>3 DEF Free, LastIn
<1>5. reqs \in Seq(Calls)
  BY <1>2
<1>6. Types
  <2>1. events \in 0..MaxEvents /\ held \in Nat
    BY LinkAssumption DEF Init
  <2>2. pushed \in [available : BOOLEAN, adapter_path : Adapters \union {None},
                   present : BOOLEAN, daemon_version : {0, 1}]
    BY DEF Init
  <2>3. /\ up \in BOOLEAN /\ nadapter = None /\ ntag = None
        /\ daemon = FALSE /\ daemon_version = 0 /\ mode_request_id = 0
        /\ adapter = None /\ adapter_path = None /\ available = FALSE
        /\ present = FALSE /\ tag_path = None
    BY DEF Init
  <2> QED
    BY <1>3, <1>5, <2>1, <2>2, <2>3 DEF Types
<1>7. OwnerInv /\ ~Connecting
  BY <1>1, <1>2, <1>3, <1>4 DEF OwnerInv, Connecting, KindOf, Init
<1>8. DetachInv
  <2>1. Detached
    BY DEF Detached, Init
  <2>2. up = FALSE => m \in Named("vanished")
    BY <1>1, <1>3 DEF KindOf
  <2>3. up = FALSE => DetachedAfter(1)
    BY <1>3, <2>2 DEF DetachedAfter
  <2>4. DetachedAfter(0)
    BY <2>1 DEF DetachedAfter
  <2> QED
    BY <1>2, <1>3, <2>3, <2>4 DEF DetachInv
<1>9. ProxyInv /\ PushInv
  BY DEF ProxyInv, PushInv, Init
<1> QED
  BY <1>6, <1>7, <1>8, <1>9 DEF LinkInv, ModeInv, DaemonInv, AheadInv, SyncInv, Synced

LEMMA StutterInv ==
  ASSUME LinkInv, UNCHANGED vars
  PROVE  LinkInv'
<1> USE DEF vars, nfcdVars, daemonVars, adapterVars
<1>1. Types' /\ OwnerInv' /\ ProxyInv' /\ PushInv'
  BY DEF LinkInv, Types, OwnerInv, ProxyInv, PushInv, Pending, Waits
<1>2. DetachInv'
  BY DEF LinkInv, DetachInv, DetachedAfter, Detached
<1>3. ModeInv' /\ DaemonInv' /\ AheadInv'
  BY DEF LinkInv, ModeInv, DaemonInv, AheadInv, Connecting, Pending, Waits
<1>4. SyncInv'
  BY DEF LinkInv, SyncInv, Synced, Connecting, Exact, NoAdapter, Attached, Follows,
         Pending, Waits
<1> QED
  BY <1>1, <1>2, <1>3, <1>4 DEF LinkInv

LEMMA LinkStep ==
  ASSUME LinkInv, [Next]_vars
  PROVE  LinkInv'
<1>1. CASE Client
  BY <1>1, AppearedStep, VanishedStep, DaemonProxyStep, DaemonGetAllStep, ModeStep,
     AdaptersChangedStep, AdapterProxyStep, AdapterGetAllStep, TagsChangedStep,
     PresentChangedStep DEF Client
<1>2. CASE Serve
  BY <1>2, ServeStep
<1>3. CASE Nfcd
  BY <1>3, StartStep, CrashStep, AdaptersStep, TagStep DEF Nfcd
<1>4. CASE UNCHANGED vars
  BY <1>4, StutterInv
<1> QED
  BY <1>1, <1>2, <1>3, <1>4 DEF Next

(***************************************************************************)
(* The inductive invariant of the attach chain of nfcd_client.c: which of  *)
(* the calls and messages still on their way bring the client up to date   *)
(* with nfcd, from daemon_appeared() to adapter_get_all_ready().           *)
(***************************************************************************)
THEOREM LinkInvariant == Spec => []LinkInv
BY InitInv, LinkStep, PTL DEF Spec

(***************************************************************************)
(* Every state is well typed: whatever attach_adapter() and the callbacks  *)
(* store is an adapter of nfcd, a tag of nfcd or nothing.                  *)
(***************************************************************************)
THEOREM TypeCorrect == Spec => []TypeOK
<1>1. /\ Calls \subseteq [t : ReqNames, path : Paths]
      /\ Messages \subseteq [t : MsgNames, path : Paths, tag : Paths, ok : BOOLEAN]
  BY DEF Calls, Messages, Paths
<1>2. ASSUME NEW S, NEW T, S \subseteq T, NEW s \in Seq(S) PROVE s \in Seq(T)
  BY <1>2
<1>3. Types => TypeOK
  BY <1>1, <1>2 DEF Types, TypeOK
<1> QED
  BY <1>3, LinkInvariant, PTL DEF LinkInv

\* Nothing is on its way: what the invariant says of the client then.
LEMMA SettledFacts ==
  ASSUME LinkInv, Settled
  PROVE  /\ up \in BOOLEAN
         /\ ~up => Detached /\ nadapter = None /\ ntag = None
         /\ up => /\ held >= 1 /\ mode_request_id = 1
                  /\ daemon_version = 1 /\ adapter_path = nadapter
                  /\ nadapter = None => /\ available = FALSE /\ tag_path = None /\ ntag = None
                                        /\ pushed.adapter_path = None
                                        /\ pushed.daemon_version = 1
                  /\ nadapter # None => /\ available = TRUE /\ tag_path = ntag
                                        /\ adapter = nadapter /\ present = (ntag # None)
                                        /\ pushed.adapter_path = nadapter
                                        /\ pushed.daemon_version = 1
<1>1. Len(inbox) = 0 /\ Len(reqs) = 0
  BY DEF Settled
<1>2. /\ \A C : Free(inbox, C) /\ Free(reqs, C)
      /\ \A C, V : ~LastIn(inbox, C, V) /\ ~LastIn(reqs, C, V)
  BY <1>1 DEF Free, LastIn
<1>3. /\ up \in BOOLEAN /\ (~up => nadapter = None) /\ (nadapter = None => ntag = None)
  BY DEF LinkInv, Types, OwnerInv
<1>4. ~up => Detached
  BY <1>1 DEF LinkInv, DetachInv, DetachedAfter
<1>5. \A t : ~Waits(t) /\ ~Pending(t)
  BY <1>2 DEF Waits, Pending
<1>6. ASSUME up PROVE held >= 1 /\ mode_request_id = 1 /\ Synced
  BY <1>2, <1>5, <1>6 DEF LinkInv, ModeInv, Connecting, Synced
<1>7. ASSUME up PROVE daemon_version = 1 /\ adapter_path = nadapter /\ Exact
  BY <1>2, <1>6, <1>7 DEF LinkInv, SyncInv, Exact
<1>8. ASSUME up, nadapter = None PROVE NoAdapter
  BY <1>6, <1>7, <1>8 DEF LinkInv, SyncInv
<1>9. ASSUME up, nadapter # None PROVE Follows
  BY <1>2, <1>5, <1>6, <1>7, <1>9 DEF LinkInv, SyncInv, Attached
<1> QED
  BY <1>2, <1>3, <1>4, <1>6, <1>7, <1>8, <1>9 DEF NoAdapter, Follows

(***************************************************************************)
(* For any number of crashes, restarts, adapters and tags, and however     *)
(* they overlap with daemon_appeared(), daemon_get_all_ready(),            *)
(* attach_adapter() and adapter_get_all_ready(): once all is handled, what *)
(* nfcd_client.c holds is what nfcd has.                                   *)
(***************************************************************************)
THEOREM ViewIsAccurate == Spec => []SettledIsAccurate
<1>1. ASSUME LinkInv, Settled PROVE Accurate
  BY <1>1, SettledFacts DEF Accurate, Detached
<1>2. LinkInv => SettledIsAccurate
  BY <1>1 DEF SettledIsAccurate
<1> QED
  BY <1>2, LinkInvariant, PTL

(***************************************************************************)
(* The last getStatus push (state_changed_cb) is never behind on the       *)
(* adapter's availability and presence, and once all is handled it carries *)
(* the version and path too, which daemon_get_all_ready() does not push.   *)
(***************************************************************************)
THEOREM PushIsComplete == Spec => []StatusIsPushed
<1>1. ASSUME LinkInv, Settled
      PROVE  pushed.adapter_path = adapter_path /\ pushed.daemon_version = daemon_version
  BY <1>1, SettledFacts DEF Detached
<1>2. LinkInv => StatusIsPushed
  BY <1>1 DEF StatusIsPushed, LinkInv, PushInv
<1> QED
  BY <1>2, LinkInvariant, PTL

(***************************************************************************)
(* Once all is handled, an nfcd that is up holds a reader/writer mode      *)
(* request of this adapter and the adapter knows its id, however late      *)
(* RequestMode was answered (request_reader_writer_mode_ready).            *)
(***************************************************************************)
THEOREM PollsWhileConnected == Spec => []ModeIsHeld
<1>1. ASSUME LinkInv, Settled, up PROVE held >= 1 /\ mode_request_id # 0
  BY <1>1, SettledFacts
<1>2. LinkInv => ModeIsHeld
  BY <1>1 DEF ModeIsHeld
<1> QED
  BY <1>2, LinkInvariant, PTL
=============================================================================
