--------------------------- MODULE CardEmulation ---------------------------
(***************************************************************************)
(* Card emulation: the table of profiles, their registration with nfcd,    *)
(* the card-emulation mode request, and the exchanges of a reader with a   *)
(* registered profile.  addCardEmulationProfile, removeCardEmulation-      *)
(* Profile and clearCardEmulation calls may overlap with the answers of    *)
(* earlier ones, and nfcd may crash and come back, which empties it.       *)
(*                                                                         *)
(* The bus is FIFO both ways; nfcd serves calls in order.  Of the link to  *)
(* nfcd (module NfcdLink) only client->daemon is kept, and rw, the         *)
(* reader/writer mode request daemon_proxy_ready() makes.                  *)
(***************************************************************************)
EXTENDS Integers, Sequences, FiniteSets

CONSTANTS
  Aids,         \* application identifiers
  None,         \* no AID
  ModeIds,      \* ids nfcd gives mode requests; each nfcd chooses afresh
  MaxCalls,     \* bound: calls of luna clients
  MaxCrashes,   \* bound: crashes of nfcd
  Overlap,      \* may callers call before earlier calls are answered
  MayReject,    \* may nfcd reject a registration
  MaxExchanges, \* bound: exchanges with readers
  GuintMax      \* 2^32 - 1 in the code: the largest response id

ASSUME HceAssumption ==
  /\ IsFiniteSet(Aids) /\ None \notin Aids
  /\ ModeIds \subseteq Nat \ {0}
  /\ IsFiniteSet(ModeIds) /\ Cardinality(ModeIds) > MaxCalls  \* ids never run out
  /\ MaxCalls \in Nat /\ MaxCrashes \in Nat /\ MaxExchanges \in Nat
  /\ Overlap \in BOOLEAN /\ MayReject \in BOOLEAN
  /\ GuintMax \in Nat \ {0, 1}

VARIABLES
  \* nfcd (external)
  up, crashes,
  proxied,               \* the client's daemon proxy for this nfcd is made
  regs,                  \* how each AID is registered
  modes,                 \* mode request ids held
  rw,                    \* the one held for reader/writer mode, 0 if none
  \* the bus
  reqs, inbox,
  \* struct nfcd_client
  daemon, hce_profiles, hce_mode_request_id, hce_event,
  \* calls of luna clients, and the last call about each AID
  ncalls, calls, lastop,
  exchanges,             \* exchanges so far
  exchange               \* the last one, if nfcd is yet to report its outcome

nfcdVars == <<up, crashes, proxied, regs, modes, rw>>
hceVars == <<hce_profiles, hce_mode_request_id, hce_event>>
callVars == <<ncalls, calls, lastop>>
readerVars == <<exchanges, exchange>>
vars == <<nfcdVars, reqs, inbox, daemon, hceVars, callVars, readerVars>>

\* gen tells apart the profiles an AID has had; 0 is no profile.
NoProfile == [gen |-> 0, implicit |-> FALSE, registered |-> FALSE,
              next_response_id |-> 0]
Present(a) == hce_profiles[a].gen # 0

NoExchange == [aid |-> None, response_id |-> 0]

Flag(implicit) == IF implicit THEN "implicit" ELSE "plain"

\* call: the luna call waiting for the answer; gen: req->profile; id: a mode
Req(op, a, flag, n, gen, id) ==
  [op |-> op, aid |-> a, flag |-> flag, call |-> n, gen |-> gen, id |-> id]
Msg(op, a, n, gen, id, ok) ==
  [op |-> op, aid |-> a, call |-> n, gen |-> gen, id |-> id, ok |-> ok]

-----------------------------------------------------------------------------
(* nfcd and the bus (external).                                            *)

\* A crash forgets everything; the bus fails the calls it had not answered
\* (Serve while ~up).  A call made so far is marked lost: nfcd cannot be blamed
\* for what it forgot.
Crash ==
  /\ up /\ crashes < MaxCrashes
  /\ crashes' = crashes + 1
  /\ up' = FALSE /\ proxied' = FALSE
  /\ regs' = [a \in Aids |-> "no"] /\ modes' = {} /\ rw' = 0
  /\ inbox' = Append(inbox, Msg("vanished", None, 0, 0, 0, TRUE))
  /\ calls' = [n \in DOMAIN calls |-> [calls[n] EXCEPT !.lost = n <= ncalls]]
  /\ UNCHANGED <<reqs, daemon, hceVars, ncalls, lastop, readerVars>>

\* The bus has refused what was called while nfcd was down.
Restart ==
  /\ ~up /\ reqs = <<>>
  /\ up' = TRUE
  /\ UNCHANGED <<crashes, proxied, regs, modes, rw, reqs, inbox, daemon,
                 hceVars, callVars, readerVars>>

\* daemon_appeared() has led to daemon_proxy_ready(), whose reader/writer
\* mode request nfcd grants under any id it has not in use.
DaemonProxy ==
  /\ up /\ ~proxied
  /\ proxied' = TRUE
  /\ \E id \in ModeIds \ modes : rw' = id /\ modes' = modes \union {id}
  /\ inbox' = Append(inbox, Msg("daemon_ready", None, 0, 0, 0, TRUE))
  /\ UNCHANGED <<up, crashes, regs, reqs, daemon, hceVars, callVars, readerVars>>

Answer(q, id, ok) ==
  inbox' = Append(inbox, Msg(q.op, q.aid, q.call, q.gen, id, ok))

ServeRequestMode(q) ==
  /\ q.op = "request_mode"
  /\ IF up
       THEN \E id \in ModeIds \ modes :
              modes' = modes \union {id} /\ Answer(q, id, TRUE)
       ELSE Answer(q, 0, FALSE) /\ UNCHANGED modes
  /\ UNCHANGED <<regs, rw>>

\* nfcd rejects a path that is registered already.
ServeRegister(q) ==
  /\ q.op = "register"
  /\ \E ok \in IF up /\ regs[q.aid] = "no"
                 THEN {TRUE} \union {~MayReject} ELSE {FALSE} :
       /\ regs' = IF ok THEN [regs EXCEPT ![q.aid] = q.flag] ELSE regs
       /\ Answer(q, 0, ok)
  /\ UNCHANGED <<modes, rw>>

\* Nobody waits for the answer of these two.
ServeUnregister(q) ==
  /\ q.op = "unregister"
  /\ regs' = IF up THEN [regs EXCEPT ![q.aid] = "no"] ELSE regs
  /\ UNCHANGED <<modes, rw, inbox>>

ServeReleaseMode(q) ==
  /\ q.op = "release_mode"
  /\ modes' = IF up THEN modes \ {q.id} ELSE modes
  /\ rw' = IF up /\ q.id = rw THEN 0 ELSE rw
  /\ UNCHANGED <<regs, inbox>>

Serve ==
  /\ reqs # <<>>
  /\ LET q == Head(reqs) IN
       \/ ServeRequestMode(q) \/ ServeRegister(q)
       \/ ServeUnregister(q) \/ ServeReleaseMode(q)
  /\ reqs' = Tail(reqs)
  /\ UNCHANGED <<up, crashes, proxied, daemon, hceVars, callVars, readerVars>>

-----------------------------------------------------------------------------
(* Events of the main loop.                                                *)

Dispatch(op) ==
  /\ inbox # <<>>
  /\ Head(inbox).op = op
  /\ inbox' = Tail(inbox)
  /\ UNCHANGED <<nfcdVars, reqs, readerVars>>

\* Only client->daemon changes: card emulation has no part in either handler.
daemon_vanished ==
  /\ Dispatch("vanished")
  /\ daemon' = FALSE
  /\ UNCHANGED <<hceVars, callVars>>

daemon_proxy_ready ==
  /\ Dispatch("daemon_ready")
  /\ daemon' = TRUE
  /\ UNCHANGED <<hceVars, callVars>>

hce_mode_ready ==
  /\ Dispatch("request_mode")
  /\ hce_mode_request_id' =
       IF Head(inbox).ok THEN Head(inbox).id ELSE hce_mode_request_id
  /\ UNCHANGED <<daemon, hce_profiles, hce_event, callVars>>

\* The luna client behind call n is told.
Tell(n, ok) ==
  calls' = [calls EXCEPT ![n].state = IF @ # "pending" THEN "answered twice"
                                      ELSE IF ok THEN "ok" ELSE "failed"]

\* req->profile may be gone by now: the store then goes to freed memory, which
\* a profile added since may or may not have been given.
hce_register_ready ==
  /\ Dispatch("register")
  /\ LET m == Head(inbox)
         Touched == IF hce_profiles[m.aid].gen = m.gen THEN {{m.aid}}
                    ELSE {{}} \union {{a} : a \in {b \in Aids :
                                         hce_profiles[b].gen > m.gen}}
     IN  /\ Tell(m.call, m.ok)
         /\ \E T \in IF m.ok THEN Touched ELSE {{}} :
              hce_profiles' = [a \in Aids |->
                 IF a \in T THEN [hce_profiles[a] EXCEPT !.registered = TRUE]
                            ELSE hce_profiles[a]]
  /\ UNCHANGED <<daemon, hce_mode_request_id, hce_event, ncalls, lastop>>

-----------------------------------------------------------------------------
(* Calls of luna clients.  Call n is about the AIDs of as.                 *)

NewCall(as, n) ==
  /\ ncalls < MaxCalls
  /\ n = ncalls + 1
  /\ Overlap \/ \A k \in 1..ncalls : calls[k].state # "pending"
  /\ ncalls' = n
  /\ lastop' = [a \in Aids |-> IF a \in as THEN n ELSE lastop[a]]

\* calls after call n was made and, unless state is "pending", answered.
Made(n, op, state) ==
  calls' = [calls EXCEPT ![n] = [op |-> op, state |-> state, lost |-> FALSE]]

\* Mutant: only an implicit profile asks for the mode.
RegisterCalls_implicit_only(a, implicit, n, gen) ==
  LET mode == IF implicit
                THEN << Req("request_mode", None, "no", 0, 0, 0) >> ELSE <<>>
  IN  Append(mode, Req("register", a, Flag(implicit), n, gen, 0))

\* The calls hce_do_register() sends when there is a daemon.
RegisterCalls(a, implicit, n, gen) ==
  << Req("request_mode", None, "no", 0, 0, 0),
     Req("register", a, Flag(implicit), n, gen, 0) >>

UnregisterCall(a) == Req("unregister", a, "no", 0, 0, 0)

\* Mutant: the profile found in the table is registered again without being
\* unregistered, whatever changed.
UpdateProfile_no_unregister(a, implicit, n) ==
  LET p == hce_profiles[a] IN
  /\ hce_profiles' = [hce_profiles EXCEPT ![a].implicit = implicit]
  /\ IF p.implicit # implicit /\ daemon
       THEN /\ reqs' = reqs \o RegisterCalls(a, implicit, n, p.gen)
            /\ Made(n, "add", "pending")
       ELSE Made(n, "add", "ok") /\ UNCHANGED reqs

\* The AID is in the table: nfcd hears of it only if the flag changed.
UpdateProfile(a, implicit, n) ==
  LET p == hce_profiles[a] IN
  IF p.implicit # implicit /\ daemon
    THEN /\ hce_profiles' = [hce_profiles EXCEPT ![a].implicit = implicit,
                                                 ![a].registered = FALSE]
         /\ reqs' = Append(reqs, UnregisterCall(a))
                    \o RegisterCalls(a, implicit, n, p.gen)
         /\ Made(n, "add", "pending")
    ELSE /\ hce_profiles' = [hce_profiles EXCEPT ![a].implicit = implicit]
         /\ Made(n, "add", "ok")
         /\ UNCHANGED reqs

\* Mutant: without a daemon the call is forgotten.
NewProfile_forgets(a, implicit, n) ==
  /\ hce_profiles' = [hce_profiles EXCEPT ![a] =
                        [NoProfile EXCEPT !.gen = n, !.implicit = implicit]]
  /\ reqs' = IF daemon THEN reqs \o RegisterCalls(a, implicit, n, n) ELSE reqs
  /\ Made(n, "add", "pending")

\* Mutant: the caller is told before nfcd has registered anything, and a
\* registration is only attempted for implicit profiles.
NewProfile_eager(a, implicit, n) ==
  /\ hce_profiles' = [hce_profiles EXCEPT ![a] =
                        [NoProfile EXCEPT !.gen = n, !.implicit = implicit]]
  /\ IF daemon /\ implicit
       THEN /\ reqs' = reqs \o RegisterCalls(a, implicit, n, n)
            /\ Made(n, "add", "pending")
       ELSE Made(n, "add", "ok") /\ UNCHANGED reqs

\* The profile stays in the table even when it cannot be registered.
NewProfile(a, implicit, n) ==
  /\ hce_profiles' = [hce_profiles EXCEPT ![a] =
                        [NoProfile EXCEPT !.gen = n, !.implicit = implicit]]
  /\ IF daemon
       THEN /\ reqs' = reqs \o RegisterCalls(a, implicit, n, n)
            /\ Made(n, "add", "pending")
       ELSE Made(n, "add", "failed") /\ UNCHANGED reqs

\* Without an object for nfcd to call there is no profile.
hce_export_skeleton_fails(n) ==
  Made(n, "add", "failed") /\ UNCHANGED <<hce_profiles, reqs>>

nfcd_client_add_card_emulation_profile(a, implicit, n) ==
  /\ NewCall({a}, n)
  /\ \/ Present(a) /\ UpdateProfile(a, implicit, n)
     \/ ~Present(a) /\ NewProfile(a, implicit, n)
     \/ ~Present(a) /\ hce_export_skeleton_fails(n)
  /\ UNCHANGED <<nfcdVars, inbox, daemon, hce_mode_request_id, hce_event,
                 readerVars>>

\* The mode request goes when no profile is left.
ReleaseModeCall(left) ==
  IF left = {} /\ hce_mode_request_id # 0 /\ daemon
    THEN << Req("release_mode", None, "no", 0, 0, hce_mode_request_id) >>
    ELSE <<>>

\* The ways to list the AIDs of S.
Orders(S) ==
  {s \in UNION {[1..k -> S] : k \in 0..Cardinality(S)} :
     /\ \A i, j \in DOMAIN s : s[i] = s[j] => i = j
     /\ S = {s[i] : i \in DOMAIN s}}

\* Mutant: the table forgets profiles that nfcd still serves.
Unregistered_none(as) == {}

\* Of the AIDs in as, those nfcd is told of: one whose registration has not
\* been confirmed is not unregistered.
Unregistered(as) ==
  {a \in as : Present(a) /\ hce_profiles[a].registered /\ daemon}

\* Removes the profiles in as.  The hash table lists them in any order.
Drop(as, op, n) ==
  LET left == {a \in Aids \ as : Present(a)}
      rel == ReleaseModeCall(left)
  IN  /\ hce_profiles' = [a \in Aids |->
                            IF a \in as THEN NoProfile ELSE hce_profiles[a]]
      /\ \E order \in Orders(Unregistered(as)) :
           reqs' = reqs \o [i \in DOMAIN order |-> UnregisterCall(order[i])] \o rel
      /\ hce_mode_request_id' = IF rel = <<>> THEN hce_mode_request_id ELSE 0
      /\ Made(n, op, "ok")
      /\ UNCHANGED <<nfcdVars, inbox, daemon, hce_event, readerVars>>

nfcd_client_remove_card_emulation_profile(a, n) ==
  /\ NewCall({a}, n)
  /\ IF Present(a)
       THEN Drop({a}, "remove", n)
       ELSE /\ Made(n, "remove", "ok")
            /\ UNCHANGED <<nfcdVars, reqs, inbox, daemon, hceVars, readerVars>>

nfcd_client_clear_card_emulation(n) ==
  /\ NewCall(Aids, n)
  /\ Drop(Aids, "clear", n)

-----------------------------------------------------------------------------
(* Exchanges: nfcd calls the LocalHostApp object of a registered AID.  The *)
(* object exists as long as the profile.                                   *)

NextId(id) == (id + 1) % (GuintMax + 1)

\* Mutant: 0 is handed out when the counter wraps.
FreshId_wraps(p) == NextId(p.next_response_id)

\* 0 would tell nfcd not to report the outcome: it is skipped.
FreshId(p) ==
  LET id == NextId(p.next_response_id) IN IF id = 0 THEN NextId(id) ELSE id

hce_handle_process(a) ==
  /\ regs[a] # "no" /\ Present(a)
  /\ exchanges < MaxExchanges
  /\ exchanges' = exchanges + 1
  /\ LET id == FreshId(hce_profiles[a]) IN
       /\ exchange' = [aid |-> a, response_id |-> id]
       /\ hce_profiles' = [hce_profiles EXCEPT ![a].next_response_id = id]
  /\ UNCHANGED <<nfcdVars, reqs, inbox, daemon, hce_mode_request_id, hce_event,
                 callVars>>

hce_handle_response_status(a, ok) ==
  /\ regs[a] # "no" /\ Present(a)
  /\ exchange.aid = a /\ exchange.response_id # 0
  /\ hce_event' = [aid |-> a, ok |-> ok]
  /\ exchange' = NoExchange
  /\ UNCHANGED <<nfcdVars, reqs, inbox, daemon, hce_profiles,
                 hce_mode_request_id, callVars, exchanges>>

-----------------------------------------------------------------------------
Client == daemon_vanished \/ daemon_proxy_ready \/ hce_mode_ready
          \/ hce_register_ready

Caller ==
  \E n \in 1..MaxCalls :
    \/ \E a \in Aids, implicit \in BOOLEAN :
         nfcd_client_add_card_emulation_profile(a, implicit, n)
    \/ \E a \in Aids : nfcd_client_remove_card_emulation_profile(a, n)
    \/ nfcd_client_clear_card_emulation(n)

Reader ==
  \E a \in Aids : hce_handle_process(a)
                  \/ \E ok \in BOOLEAN : hce_handle_response_status(a, ok)

\* The first nfcd's first id is fixed: ids are only ever compared.
Init ==
  /\ up = TRUE /\ crashes = 0 /\ proxied = TRUE
  /\ regs = [a \in Aids |-> "no"]
  /\ rw = (CHOOSE id \in ModeIds : TRUE) /\ modes = {rw}
  /\ reqs = <<>> /\ inbox = <<>>
  /\ daemon = TRUE
  /\ hce_profiles = [a \in Aids |-> NoProfile]
  /\ hce_mode_request_id = 0
  /\ hce_event = [aid |-> None, ok |-> FALSE]
  /\ ncalls = 0
  /\ calls = [n \in 1..MaxCalls |->
                [op |-> "none", state |-> "idle", lost |-> FALSE]]
  /\ lastop = [a \in Aids |-> 0]
  /\ exchanges = 0 /\ exchange = NoExchange

Next == Client \/ Serve \/ Caller \/ Reader
        \/ Crash \/ Restart \/ DaemonProxy

\* The main loop runs and every call is answered.
Fairness == WF_vars(Client) /\ WF_vars(Serve)

Spec == Init /\ [][Next]_vars /\ Fairness

-----------------------------------------------------------------------------
(* Properties.                                                             *)

\* What is called on the bus: the calls that are about an AID name it, and one
\* that registers it names the luna call and the profile.
BusCalls ==
  {q \in [op : {"request_mode", "register", "unregister", "release_mode"},
          aid : Aids \union {None}, flag : {"no", "plain", "implicit"},
          call : 0..MaxCalls, gen : 0..MaxCalls, id : ModeIds \union {0}] :
     /\ q.op \in {"register", "unregister"} => q.aid \in Aids
     /\ q.op = "register" => q.flag # "no" /\ q.call # 0 /\ q.gen # 0}

\* What the bus brings.
BusMessages ==
  {m \in [op : {"vanished", "daemon_ready", "request_mode", "register"},
          aid : Aids \union {None}, call : 0..MaxCalls, gen : 0..MaxCalls,
          id : ModeIds \union {0}, ok : BOOLEAN] :
     m.op = "register" => m.aid \in Aids /\ m.call # 0 /\ m.gen # 0}

TypeOK ==
  /\ up \in BOOLEAN /\ crashes \in 0..MaxCrashes /\ proxied \in BOOLEAN
  /\ regs \in [Aids -> {"no", "plain", "implicit"}]
  /\ modes \subseteq ModeIds /\ rw \in ModeIds \union {0}
  /\ reqs \in Seq(BusCalls) /\ inbox \in Seq(BusMessages)
  /\ daemon \in BOOLEAN
  /\ hce_profiles \in [Aids -> [gen : 0..MaxCalls, implicit : BOOLEAN,
                                registered : BOOLEAN,
                                next_response_id : 0..GuintMax]]
  /\ hce_mode_request_id \in ModeIds \union {0}
  /\ hce_event \in [aid : Aids \union {None}, ok : BOOLEAN]
  /\ ncalls \in 0..MaxCalls
  /\ calls \in [1..MaxCalls -> [op : {"none", "add", "remove", "clear"},
                                state : {"idle", "pending", "ok", "failed"},
                                lost : BOOLEAN]]
  /\ lastop \in [Aids -> 0..MaxCalls]
  /\ exchanges \in 0..MaxExchanges
  /\ exchange \in [aid : Aids \union {None}, response_id : 0..GuintMax]

Settled == reqs = <<>> /\ inbox = <<>>

\* The last call about AID a was op and was answered "returnValue": true.
LastWas(a, ops) ==
  /\ lastop[a] # 0
  /\ calls[lastop[a]].op \in ops
  /\ calls[lastop[a]].state = "ok"

(***************************************************************************)
(* docs/API.md of addCardEmulationProfile: "`{"returnValue": true}` once   *)
(* nfcd has registered the profile."  A successful add, if nfcd has not    *)
(* crashed since, leaves the AID registered.                               *)
(***************************************************************************)
AddMeansRegistered ==
  Settled => \A a \in Aids :
    LastWas(a, {"add"}) /\ ~calls[lastop[a]].lost => regs[a] # "no"

(***************************************************************************)
(* docs/API.md: removeCardEmulationProfile "Unregisters one profile by     *)
(* AID", clearCardEmulation "Unregisters every profile": after a           *)
(* successful one nfcd no longer routes readers to the AID.                *)
(***************************************************************************)
RemoveMeansUnregistered ==
  Settled => \A a \in Aids : LastWas(a, {"remove", "clear"}) => regs[a] = "no"

(***************************************************************************)
(* "Re-adding an AID that is already registered replaces its payload and   *)
(* `implicit` flag" (docs/API.md): nfcd routes by the flag of the profile, *)
(* through updates, removals and rejected registrations.                   *)
(***************************************************************************)
FlagIsCurrent ==
  Settled => \A a \in Aids :
    regs[a] # "no" /\ Present(a) => regs[a] = Flag(hce_profiles[a].implicit)

(***************************************************************************)
(* "Registering a profile also asks nfcd to enable card-emulation mode"    *)
(* (docs/API.md): until nfcd crashes, a mode request is held as long as    *)
(* there is a profile to serve, for every removal only gives the mode up   *)
(* with the last profile, and every registration asks for it anew.         *)
(***************************************************************************)
ModeWhileActive ==
  Settled /\ crashes = 0 => \A a \in Aids :
    regs[a] # "no" /\ Present(a) => modes \ {rw} # {}

(***************************************************************************)
(* "0 is never used, wrap included": no exchange gets response id 0, and   *)
(* two exchanges in a row with a profile never share an id.                *)
(***************************************************************************)
ResponseIdsUsable ==
  [][\A a \in Aids :
       hce_handle_process(a) =>
         /\ exchange'.response_id # 0
         /\ exchange'.response_id # hce_profiles[a].next_response_id]_vars

Contract == INSTANCE Request
              WITH Requests <- 1..MaxCalls,
                   phase <- [n \in 1..MaxCalls |-> calls[n].state]

(***************************************************************************)
(* Every add, remove and clear call is answered, and only once, although   *)
(* calls about the same AID overlap, profiles are freed under calls in     *)
(* flight and nfcd crashes: the contract of module Request.                *)
(***************************************************************************)
CallsAnswered == Contract!Spec
=============================================================================
