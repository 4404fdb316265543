------------------------------ MODULE NfcdLink ------------------------------
(***************************************************************************)
(* How nfcd_client.c attaches to the nfcd daemon and to its first adapter, *)
(* and keeps what getStatus reports in step with them, while nfcd crashes, *)
(* restarts, gains and loses adapters and sees tags come and go.           *)
(*                                                                         *)
(* Everything the adapter is told about nfcd arrives through one bus       *)
(* connection, in order: inbox is that FIFO (replies, signals and the      *)
(* name-watch events), reqs the calls not yet answered.  Proxies address   *)
(* nfcd by its well-known name, so a call sent to one instance may be      *)
(* answered by the next one, or by the bus with an error.                  *)
(*                                                                         *)
(* Of the adapter's properties, present stands for all four that have a    *)
(* changed signal (enabled, powered, mode, present): the code treats them  *)
(* alike.  Of set_current_tag() only tag_path is kept here; the module     *)
(* TagRead has the rest, for every sequence of tag lists.                  *)
(***************************************************************************)
EXTENDS Integers, Sequences

CONSTANTS
  Adapters,    \* object paths of adapters
  Tags,        \* object paths of tags
  None,        \* no path
  MaxEvents    \* bound: crashes, starts, adapter and tag changes of nfcd

ASSUME LinkAssumption ==
  /\ None \notin Adapters
  /\ None \notin Tags
  /\ MaxEvents \in Nat

VARIABLES
  \* nfcd (external)
  up,                 \* owns its bus name
  nadapter,           \* its first adapter
  ntag,               \* the first tag of that adapter
  held,               \* reader/writer mode requests it holds for us
  events,             \* environment events so far
  \* the bus
  reqs, inbox,
  \* struct nfcd_client
  daemon, daemon_version, mode_request_id,
  adapter, adapter_path, available, present, tag_path,
  \* the body of the last getStatus push
  pushed

nfcdVars == <<up, nadapter, ntag, held, events>>
daemonVars == <<daemon, daemon_version, mode_request_id>>
adapterVars == <<adapter, adapter_path, available, present, tag_path, pushed>>
vars == <<nfcdVars, daemonVars, adapterVars, reqs, inbox>>

ReqNames == {"daemon_proxy", "daemon_get_all", "request_mode",
             "adapter_proxy", "adapter_get_all"}
MsgNames == ReqNames \union {"appeared", "vanished", "adapters_changed",
                             "tags_changed", "present_changed"}

Paths == Adapters \union Tags \union {None}
Req(t, path) == [t |-> t, path |-> path]
\* path: the adapter a message is on; tag: its first tag; ok: not an error
Msg(t, path, tag, ok) == [t |-> t, path |-> path, tag |-> tag, ok |-> ok]

-----------------------------------------------------------------------------
(* nfcd and the bus (external).                                            *)

Event == events < MaxEvents /\ events' = events + 1

NfcdStart ==
  /\ Event
  /\ ~up
  /\ up' = TRUE
  /\ inbox' = Append(inbox, Msg("appeared", None, None, TRUE))
  /\ UNCHANGED <<nadapter, ntag, held, reqs, daemonVars, adapterVars>>

NfcdCrash ==
  /\ Event
  /\ up
  /\ up' = FALSE
  /\ nadapter' = None
  /\ ntag' = None
  /\ held' = 0
  /\ inbox' = Append(inbox, Msg("vanished", None, None, TRUE))
  /\ UNCHANGED <<reqs, daemonVars, adapterVars>>

\* The adapter list changes; its tags go with an adapter.
NfcdAdapters(a) ==
  /\ Event
  /\ up
  /\ a # nadapter
  /\ nadapter' = a
  /\ ntag' = None
  /\ inbox' = Append(inbox, Msg("adapters_changed", a, None, TRUE))
  /\ UNCHANGED <<up, held, reqs, daemonVars, adapterVars>>

NfcdTag(t) ==
  /\ Event
  /\ up
  /\ nadapter # None
  /\ t # ntag
  /\ ntag' = t
  /\ inbox' = Append(Append(inbox, Msg("tags_changed", nadapter, t, TRUE)),
                     Msg("present_changed", nadapter, t, TRUE))
  /\ UNCHANGED <<up, nadapter, held, reqs, daemonVars, adapterVars>>

\* The oldest call is answered: by nfcd, or by the bus when nfcd is down.  A
\* proxy is created either way; a call then fails, as does one on an adapter
\* that is no longer there.
Reply(q) ==
  Msg(q.t,
      IF q.t = "daemon_get_all" THEN nadapter ELSE q.path,
      IF q.t = "adapter_get_all" THEN ntag ELSE None,
      /\ q.t \in {"daemon_get_all", "request_mode", "adapter_get_all"} => up
      /\ q.t = "adapter_get_all" => nadapter = q.path)

Serve ==
  /\ reqs # <<>>
  /\ inbox' = Append(inbox, Reply(Head(reqs)))
  /\ reqs' = Tail(reqs)
  /\ held' = IF Head(reqs).t = "request_mode" /\ up THEN held + 1 ELSE held
  /\ UNCHANGED <<up, nadapter, ntag, events, daemonVars, adapterVars>>

-----------------------------------------------------------------------------
(* The client: one action per callback.                                    *)

\* The callback named t is the next event of the main loop.
Dispatch(t) ==
  /\ inbox # <<>>
  /\ Head(inbox).t = t
  /\ inbox' = Tail(inbox)
  /\ UNCHANGED nfcdVars

Call(q) == reqs' = Append(reqs, q)

Status(ver) == [available |-> available', adapter_path |-> adapter_path',
                present |-> present', daemon_version |-> ver]

\* state_changed_cb(): what getStatus shows goes to its subscribers.
notify_state(ver) == pushed' = Status(ver)

\* Mutant: the path of the lost adapter is kept.
attach_adapter_keeps_path(path, ver) ==
  IF path = None
    THEN /\ adapter' = None
         /\ available' = FALSE
         /\ tag_path' = None
         /\ UNCHANGED <<adapter_path, present>>
         /\ notify_state(ver)
         /\ UNCHANGED reqs
    ELSE /\ IF adapter_path = path
              THEN UNCHANGED <<adapter_path, reqs>>
              ELSE /\ adapter_path' = path
                   /\ Call(Req("adapter_proxy", path))
         /\ UNCHANGED <<adapter, available, present, tag_path, pushed>>

\* Mutant: the loss of the adapter is not announced.
attach_adapter_silent(path, ver) ==
  IF path = None
    THEN /\ adapter' = None
         /\ adapter_path' = None
         /\ available' = FALSE
         /\ tag_path' = None
         /\ UNCHANGED <<present, pushed, reqs>>
    ELSE /\ IF adapter_path = path
              THEN UNCHANGED <<adapter_path, reqs>>
              ELSE /\ adapter_path' = path
                   /\ Call(Req("adapter_proxy", path))
         /\ UNCHANGED <<adapter, available, present, tag_path, pushed>>

\* path = None drops the adapter; what it last reported (present and its
\* like) stays.  A path already attached to is left alone.
attach_adapter(path, ver) ==
  IF path = None
    THEN /\ adapter' = None
         /\ adapter_path' = None
         /\ available' = FALSE
         /\ tag_path' = None
         /\ UNCHANGED <<present, reqs>>
         /\ notify_state(ver)
    ELSE /\ IF adapter_path = path
              THEN UNCHANGED <<adapter_path, reqs>>
              ELSE /\ adapter_path' = path
                   /\ Call(Req("adapter_proxy", path))
         /\ UNCHANGED <<adapter, available, present, tag_path, pushed>>

\* A call on an adapter proxy is still outstanding: it keeps the proxy, and
\* the signal handlers on it, alive after client->adapter has let go of it.
Outstanding(path) ==
  \/ \E i \in DOMAIN reqs : reqs[i] = Req("adapter_get_all", path)
  \/ \E i \in DOMAIN inbox :
       inbox[i].t = "adapter_get_all" /\ inbox[i].path = path

Connected(path) == adapter = path \/ Outstanding(path)

adapter_present_changed ==
  /\ Dispatch("present_changed")
  /\ IF Connected(Head(inbox).path)
       THEN /\ present' = (Head(inbox).tag # None)
            /\ UNCHANGED <<adapter, adapter_path, available, tag_path>>
            /\ notify_state(daemon_version)
       ELSE UNCHANGED adapterVars
  /\ UNCHANGED <<daemonVars, reqs>>

adapter_tags_changed ==
  /\ Dispatch("tags_changed")
  /\ tag_path' = IF Connected(Head(inbox).path) THEN Head(inbox).tag
                                                ELSE tag_path
  /\ UNCHANGED <<daemonVars, reqs, adapter, adapter_path, available, present,
                 pushed>>

adapter_get_all_ready ==
  /\ Dispatch("adapter_get_all")
  /\ IF Head(inbox).ok
       THEN /\ present' = (Head(inbox).tag # None)
            /\ available' = TRUE
            /\ tag_path' = Head(inbox).tag
            /\ UNCHANGED <<adapter, adapter_path>>
            /\ notify_state(daemon_version)
       ELSE UNCHANGED adapterVars
  /\ UNCHANGED <<daemonVars, reqs>>

adapter_proxy_ready ==
  /\ Dispatch("adapter_proxy")
  /\ adapter' = Head(inbox).path
  /\ Call(Req("adapter_get_all", Head(inbox).path))
  /\ UNCHANGED <<daemonVars, adapter_path, available, present, tag_path, pushed>>

\* Signals reach a handler only once client->daemon exists.
daemon_adapters_changed ==
  /\ Dispatch("adapters_changed")
  /\ IF daemon THEN attach_adapter(Head(inbox).path, daemon_version)
               ELSE UNCHANGED <<adapterVars, reqs>>
  /\ UNCHANGED daemonVars

daemon_get_all_ready ==
  /\ Dispatch("daemon_get_all")
  /\ IF Head(inbox).ok
       THEN /\ daemon_version' = 1
            /\ attach_adapter(Head(inbox).path, 1)
            /\ UNCHANGED <<daemon, mode_request_id>>
       ELSE UNCHANGED <<daemonVars, adapterVars, reqs>>

request_reader_writer_mode_ready ==
  /\ Dispatch("request_mode")
  /\ mode_request_id' = IF Head(inbox).ok THEN 1 ELSE mode_request_id
  /\ UNCHANGED <<daemon, daemon_version, adapterVars, reqs>>

\* Mutant: nobody asks nfcd to poll.
daemon_proxy_ready_no_mode ==
  /\ Dispatch("daemon_proxy")
  /\ daemon' = TRUE
  /\ mode_request_id' = 0
  /\ Call(Req("daemon_get_all", None))
  /\ UNCHANGED <<daemon_version, adapterVars>>

daemon_proxy_ready ==
  /\ Dispatch("daemon_proxy")
  /\ daemon' = TRUE
  /\ mode_request_id' = 0
  /\ reqs' = Append(Append(reqs, Req("daemon_get_all", None)),
                    Req("request_mode", None))
  /\ UNCHANGED <<daemon_version, adapterVars>>

daemon_appeared ==
  /\ Dispatch("appeared")
  /\ Call(Req("daemon_proxy", None))
  /\ UNCHANGED <<daemonVars, adapterVars>>

\* Mutant: the adapter of the dead daemon stays attached.
daemon_vanished_attached ==
  /\ Dispatch("vanished")
  /\ daemon' = FALSE
  /\ daemon_version' = 0
  /\ mode_request_id' = 0
  /\ UNCHANGED <<adapterVars, reqs>>

daemon_vanished ==
  /\ Dispatch("vanished")
  /\ daemon' = FALSE
  /\ daemon_version' = 0
  /\ mode_request_id' = 0
  /\ attach_adapter(None, 0)

Client ==
  \/ daemon_appeared \/ daemon_vanished \/ daemon_proxy_ready
  \/ daemon_get_all_ready \/ request_reader_writer_mode_ready
  \/ daemon_adapters_changed \/ adapter_proxy_ready \/ adapter_get_all_ready
  \/ adapter_tags_changed \/ adapter_present_changed

Nfcd ==
  \/ NfcdStart \/ NfcdCrash
  \/ \E a \in Adapters \union {None} : NfcdAdapters(a)
  \/ \E t \in Tags \union {None} : NfcdTag(t)

\* nfcd_client_create(): g_bus_watch_name() first reports whether the name
\* has an owner.
Init ==
  /\ up \in BOOLEAN
  /\ nadapter = None /\ ntag = None /\ held = 0 /\ events = 0
  /\ reqs = <<>>
  /\ inbox = <<Msg(IF up THEN "appeared" ELSE "vanished", None, None, TRUE)>>
  /\ daemon = FALSE /\ daemon_version = 0 /\ mode_request_id = 0
  /\ adapter = None /\ adapter_path = None /\ available = FALSE
  /\ present = FALSE /\ tag_path = None
  /\ pushed = [available |-> FALSE, adapter_path |-> None, present |-> FALSE,
               daemon_version |-> 0]

Next == Client \/ Serve \/ Nfcd

\* The main loop handles what is in its queue, and every call is answered.
Fairness == WF_vars(Client) /\ WF_vars(Serve)

Spec == Init /\ [][Next]_vars /\ Fairness

-----------------------------------------------------------------------------
(* Properties.                                                             *)

TypeOK ==
  /\ up \in BOOLEAN /\ nadapter \in Adapters \union {None}
  /\ ntag \in Tags \union {None} /\ held \in Nat /\ events \in 0..MaxEvents
  /\ reqs \in Seq([t : ReqNames, path : Paths])
  /\ inbox \in Seq([t : MsgNames, path : Paths, tag : Paths, ok : BOOLEAN])
  /\ daemon \in BOOLEAN /\ daemon_version \in {0, 1}
  /\ mode_request_id \in {0, 1}
  /\ adapter \in Adapters \union {None}
  /\ adapter_path \in Adapters \union {None}
  /\ available \in BOOLEAN /\ present \in BOOLEAN
  /\ tag_path \in Tags \union {None}
  /\ pushed \in [available : BOOLEAN, adapter_path : Adapters \union {None},
                 present : BOOLEAN, daemon_version : {0, 1}]

\* Nothing is on its way: no call outstanding, no event unhandled.
Settled == reqs = <<>> /\ inbox = <<>>

\* What the client knows is what nfcd is.
Accurate ==
  /\ available = (nadapter # None)
  /\ adapter_path = nadapter
  /\ tag_path = ntag
  /\ daemon_version = (IF up THEN 1 ELSE 0)
  /\ available => adapter = nadapter /\ present = (ntag # None)

(***************************************************************************)
(* However nfcd's crashes, restarts, adapter and tag changes overlap with  *)
(* the attach chain (late proxies and late replies of an earlier instance  *)
(* included), once everything on its way has been handled the client is    *)
(* attached to the adapter nfcd has and shows the tag it has, or nothing.  *)
(***************************************************************************)
SettledIsAccurate == Settled => Accurate

(***************************************************************************)
(* available and present never change without a getStatus push, and once   *)
(* settled the last push carries all of the status, the version and path   *)
(* that daemon_get_all_ready() stores silently included.                   *)
(***************************************************************************)
StatusIsPushed ==
  /\ pushed.available = available /\ pushed.present = present
  /\ Settled => /\ pushed.adapter_path = adapter_path
                /\ pushed.daemon_version = daemon_version

(***************************************************************************)
(* While nfcd is up and attached to, it polls because the adapter holds a  *)
(* reader/writer mode request on the current instance ("Hold reader/writer *)
(* for as long as we're connected to the daemon").                         *)
(***************************************************************************)
ModeIsHeld == Settled /\ up => held >= 1 /\ mode_request_id # 0

(***************************************************************************)
(* After the last change of nfcd the client settles on an accurate view,   *)
(* for good: no lost or reordered step leaves it detached.                 *)
(***************************************************************************)
EventuallyAccurate == <>[](Settled /\ Accurate)
=============================================================================
