----------------------------- MODULE NfcService -----------------------------
(***************************************************************************)
(* The luna service of nfc_service.c: its method handlers, the requests    *)
(* they keep across asynchronous calls, the subscriptions, and the link to *)
(* nfcd's settings service (nfcd_client.c), from whose first message the   *)
(* enabled flag of getStatus comes.  The main loop ends on a signal.       *)
(*                                                                         *)
(* The operations of nfcd_client.h are those of module Request, called     *)
(* back at most once, at once or later.  CardEmulation and PassportRead    *)
(* show theirs to be called back in the end, TagWrite only until nfcd      *)
(* crashes: a write or a lock may then be forgotten.  setEnabled is here   *)
(* in full.  What the other modules keep in step with nfcd is here changed *)
(* by the environment, together with the callback it triggers.  The bus of *)
(* the settings service is FIFO.                                           *)
(***************************************************************************)
EXTENDS Integers, Sequences

CONSTANTS
  Messages,     \* luna messages of callers
  Subscribers,  \* luna messages of subscribers
  None,         \* nothing
  MaxEvents,    \* bound: starts, crashes and changes of the settings service
  MaxChanges    \* bound: changes of the adapter, the tag and card emulation

ASSUME ServiceAssumption == MaxEvents \in Nat /\ MaxChanges \in Nat

VARIABLES
  \* the settings service (external)
  sup,          \* owns its bus name
  stored,       \* the setting, which it keeps across restarts
  events,       \* its starts, crashes and changes so far
  reqs, inbox,  \* the bus
  \* struct nfcd_client
  settings, settings_valid, settings_enabled,
  adapter_enabled, present, tag_json, hce_event,
  changes,      \* changes of these four so far
  crashed,      \* nfcd has crashed (external)
  \* luna
  subscribed,   \* the method each subscriber has subscribed to
  seen,         \* the last message each subscriber has got
  setting,      \* the messages that wait for set_enabled_ready()
  writing,      \* those whose write or lock of a tag is under way
  phase,        \* the operation behind each message, as in module Request
  refs,         \* references the service holds on a message
  replies,      \* the replies to it
  \* main()
  loop

settingsVars == <<sup, stored, events>>
linkVars == <<settings, settings_valid, settings_enabled>>
clientVars == <<adapter_enabled, present, tag_json, hce_event, changes, crashed>>
subVars == <<subscribed, seen>>
requestVars == <<setting, writing, phase, refs, replies>>
vars == <<settingsVars, reqs, inbox, linkVars, clientVars, subVars, requestVars,
          loop>>

Op == INSTANCE Request WITH Requests <- Messages

Running == loop # "stopped"

-----------------------------------------------------------------------------
(* Reply bodies and subscriptions.                                         *)

\* The persistent setting, or the adapter's own state without one.
nfcd_client_is_enabled(valid, enabled, adapter) == IF valid THEN enabled ELSE adapter

\* Of the status, enabled and present stand for the rest.
build_status(valid, enabled, adapter, p) ==
  [enabled |-> nfcd_client_is_enabled(valid, enabled, adapter), present |-> p]
build_tag_info(p, tag) == [present |-> p, tag |-> tag]
build_hce_event(event) == [event |-> event]

\* What a subscriber to method gets, before and after a step.
Body(method) ==
  CASE method = "getStatus" ->
         build_status(settings_valid, settings_enabled, adapter_enabled, present)
    [] method = "getTagInfo" -> build_tag_info(present, tag_json)
    [] method = "getCardEmulationEvent" -> build_hce_event(hce_event)

NewBody(method) ==
  CASE method = "getStatus" ->
         build_status(settings_valid', settings_enabled', adapter_enabled', present')
    [] method = "getTagInfo" -> build_tag_info(present', tag_json')
    [] method = "getCardEmulationEvent" -> build_hce_event(hce_event')

\* luna_service_post_subscription(): the subscribers to the methods get what
\* the methods would now reply.
Post(methods) ==
  /\ seen' = [c \in Subscribers |-> IF subscribed[c] \in methods
                                      THEN NewBody(subscribed[c]) ELSE seen[c]]
  /\ UNCHANGED subscribed

\* Mutant: present is forgotten to be part of getTagInfo's reply.
state_changed_cb_status_only == Post({"getStatus"})

state_changed_cb == Post({"getStatus", "getTagInfo"})
tag_changed_cb == Post({"getTagInfo"})
hce_changed_cb == Post({"getCardEmulationEvent"})

\* LSSubscriptionProcess() may refuse; the reply is sent all the same.
Subscribe(c, method) ==
  /\ Running
  /\ subscribed[c] = None
  /\ subscribed' = [subscribed EXCEPT ![c] = method]
  /\ seen' = [seen EXCEPT ![c] = Body(method)]
  /\ UNCHANGED <<settingsVars, reqs, inbox, linkVars, clientVars, requestVars, loop>>

_service_get_status_cb(c) == Subscribe(c, "getStatus")
_service_get_tag_info_cb(c) == Subscribe(c, "getTagInfo")
_service_get_card_emulation_event_cb(c) == Subscribe(c, "getCardEmulationEvent")

\* A subscriber goes away; the bus drops its subscription.
Unsubscribe(c) ==
  /\ Running
  /\ subscribed[c] # None
  /\ subscribed' = [subscribed EXCEPT ![c] = None]
  /\ seen' = [seen EXCEPT ![c] = None]
  /\ UNCHANGED <<settingsVars, reqs, inbox, linkVars, clientVars, requestVars, loop>>

-----------------------------------------------------------------------------
(* Requests.                                                               *)

Reply(i, r) == replies' = [replies EXCEPT ![i] = Append(@, r)]

Fresh(i) == phase[i] = "idle" /\ replies[i] = <<>>

\* Mutant: the message is not kept for the callback.
nfc_request_new_unreferenced(i) ==
  /\ Op!Ask(i)
  /\ UNCHANGED <<refs, replies>>

\* The operation is under way; the message is kept until it is called back.
nfc_request_new(i) ==
  /\ Op!Ask(i)
  /\ refs' = [refs EXCEPT ![i] = @ + 1]
  /\ UNCHANGED replies

\* Called back before the function returns: the message is kept and let go.
CalledBackAtOnce(i, a) ==
  /\ Op!AnswerAtOnce(i, a)
  /\ Reply(i, a)
  /\ UNCHANGED refs

\* luna_service_message_reply_custom_error() and its like.
ReplyError(i) ==
  /\ Reply(i, "failed")
  /\ UNCHANGED <<phase, refs>>

\* A handler that parses its payload: parsed, it is JSON; valid, it has the
\* parameters.  Then the operation is started.
Handler(i, parsed, valid) ==
  /\ Running
  /\ Fresh(i)
  /\ IF parsed /\ valid
       THEN nfc_request_new(i) \/ \E a \in Op!Answers : CalledBackAtOnce(i, a)
       ELSE ReplyError(i)
  /\ UNCHANGED <<setting, settingsVars, reqs, inbox, linkVars, clientVars, subVars, loop>>

\* Of start_type2_write() and nfcd_client_lock_tag().
Writer(i, parsed, valid) ==
  /\ Handler(i, parsed, valid)
  /\ writing' = IF phase'[i] = "pending" THEN writing \union {i} ELSE writing
Other(i, parsed, valid) ==
  Handler(i, parsed, valid) /\ UNCHANGED writing

_service_write_tag_cb(i) == \E j, v \in BOOLEAN : Writer(i, j, v)
_service_clone_tag_cb(i) == \E j, v \in BOOLEAN : Writer(i, j, v)
_service_lock_tag_cb(i) == Writer(i, TRUE, TRUE)
_service_add_card_emulation_cb(i) == \E j, v \in BOOLEAN : Other(i, j, v)
_service_remove_card_emulation_cb(i) == \E j, v \in BOOLEAN : Other(i, j, v)
_service_clear_card_emulation_cb(i) == Other(i, TRUE, TRUE)
_service_read_passport_cb(i) == \E j, v \in BOOLEAN : Other(i, j, v)
_service_read_passport_pace_cb(i) == \E j, v \in BOOLEAN : Other(i, j, v)

\* Mutant: a failed operation gets its reply from the handler's error path,
\* and again from the callback.
result_cb_twice(i, a) ==
  /\ Op!Answer(i, a)
  /\ replies' = [replies EXCEPT ![i] = IF a = "failed" THEN <<a, a>> ELSE <<a>>]
  /\ refs' = [refs EXCEPT ![i] = @ - 1]

\* write_tag_result_cb() and the other result callbacks: the reply, then
\* nfc_request_free().
result_cb(i, a) ==
  /\ Op!Answer(i, a)
  /\ Reply(i, a)
  /\ refs' = [refs EXCEPT ![i] = @ - 1]

\* An operation of the client other than setEnabled is called back.
OperationDone(i) ==
  /\ Running
  /\ i \notin setting
  /\ \E a \in Op!Answers : result_cb(i, a)
  /\ writing' = writing \ {i}
  /\ UNCHANGED <<setting, settingsVars, reqs, inbox, linkVars, clientVars, subVars, loop>>

-----------------------------------------------------------------------------
(* The settings service and the bus (external).                            *)

Req(t, id, v) == [t |-> t, id |-> id, v |-> v]
Msg(t, id, v, ok) == [t |-> t, id |-> id, v |-> v, ok |-> ok]
Call(q) == reqs' = Append(reqs, q)

Event == Running /\ events < MaxEvents /\ events' = events + 1

Unheard == <<linkVars, clientVars, subVars, requestVars, loop>>

SettingsStart ==
  /\ Event /\ ~sup
  /\ sup' = TRUE
  /\ inbox' = Append(inbox, Msg("appeared", None, FALSE, TRUE))
  /\ UNCHANGED <<stored, reqs, Unheard>>

\* What it had not answered fails.
SettingsCrash ==
  /\ Event /\ sup
  /\ sup' = FALSE
  /\ inbox' = Append(inbox, Msg("vanished", None, FALSE, TRUE))
                \o [k \in DOMAIN reqs |-> Msg(reqs[k].t, reqs[k].id, FALSE, FALSE)]
  /\ reqs' = <<>>
  /\ UNCHANGED <<stored, Unheard>>

\* Somebody else changes the setting.
Toggle ==
  /\ Event /\ sup
  /\ stored' = ~stored
  /\ inbox' = Append(inbox, Msg("enabled_changed", None, ~stored, TRUE))
  /\ UNCHANGED <<sup, reqs, Unheard>>

\* The oldest call is answered, by the bus if the service is down.  It may
\* reject a SetEnabled; one that changes the setting is signalled.
Serve ==
  /\ reqs # <<>>
  /\ reqs' = Tail(reqs)
  /\ LET q == Head(reqs) IN
       \/ /\ q.t = "proxy"
          /\ inbox' = Append(inbox, Msg(q.t, q.id, FALSE, TRUE))
          /\ UNCHANGED stored
       \/ /\ q.t = "get_all"
          /\ inbox' = Append(inbox, Msg(q.t, q.id, stored, sup))
          /\ UNCHANGED stored
       \/ /\ q.t = "set_enabled"
          /\ \E ok \in {sup, FALSE} :
               /\ stored' = IF ok THEN q.v ELSE stored
               /\ inbox' = Append(IF ok /\ q.v # stored
                                    THEN Append(inbox, Msg("enabled_changed", None,
                                                           q.v, TRUE))
                                    ELSE inbox,
                                  Msg(q.t, q.id, q.v, ok))
  /\ UNCHANGED <<sup, events, Unheard>>

-----------------------------------------------------------------------------
(* The link to the settings service.                                       *)

\* The callback for message t is the next event of the main loop.
Dispatch(t) ==
  /\ Running
  /\ inbox # <<>>
  /\ Head(inbox).t = t
  /\ inbox' = Tail(inbox)
  /\ UNCHANGED <<settingsVars, clientVars, loop>>

settings_appeared ==
  /\ Dispatch("appeared")
  /\ Call(Req("proxy", None, FALSE))
  /\ UNCHANGED <<linkVars, subVars, requestVars>>

settings_proxy_ready ==
  /\ Dispatch("proxy")
  /\ settings' = TRUE
  /\ Call(Req("get_all", None, FALSE))
  /\ UNCHANGED <<settings_valid, settings_enabled, subVars, requestVars>>

settings_get_all_ready ==
  /\ Dispatch("get_all")
  /\ IF Head(inbox).ok
       THEN /\ settings_valid' = TRUE
            /\ settings_enabled' = Head(inbox).v
            /\ UNCHANGED settings
            /\ state_changed_cb
       ELSE UNCHANGED <<linkVars, subVars>>
  /\ UNCHANGED <<reqs, requestVars>>

\* A proxy lives on, with its signal handler, while a call on it is out.
Connected ==
  \/ settings
  \/ \E k \in DOMAIN reqs : reqs[k].t \in {"get_all", "set_enabled"}
  \/ \E k \in DOMAIN inbox : inbox[k].t \in {"get_all", "set_enabled"}

\* Mutant: the new value is stored and nobody is told.
settings_enabled_changed_silent ==
  /\ Dispatch("enabled_changed")
  /\ IF Connected
       THEN /\ settings_valid' = TRUE
            /\ settings_enabled' = Head(inbox).v
            /\ UNCHANGED <<settings, subVars>>
       ELSE UNCHANGED <<linkVars, subVars>>
  /\ UNCHANGED <<reqs, requestVars>>

settings_enabled_changed ==
  /\ Dispatch("enabled_changed")
  /\ IF Connected
       THEN /\ settings_valid' = TRUE
            /\ settings_enabled' = Head(inbox).v
            /\ UNCHANGED settings
            /\ state_changed_cb
       ELSE UNCHANGED <<linkVars, subVars>>
  /\ UNCHANGED <<reqs, requestVars>>

\* Mutant: the last value of the lost service stays valid.
settings_vanished_valid ==
  /\ Dispatch("vanished")
  /\ settings' = FALSE
  /\ UNCHANGED <<settings_valid, settings_enabled>>
  /\ state_changed_cb
  /\ UNCHANGED <<reqs, requestVars>>

settings_vanished ==
  /\ Dispatch("vanished")
  /\ settings' = FALSE
  /\ settings_valid' = FALSE
  /\ UNCHANGED settings_enabled
  /\ state_changed_cb
  /\ UNCHANGED <<reqs, requestVars>>

\* Without a proxy the callback comes at once.
nfcd_client_set_enabled(i, enabled) ==
  IF settings
    THEN /\ nfc_request_new(i)
         /\ setting' = setting \union {i}
         /\ Call(Req("set_enabled", i, enabled))
    ELSE CalledBackAtOnce(i, "failed") /\ UNCHANGED <<setting, reqs>>

\* valid: enabled is there and a boolean.
_service_set_enabled_cb(i) ==
  /\ Running
  /\ Fresh(i)
  /\ \/ \E enabled \in BOOLEAN : nfcd_client_set_enabled(i, enabled)
     \/ ReplyError(i) /\ UNCHANGED <<setting, reqs>>
  /\ UNCHANGED <<writing, settingsVars, inbox, linkVars, clientVars, subVars, loop>>

\* Mutant: a failed call is only logged.
set_enabled_ready_logged ==
  /\ Dispatch("set_enabled")
  /\ IF Head(inbox).ok THEN result_cb(Head(inbox).id, "ok")
                       ELSE UNCHANGED <<phase, refs, replies>>
  /\ UNCHANGED <<setting, writing, reqs, linkVars, subVars>>

set_enabled_ready ==
  /\ Dispatch("set_enabled")
  /\ result_cb(Head(inbox).id, IF Head(inbox).ok THEN "ok" ELSE "failed")
  /\ UNCHANGED <<setting, writing, reqs, linkVars, subVars>>

-----------------------------------------------------------------------------
(* The rest of the client: the adapter (module NfcdLink), the tag (TagRead) *)
(* and card emulation (CardEmulation) change, each with its callback.      *)

Change == Running /\ changes < MaxChanges /\ changes' = changes + 1

AdapterChanged ==
  /\ Change
  /\ adapter_enabled' \in BOOLEAN /\ present' \in BOOLEAN
  /\ UNCHANGED <<tag_json, hce_event, crashed>>
  /\ UNCHANGED <<settingsVars, reqs, inbox, linkVars, requestVars, loop>>
  /\ state_changed_cb

\* daemon_vanished(): nothing is known of the adapter or the tag any more.
NfcdCrashed ==
  /\ Change
  /\ crashed' = TRUE
  /\ adapter_enabled' = FALSE /\ present' = FALSE /\ tag_json' = None
  /\ UNCHANGED hce_event
  /\ UNCHANGED <<settingsVars, reqs, inbox, linkVars, requestVars, loop>>
  /\ state_changed_cb

TagChanged ==
  /\ Change
  /\ tag_json' \in {None, "tag"} \ {tag_json}
  /\ UNCHANGED <<adapter_enabled, present, hce_event, crashed>>
  /\ UNCHANGED <<settingsVars, reqs, inbox, linkVars, requestVars, loop>>
  /\ tag_changed_cb

HceConfirmed ==
  /\ Change
  /\ hce_event' \in {"ok", "lost"} \ {hce_event}
  /\ UNCHANGED <<adapter_enabled, present, tag_json, crashed>>
  /\ UNCHANGED <<settingsVars, reqs, inbox, linkVars, requestVars, loop>>
  /\ hce_changed_cb

\* SIGINT or SIGTERM arms a timer of no seconds, once; then the loop ends,
\* and nfc_service_free() with no loop to run any callback.
signal_handler ==
  /\ loop = "running"
  /\ loop' = "terminating"
  /\ UNCHANGED <<settingsVars, reqs, inbox, linkVars, clientVars, subVars,
                 requestVars>>

quit_eventloop ==
  /\ loop = "terminating"
  /\ loop' = "stopped"
  /\ UNCHANGED <<settingsVars, reqs, inbox, linkVars, clientVars, subVars,
                 requestVars>>

-----------------------------------------------------------------------------

Link ==
  \/ settings_appeared \/ settings_vanished \/ settings_proxy_ready
  \/ settings_get_all_ready \/ settings_enabled_changed \/ set_enabled_ready

Luna ==
  \/ \E i \in Messages :
       \/ _service_set_enabled_cb(i) \/ _service_write_tag_cb(i)
       \/ _service_lock_tag_cb(i) \/ _service_clone_tag_cb(i)
       \/ _service_read_passport_cb(i) \/ _service_read_passport_pace_cb(i)
       \/ _service_add_card_emulation_cb(i)
       \/ _service_remove_card_emulation_cb(i)
       \/ _service_clear_card_emulation_cb(i)
  \/ \E c \in Subscribers :
       \/ _service_get_status_cb(c) \/ _service_get_tag_info_cb(c)
       \/ _service_get_card_emulation_event_cb(c) \/ Unsubscribe(c)

Environment ==
  \/ SettingsStart \/ SettingsCrash \/ Toggle
  \/ AdapterChanged \/ NfcdCrashed \/ TagChanged \/ HceConfirmed

Next ==
  \/ Link \/ Luna \/ Environment \/ Serve
  \/ \E i \in Messages : OperationDone(i)
  \/ signal_handler \/ quit_eventloop

\* g_bus_watch_name() first reports whether the name has an owner.
\* nfc_service_create() may fail; main() then ends at once.
Init ==
  /\ sup \in BOOLEAN /\ stored \in BOOLEAN /\ events = 0
  /\ reqs = <<>>
  /\ inbox = <<Msg(IF sup THEN "appeared" ELSE "vanished", None, FALSE, TRUE)>>
  /\ settings = FALSE /\ settings_valid = FALSE /\ settings_enabled = FALSE
  /\ adapter_enabled = FALSE /\ present = FALSE /\ tag_json = None
  /\ hce_event = None /\ changes = 0 /\ crashed = FALSE
  /\ subscribed = [c \in Subscribers |-> None]
  /\ seen = [c \in Subscribers |-> None]
  /\ setting = {} /\ writing = {} /\ Op!Init
  /\ refs = [i \in Messages |-> 0]
  /\ replies = [i \in Messages |-> <<>>]
  /\ loop \in {"running", "stopped"}

\* What the client may forget: TagWrite's AnsweredUnlessCrashed.
Orphaned(i) == i \in writing /\ crashed

\* The main loop runs and every call to the settings service is answered.  The
\* other operations of the client end, as CardEmulation's CallsAnswered,
\* PassportRead's EveryReadAnswered and TagWrite's AnsweredUnlessCrashed say.
Fairness ==
  /\ WF_vars(Link) /\ WF_vars(Serve) /\ WF_vars(quit_eventloop)
  /\ \A i \in Messages : WF_vars(OperationDone(i) /\ ~Orphaned(i))

Spec == Init /\ [][Next]_vars /\ Fairness

-----------------------------------------------------------------------------
(* Properties.                                                             *)

BusCalls ==
  [t : {"proxy", "get_all", "set_enabled"}, id : Messages \union {None}, v : BOOLEAN]

BusMessages ==
  [t : {"appeared", "vanished", "enabled_changed", "proxy", "get_all", "set_enabled"},
   id : Messages \union {None}, v : BOOLEAN, ok : BOOLEAN]

Methods == {"getStatus", "getTagInfo", "getCardEmulationEvent"}

Bodies ==
  [enabled : BOOLEAN, present : BOOLEAN]
    \union [present : BOOLEAN, tag : {None, "tag"}]
    \union [event : {None, "ok", "lost"}]

TypeOK ==
  /\ sup \in BOOLEAN /\ stored \in BOOLEAN /\ events \in 0..MaxEvents
  /\ reqs \in Seq(BusCalls) /\ inbox \in Seq(BusMessages)
  /\ settings \in BOOLEAN /\ settings_valid \in BOOLEAN
  /\ settings_enabled \in BOOLEAN
  /\ adapter_enabled \in BOOLEAN /\ present \in BOOLEAN
  /\ tag_json \in {None, "tag"} /\ hce_event \in {None, "ok", "lost"}
  /\ changes \in 0..MaxChanges /\ crashed \in BOOLEAN
  /\ subscribed \in [Subscribers -> Methods \union {None}]
  /\ seen \in [Subscribers -> Bodies \union {None}]
  /\ setting \subseteq Messages /\ writing \subseteq Messages
  /\ phase \in [Messages -> Op!Phases]
  /\ refs \in [Messages -> 0..1]
  /\ replies \in [Messages -> Seq(Op!Answers)]
  /\ loop \in {"running", "terminating", "stopped"}

(***************************************************************************)
(* Every subscriber has seen the state as it is: whatever changes a reply  *)
(* body, be it the settings service, the adapter, the tag or a reader, is  *)
(* pushed to the subscribers of every method whose reply it is part of     *)
(* ("present" is part of two), and one that subscribes in the middle has   *)
(* missed nothing.                                                         *)
(***************************************************************************)
SubscribersUpToDate ==
  \A c \in Subscribers : subscribed[c] # None => seen[c] = Body(subscribed[c])

Settled == reqs = <<>> /\ inbox = <<>>

ShowsSetting ==
  Body("getStatus").enabled = IF sup THEN stored ELSE adapter_enabled

(***************************************************************************)
(* docs/API.md of getStatus: "`enabled` | The persistent user setting".    *)
(* However crashes and restarts of the settings service, changes of the    *)
(* setting and late answers overlap, once all is handled getStatus shows   *)
(* the setting, or what the adapter reports while the service is gone.     *)
(***************************************************************************)
EnabledIsCurrent == Settled => ShowsSetting

(***************************************************************************)
(* A message is referenced exactly while its operation is under way, so no *)
(* callback replies to a message that is gone and none is leaked, and the  *)
(* reply says what became of the operation.                                *)
(***************************************************************************)
MessagesHeld ==
  \A i \in Messages :
    /\ refs[i] = IF phase[i] = "pending" THEN 1 ELSE 0
    /\ phase[i] = "pending" => replies[i] = <<>>
    /\ phase[i] \in Op!Answers => replies[i] = <<phase[i]>>

\* The replies to luna messages.
LunaReplies ==
  INSTANCE Request
    WITH Requests <- Messages,
         phase <- [i \in Messages |->
                     IF replies[i] = <<>> THEN phase[i]
                     ELSE IF Len(replies[i]) = 1 THEN replies[i][1]
                     ELSE "replied twice"]

(***************************************************************************)
(* docs/API.md: asynchronous methods "reply once the underlying nfcd       *)
(* operation finishes".  No luna message gets a second reply, from its     *)
(* handler, the result callback or both, and every one gets the first,     *)
(* unless the service is stopped, or it writes or locks a tag and nfcd     *)
(* crashes, which write_acquire_ready() and lock_acquire_ready() do not    *)
(* survive.  A setEnabled in flight while the settings service dies is     *)
(* answered.                                                               *)
(***************************************************************************)
EveryMessageAnswered ==
  /\ LunaReplies!Safety
  /\ \A i \in Messages :
       (phase[i] = "pending") ~> (replies[i] # <<>> \/ ~Running \/ Orphaned(i))
=============================================================================
