-------------------------- MODULE NfcService_proofs --------------------------
(***************************************************************************)
(* Proofs about module NfcService, for any number of messages, subscribers *)
(* and events.  Three things are followed separately, each by an invariant *)
(* of its own: the requests (RequestInv), the subscriptions                *)
(* (SubscriptionInv) and the link to the settings service (BusType and     *)
(* SettingInv).  A lemma says what the steps of the service do to each.    *)
(***************************************************************************)
EXTENDS NfcService, QueueLemmas

-----------------------------------------------------------------------------
(* Requests.                                                               *)

\* A message whose operation was never started has no reply, or the one of a
\* payload that was refused.
OneReply == \A i \in Messages : phase[i] = "idle" => replies[i] \in {<<>>, <<"failed">>}

RequestType ==
  /\ setting \subseteq Messages
  /\ phase \in [Messages -> Op!Phases]
  /\ refs \in [Messages -> 0..1]
  /\ replies \in [Messages -> Seq(Op!Answers)]

RequestInv == RequestType /\ MessagesHeld /\ OneReply

\* What a step does to the requests.
RequestStep(i) ==
  \/ i \in Messages /\ Fresh(i) /\ nfc_request_new(i)
  \/ Fresh(i) /\ \E a \in Op!Answers : CalledBackAtOnce(i, a)
  \/ Fresh(i) /\ ReplyError(i)
  \/ \E a \in Op!Answers : result_cb(i, a)

\* A handler that parses its payload.
LEMMA HandlerStep ==
  ASSUME NEW i \in Messages, NEW j \in BOOLEAN, NEW v \in BOOLEAN, Handler(i, j, v)
  PROVE  RequestStep(i) /\ setting' = setting
BY DEF Handler, RequestStep

\* Every step is one of these for some message, or leaves the requests alone.
LEMMA RequestSteps ==
  ASSUME Next
  PROVE  \/ (\E i : RequestStep(i)) /\ (setting' \subseteq setting \union Messages)
         \/ UNCHANGED requestVars
<1>1. CASE Link
  <2>1. CASE set_enabled_ready
    BY <2>1 DEF set_enabled_ready, RequestStep, Op!Answers
  <2> QED
    BY <1>1, <2>1 DEF Link, settings_appeared, settings_vanished,
       settings_proxy_ready, settings_get_all_ready, settings_enabled_changed
<1>2. CASE Luna
  <2>1. ASSUME NEW i \in Messages, _service_set_enabled_cb(i)
        PROVE  RequestStep(i) /\ (setting' \subseteq setting \union Messages)
    BY <2>1 DEF _service_set_enabled_cb, nfcd_client_set_enabled, RequestStep,
       Op!Answers
  <2>2. ASSUME NEW i \in Messages,
               \/ _service_write_tag_cb(i)
               \/ _service_lock_tag_cb(i) \/ _service_clone_tag_cb(i)
               \/ _service_read_passport_cb(i) \/ _service_read_passport_pace_cb(i)
               \/ _service_add_card_emulation_cb(i)
               \/ _service_remove_card_emulation_cb(i)
               \/ _service_clear_card_emulation_cb(i)
        PROVE  RequestStep(i) /\ (setting' \subseteq setting \union Messages)
    BY <2>2, HandlerStep DEF Writer, Other, _service_write_tag_cb,
       _service_lock_tag_cb, _service_clone_tag_cb,
       _service_read_passport_cb, _service_read_passport_pace_cb,
       _service_add_card_emulation_cb, _service_remove_card_emulation_cb,
       _service_clear_card_emulation_cb
  <2>3. ASSUME NEW c \in Subscribers,
               \/ _service_get_status_cb(c) \/ _service_get_tag_info_cb(c)
               \/ _service_get_card_emulation_event_cb(c) \/ Unsubscribe(c)
        PROVE  UNCHANGED requestVars
    BY <2>3 DEF _service_get_status_cb, _service_get_tag_info_cb,
       _service_get_card_emulation_event_cb, Unsubscribe, Subscribe
  <2> QED
    BY <1>2, <2>1, <2>2, <2>3 DEF Luna
<1>3. CASE Environment \/ Serve
  BY <1>3 DEF Environment, Serve, SettingsStart, SettingsCrash, Toggle, Unheard,
     AdapterChanged, NfcdCrashed, TagChanged, HceConfirmed
<1>4. ASSUME NEW i \in Messages, OperationDone(i)
      PROVE  RequestStep(i) /\ (setting' \subseteq setting \union Messages)
  BY <1>4 DEF OperationDone, RequestStep
<1>5. CASE signal_handler \/ quit_eventloop
  BY <1>5 DEF signal_handler, quit_eventloop
<1> QED
  BY <1>1, <1>2, <1>3, <1>4, <1>5 DEF Next

\* The first reply to a message.
LEMMA SingleReply ==
  ASSUME NEW a \in Op!Answers
  PROVE  Append(<<>>, a) = <<a>> /\ <<a>> \in Seq(Op!Answers) /\ <<a>> # <<>>
OBVIOUS

\* The request invariant is inductive.
LEMMA RequestInvStep ==
  ASSUME RequestInv, [Next]_vars
  PROVE  RequestInv'
<1>1. CASE UNCHANGED requestVars
  BY <1>1 DEF requestVars, RequestInv, RequestType, MessagesHeld, OneReply
<1>2. ASSUME NEW i, RequestStep(i), setting' \subseteq setting \union Messages
      PROVE  RequestInv'
  <2>1. CASE i \in Messages /\ Fresh(i) /\ nfc_request_new(i)
    <3>1. refs' = [refs EXCEPT ![i] = 1]
      <4>1. refs[i] = 0
        BY <2>1 DEF Fresh, RequestInv, MessagesHeld
      <4> QED
        BY <2>1, <4>1 DEF nfc_request_new
    <3>2. RequestType'
      BY <1>2, <2>1, <3>1 DEF nfc_request_new, Op!Ask, RequestInv, RequestType,
         Op!Phases
    <3>3. MessagesHeld'
      BY <2>1 DEF Fresh, nfc_request_new, Op!Ask, RequestInv, RequestType,
         MessagesHeld, Op!Answers
    <3>4. OneReply'
      BY <2>1 DEF nfc_request_new, Op!Ask, RequestInv, RequestType, OneReply
    <3> QED
      BY <3>2, <3>3, <3>4 DEF RequestInv
  <2>2. CASE Fresh(i) /\ ReplyError(i)
    <3>1. "failed" \in Op!Answers /\ replies' = [replies EXCEPT ![i] = <<"failed">>]
      BY <2>2, SingleReply DEF Fresh, ReplyError, Reply, Op!Answers
    <3> QED
      BY <1>2, <2>2, <3>1, SingleReply DEF Fresh, ReplyError, RequestInv,
         RequestType, MessagesHeld, OneReply, Op!Phases, Op!Answers
  <2>3. ASSUME NEW a \in Op!Answers, Fresh(i), CalledBackAtOnce(i, a)
        PROVE  RequestInv'
    <3>1. replies' = [replies EXCEPT ![i] = <<a>>]
      BY <2>3, SingleReply DEF Fresh, CalledBackAtOnce, Reply
    <3> QED
      BY <1>2, <2>3, <3>1, SingleReply DEF Fresh, CalledBackAtOnce, RequestInv,
         Op!AnswerAtOnce, RequestType, MessagesHeld, OneReply, Op!Phases, Op!Answers
  <2>4. ASSUME NEW a \in Op!Answers, result_cb(i, a)
        PROVE  RequestInv'
    <3>1. CASE i \in Messages
      <4>1. replies' = [replies EXCEPT ![i] = <<a>>]
        BY <2>4, <3>1, SingleReply DEF result_cb, Op!Answer, Reply, RequestInv,
           MessagesHeld
      <4> QED
        BY <1>2, <2>4, <4>1, <3>1, SingleReply DEF result_cb, RequestInv, Op!Answer,
           RequestType, MessagesHeld, OneReply, Op!Phases, Op!Answers
    <3>2. CASE i \notin Messages
      <4>1. phase' = phase /\ refs' = refs /\ replies' = replies
        BY <2>4, <3>2 DEF result_cb, Op!Answer, Reply, RequestInv, RequestType
      <4> QED
        BY <1>2, <4>1 DEF RequestInv, RequestType, MessagesHeld, OneReply
    <3> QED
      BY <3>1, <3>2
  <2> QED
    BY <1>2, <2>1, <2>2, <2>3, <2>4 DEF RequestStep
<1> QED
  BY <1>1, <1>2, RequestSteps DEF vars, requestVars

\* No request has been made at first.
LEMMA RequestInvInit == Init => RequestInv
BY DEF Init, Op!Init, RequestInv, RequestType, MessagesHeld, OneReply, Op!Phases,
   Op!Answers

\* What luna has seen of a message with the replies rs and the phase p.
Told(rs, p) ==
  IF rs = <<>> THEN p
  ELSE IF Len(rs) = 1 THEN rs[1]
  ELSE "replied twice"

\* A single reply is what luna has seen.
LEMMA ToldReply ==
  ASSUME NEW a, NEW p
  PROVE  Told(<<a>>, p) = a
BY DEF Told

\* What luna sees of the messages changes as module Request allows.
LEMMA RepliesStep ==
  ASSUME RequestInv, [Next]_vars
  PROVE  [LunaReplies!Next]_[i \in Messages |-> Told(replies[i], phase[i])]
<1> DEFINE told == [i \in Messages |-> Told(replies[i], phase[i])]
<1>1. CASE UNCHANGED requestVars
  BY <1>1 DEF requestVars
<1>2. ASSUME NEW i \in Messages, RequestStep(i)
      PROVE  LunaReplies!Next
  <2>1. ASSUME NEW q, NEW rs, phase' = [phase EXCEPT ![i] = q],
               replies' = [replies EXCEPT ![i] = rs]
        PROVE  told' = [told EXCEPT ![i] = Told(rs, q)]
    BY <2>1 DEF RequestInv, RequestType
  <2>2. ASSUME Fresh(i), nfc_request_new(i)
        PROVE  told[i] = "idle" /\ told' = [told EXCEPT ![i] = "pending"]
    <3>1. replies' = [replies EXCEPT ![i] = <<>>]
      BY <2>2 DEF Fresh, nfc_request_new, RequestInv, RequestType
    <3> QED
      BY <2>1, <2>2, <3>1 DEF Fresh, nfc_request_new, Op!Ask, Told
  <2>3. ASSUME NEW a \in Op!Answers, Fresh(i), CalledBackAtOnce(i, a)
        PROVE  told[i] = "idle" /\ told' = [told EXCEPT ![i] = a]
    <3>1. replies' = [replies EXCEPT ![i] = <<a>>]
      BY <2>3, SingleReply DEF Fresh, CalledBackAtOnce, Reply
    <3>2. told[i] = "idle"
      BY <2>3 DEF Fresh, Told
    <3>3. told' = [told EXCEPT ![i] = Told(<<a>>, a)]
      BY <2>1, <2>3, <3>1 DEF CalledBackAtOnce, Op!AnswerAtOnce
    <3> QED
      BY <3>2, <3>3, ToldReply, Zenon
  <2>4. ASSUME Fresh(i), ReplyError(i)
        PROVE  told[i] = "idle" /\ told' = [told EXCEPT ![i] = "failed"]
    <3>1. replies' = [replies EXCEPT ![i] = <<"failed">>]
      BY <2>4, SingleReply DEF Fresh, ReplyError, Reply, Op!Answers
    <3>2. told[i] = "idle" /\ phase' = [phase EXCEPT ![i] = "idle"]
      BY <2>4 DEF Fresh, Told, ReplyError, RequestInv, RequestType
    <3>3. told' = [told EXCEPT ![i] = Told(<<"failed">>, "idle")]
      BY <2>1, <3>1, <3>2
    <3> QED
      BY <3>2, <3>3, ToldReply, Zenon
  <2>5. ASSUME NEW a \in Op!Answers, result_cb(i, a)
        PROVE  told[i] = "pending" /\ told' = [told EXCEPT ![i] = a]
    <3>1. replies[i] = <<>>
      BY <2>5 DEF result_cb, Op!Answer, RequestInv, MessagesHeld
    <3>2. replies' = [replies EXCEPT ![i] = <<a>>]
      BY <2>5, <3>1, SingleReply DEF result_cb, Reply
    <3>3. told[i] = "pending"
      BY <2>5, <3>1 DEF Told, result_cb, Op!Answer
    <3>4. told' = [told EXCEPT ![i] = Told(<<a>>, a)]
      BY <2>1, <2>5, <3>2 DEF result_cb, Op!Answer
    <3> QED
      BY <3>3, <3>4, ToldReply, Zenon
  <2>6. \/ told[i] = "idle" /\ told' = [told EXCEPT ![i] = "pending"]
        \/ \E a \in Op!Answers :
             told[i] \in {"idle", "pending"} /\ told' = [told EXCEPT ![i] = a]
    BY <1>2, <2>2, <2>3, <2>4, <2>5, Zenon DEF RequestStep, Op!Answers
  <2> QED
    BY <2>6 DEF LunaReplies!Next, LunaReplies!Ask, LunaReplies!AnswerAtOnce,
       LunaReplies!Answer, LunaReplies!Answers, Op!Answers, Told
<1>3. ASSUME NEW i, i \notin Messages, RequestStep(i)
      PROVE  UNCHANGED told
  <2>1. \A j \in Messages : replies'[j] = replies[j] /\ phase'[j] = phase[j]
    BY <1>3 DEF RequestStep, nfc_request_new, CalledBackAtOnce, ReplyError, Reply,
       result_cb, Op!AnswerAtOnce, Op!Answer, RequestInv, RequestType
  <2> QED
    BY <2>1
<1> QED
  BY <1>1, <1>2, <1>3, RequestSteps DEF vars, requestVars

(***************************************************************************)
(* The safety half of EveryMessageAnswered: no luna message gets a second  *)
(* reply, from a handler or from a result callback, and none is replied to *)
(* before its method was called.  By RequestInv, which says what has been  *)
(* replied in each phase of the operation.                                 *)
(***************************************************************************)
THEOREM RepliesOnce == Spec => LunaReplies!Safety
<1>1. Init => LunaReplies!Init
  BY DEF Init, LunaReplies!Init, Op!Init
<1>2. RequestInv /\ [Next]_vars
        => [LunaReplies!Next]_[i \in Messages |-> Told(replies[i], phase[i])]
  BY RepliesStep
<1>3. RequestInv /\ [Next]_vars => RequestInv'
  BY RequestInvStep
<1> QED
  BY <1>1, <1>2, <1>3, RequestInvInit, PTL DEF Spec, LunaReplies!Safety, Told

-----------------------------------------------------------------------------
(* Subscriptions.                                                          *)

\* What the reply bodies are made from.
bodyVars == <<settings_valid, settings_enabled, adapter_enabled, present, tag_json,
              hce_event>>

SubscriptionType ==
  /\ settings_valid \in BOOLEAN /\ settings_enabled \in BOOLEAN
  /\ adapter_enabled \in BOOLEAN /\ present \in BOOLEAN
  /\ tag_json \in {None, "tag"} /\ hce_event \in {None, "ok", "lost"}
  /\ subscribed \in [Subscribers -> Methods \union {None}]
  /\ seen \in [Subscribers -> Bodies \union {None}]

SubscriptionInv == SubscriptionType /\ SubscribersUpToDate

\* What a step does to the subscriptions.
SubscriptionStep ==
  \/ UNCHANGED <<subVars, bodyVars>>
  \/ /\ UNCHANGED bodyVars
     /\ \E c \in Subscribers :
          \/ Unsubscribe(c)
          \/ \E m \in Methods : Subscribe(c, m)
  \/ /\ state_changed_cb
     /\ UNCHANGED hce_event /\ tag_json' \in {None, "tag"}
     /\ settings_valid' \in BOOLEAN /\ settings_enabled' \in BOOLEAN
     /\ adapter_enabled' \in BOOLEAN /\ present' \in BOOLEAN
  \/ /\ tag_changed_cb
     /\ UNCHANGED <<settings_valid, settings_enabled, adapter_enabled, present, hce_event>>
     /\ tag_json' \in {None, "tag"}
  \/ /\ hce_changed_cb
     /\ UNCHANGED <<settings_valid, settings_enabled, adapter_enabled, present, tag_json>>
     /\ hce_event' \in {None, "ok", "lost"}

\* Every step is one of these.
LEMMA SubscriptionSteps ==
  ASSUME SubscriptionType, inbox \in Seq(BusMessages), Next
  PROVE  SubscriptionStep
<1>0. ASSUME inbox # <<>>
      PROVE  Head(inbox).v \in BOOLEAN
  <2>1. Head(inbox) \in BusMessages
    BY <1>0, HeadTailProperties
  <2> QED
    BY <2>1 DEF BusMessages
<1>1. CASE Link
  <2>1. CASE settings_appeared \/ settings_proxy_ready \/ set_enabled_ready
    BY <2>1 DEF settings_appeared, settings_proxy_ready, set_enabled_ready, Dispatch,
       linkVars, clientVars, bodyVars, SubscriptionStep
  <2>2. CASE settings_vanished
    BY <2>2 DEF settings_vanished, Dispatch, clientVars, SubscriptionStep,
       SubscriptionType
  <2>3. CASE settings_get_all_ready \/ settings_enabled_changed
    BY <1>0, <2>3 DEF settings_get_all_ready, settings_enabled_changed, Dispatch,
       linkVars, clientVars, bodyVars, SubscriptionStep, SubscriptionType
  <2> QED
    BY <1>1, <2>1, <2>2, <2>3 DEF Link
<1>2. CASE Luna
  <2>1. ASSUME NEW i \in Messages, _service_set_enabled_cb(i)
        PROVE  UNCHANGED <<subVars, bodyVars>>
    BY <2>1 DEF _service_set_enabled_cb, linkVars, clientVars, bodyVars
  <2>2. ASSUME NEW i \in Messages, NEW j \in BOOLEAN, NEW v \in BOOLEAN, Handler(i, j, v)
        PROVE  UNCHANGED <<subVars, bodyVars>>
    BY <2>2 DEF Handler, linkVars, clientVars, bodyVars
  <2>3. ASSUME NEW i \in Messages,
               \/ _service_write_tag_cb(i)
               \/ _service_lock_tag_cb(i) \/ _service_clone_tag_cb(i)
               \/ _service_read_passport_cb(i) \/ _service_read_passport_pace_cb(i)
               \/ _service_add_card_emulation_cb(i)
               \/ _service_remove_card_emulation_cb(i)
               \/ _service_clear_card_emulation_cb(i)
        PROVE  UNCHANGED <<subVars, bodyVars>>
    BY <2>2, <2>3 DEF Writer, Other, _service_write_tag_cb,
       _service_lock_tag_cb, _service_clone_tag_cb,
       _service_read_passport_cb, _service_read_passport_pace_cb,
       _service_add_card_emulation_cb, _service_remove_card_emulation_cb,
       _service_clear_card_emulation_cb
  <2>4. ASSUME NEW c \in Subscribers, NEW m \in Methods, Subscribe(c, m)
        PROVE  SubscriptionStep
    BY <2>4 DEF Subscribe, linkVars, clientVars, bodyVars, SubscriptionStep
  <2>5. ASSUME NEW c \in Subscribers, Unsubscribe(c)
        PROVE  SubscriptionStep
    BY <2>5 DEF Unsubscribe, linkVars, clientVars, bodyVars, SubscriptionStep
  <2>6. ASSUME NEW c \in Subscribers,
               \/ _service_get_status_cb(c) \/ _service_get_tag_info_cb(c)
               \/ _service_get_card_emulation_event_cb(c)
        PROVE  SubscriptionStep
    BY <2>4, <2>6 DEF _service_get_status_cb, _service_get_tag_info_cb,
       _service_get_card_emulation_event_cb, Methods
  <2> QED
    BY <1>2, <2>1, <2>3, <2>5, <2>6 DEF Luna, SubscriptionStep
<1>3. CASE SettingsStart \/ SettingsCrash \/ Toggle \/ Serve
  BY <1>3 DEF SettingsStart, SettingsCrash, Toggle, Serve, Unheard, linkVars,
     clientVars, bodyVars, SubscriptionStep
<1>4. CASE AdapterChanged \/ NfcdCrashed
  BY <1>4 DEF AdapterChanged, NfcdCrashed, linkVars, SubscriptionStep, SubscriptionType
<1>5. CASE TagChanged
  BY <1>5 DEF TagChanged, linkVars, SubscriptionStep
<1>6. CASE HceConfirmed
  BY <1>6 DEF HceConfirmed, linkVars, SubscriptionStep
<1>7. ASSUME NEW i \in Messages, OperationDone(i)
      PROVE  SubscriptionStep
  BY <1>7 DEF OperationDone, linkVars, clientVars, bodyVars, SubscriptionStep
<1>8. CASE signal_handler \/ quit_eventloop
  BY <1>8 DEF signal_handler, quit_eventloop, linkVars, clientVars, bodyVars,
     SubscriptionStep
<1> QED
  BY <1>1, <1>2, <1>3, <1>4, <1>5, <1>6, <1>7, <1>8 DEF Next, Environment

\* The three reply bodies.
LEMMA BodyIs ==
  /\ Body("getStatus")
       = [enabled |-> IF settings_valid THEN settings_enabled ELSE adapter_enabled,
          present |-> present]
  /\ Body("getTagInfo") = [present |-> present, tag |-> tag_json]
  /\ Body("getCardEmulationEvent") = [event |-> hce_event]
BY Zenon DEF Body, build_status, build_tag_info, build_hce_event, nfcd_client_is_enabled

\* The three reply bodies after a step.
LEMMA NewBodyIs ==
  /\ NewBody("getStatus")
       = [enabled |-> IF settings_valid' THEN settings_enabled' ELSE adapter_enabled',
          present |-> present']
  /\ NewBody("getTagInfo") = [present |-> present', tag |-> tag_json']
  /\ NewBody("getCardEmulationEvent") = [event |-> hce_event']
BY Zenon DEF NewBody, build_status, build_tag_info, build_hce_event, nfcd_client_is_enabled

\* NewBody() is Body() after the step.
LEMMA BodyPrimed == ASSUME NEW m PROVE Body(m)' = NewBody(m)
BY Zenon DEF Body, NewBody

\* The reply bodies are well typed.
LEMMA BodyType ==
  ASSUME SubscriptionType, NEW m \in Methods
  PROVE  Body(m) \in Bodies
BY BodyIs DEF SubscriptionType, Bodies, Methods

\* The reply bodies are well typed after the step.
LEMMA NewBodyType ==
  ASSUME NEW m \in Methods,
         settings_valid' \in BOOLEAN, settings_enabled' \in BOOLEAN,
         adapter_enabled' \in BOOLEAN, present' \in BOOLEAN,
         tag_json' \in {None, "tag"}, hce_event' \in {None, "ok", "lost"}
  PROVE  NewBody(m) \in Bodies
BY NewBodyIs DEF Bodies, Methods

\* A reply body stays what it was when what it tells stays.
LEMMA BodyUnchanged ==
  /\ UNCHANGED <<settings_valid, settings_enabled, adapter_enabled, present>>
       => NewBody("getStatus") = Body("getStatus")
  /\ UNCHANGED <<present, tag_json>> => NewBody("getTagInfo") = Body("getTagInfo")
  /\ UNCHANGED hce_event
       => NewBody("getCardEmulationEvent") = Body("getCardEmulationEvent")
BY BodyIs, NewBodyIs

\* After Post() the subscribers to the methods, and those to a method whose
\* reply has not changed, have seen the state as it is.
LEMMA PostInv ==
  ASSUME SubscriptionInv, NEW S \in SUBSET Methods, Post(S),
         settings_valid' \in BOOLEAN, settings_enabled' \in BOOLEAN,
         adapter_enabled' \in BOOLEAN, present' \in BOOLEAN,
         tag_json' \in {None, "tag"}, hce_event' \in {None, "ok", "lost"},
         \A m \in Methods \ S : NewBody(m) = Body(m)
  PROVE  SubscriptionInv'
<1>1. subscribed' = subscribed /\ subscribed \in [Subscribers -> Methods \union {None}]
  BY DEF Post, SubscriptionInv, SubscriptionType
<1>2. \A m \in S : NewBody(m) \in Bodies
  BY NewBodyType
<1>3. seen' \in [Subscribers -> Bodies \union {None}]
  BY <1>2 DEF Post, SubscriptionInv, SubscriptionType
<1>4. ASSUME NEW c \in Subscribers, subscribed'[c] # None
      PROVE  seen'[c] = Body(subscribed[c])'
  <2>1. subscribed[c] \in Methods
    BY <1>1, <1>4
  <2>2. seen'[c] = NewBody(subscribed[c])
    BY <1>1, <1>4, <2>1 DEF Post, SubscriptionInv, SubscribersUpToDate
  <2> QED
    BY <1>1, <2>2, BodyPrimed
<1> QED
  BY <1>1, <1>3, <1>4 DEF SubscriptionInv, SubscriptionType, SubscribersUpToDate

\* The subscription invariant is inductive: what changes a body posts it.
LEMMA SubscriptionInvStep ==
  ASSUME SubscriptionInv, inbox \in Seq(BusMessages), [Next]_vars
  PROVE  SubscriptionInv'
<1>1. CASE UNCHANGED <<subVars, bodyVars>>
  BY <1>1, BodyPrimed, BodyUnchanged DEF SubscriptionInv, SubscriptionType, subVars,
     bodyVars, SubscribersUpToDate, Methods
<1>2. ASSUME NEW c \in Subscribers, UNCHANGED bodyVars, Unsubscribe(c)
      PROVE  SubscriptionInv'
  <2>1. \A m \in Methods : Body(m)' = Body(m)
    BY <1>2, BodyPrimed, BodyUnchanged DEF bodyVars, Methods
  <2>2. SubscriptionType'
    BY <1>2 DEF Unsubscribe, bodyVars, SubscriptionInv, SubscriptionType
  <2>3. SubscribersUpToDate'
    BY <1>2, <2>1 DEF Unsubscribe, SubscriptionInv, SubscriptionType, SubscribersUpToDate
  <2> QED
    BY <2>2, <2>3 DEF SubscriptionInv
<1>3. ASSUME NEW c \in Subscribers, NEW m \in Methods, UNCHANGED bodyVars,
             Subscribe(c, m)
      PROVE  SubscriptionInv'
  <2>1. \A n \in Methods : Body(n)' = Body(n)
    BY <1>3, BodyPrimed, BodyUnchanged DEF bodyVars, Methods
  <2>2. Body(m) \in Bodies
    BY BodyType DEF SubscriptionInv
  <2>3. SubscriptionType'
    BY <1>3, <2>2 DEF Subscribe, bodyVars, SubscriptionInv, SubscriptionType
  <2>4. SubscribersUpToDate'
    BY <1>3, <2>1 DEF Subscribe, SubscriptionInv, SubscriptionType, SubscribersUpToDate
  <2> QED
    BY <2>3, <2>4 DEF SubscriptionInv
<1>4. CASE /\ state_changed_cb
           /\ UNCHANGED hce_event /\ tag_json' \in {None, "tag"}
           /\ settings_valid' \in BOOLEAN /\ settings_enabled' \in BOOLEAN
           /\ adapter_enabled' \in BOOLEAN /\ present' \in BOOLEAN
  BY <1>4, PostInv, BodyUnchanged DEF state_changed_cb, SubscriptionInv,
     SubscriptionType, Methods
<1>5. CASE /\ tag_changed_cb
           /\ UNCHANGED <<settings_valid, settings_enabled, adapter_enabled, present,
                          hce_event>>
           /\ tag_json' \in {None, "tag"}
  BY <1>5, PostInv, BodyUnchanged DEF tag_changed_cb, SubscriptionInv,
     SubscriptionType, Methods
<1>6. CASE /\ hce_changed_cb
           /\ UNCHANGED <<settings_valid, settings_enabled, adapter_enabled, present,
                          tag_json>>
           /\ hce_event' \in {None, "ok", "lost"}
  BY <1>6, PostInv, BodyUnchanged DEF hce_changed_cb, SubscriptionInv,
     SubscriptionType, Methods
<1>7. CASE UNCHANGED vars
  BY <1>1, <1>7 DEF vars, bodyVars, subVars, linkVars, clientVars
<1> QED
  BY <1>1, <1>2, <1>3, <1>4, <1>5, <1>6, <1>7, SubscriptionSteps
     DEF SubscriptionStep, SubscriptionInv

-----------------------------------------------------------------------------
(* The link to the settings service.                                       *)

BusType ==
  /\ sup \in BOOLEAN /\ stored \in BOOLEAN /\ events \in 0..MaxEvents
  /\ reqs \in Seq(BusCalls) /\ inbox \in Seq(BusMessages)
  /\ settings \in BOOLEAN /\ changes \in 0..MaxChanges
  /\ loop \in {"running", "terminating", "stopped"}

\* A message that sets settings_enabled when it is dispatched.
IsSetter(m) == m.t = "enabled_changed" \/ (m.t = "get_all" /\ m.ok)

\* Of a queue s: a message of type t is in it;
Holds(s, t) == \E k \in 1..Len(s) : s[k].t = t

\* none sets, or the last that does sets to v;
NoSetter(s) == \A k \in 1..Len(s) : ~IsSetter(s[k])
LastSetter(s, v) ==
  \E k \in 1..Len(s) :
    /\ IsSetter(s[k]) /\ s[k].v = v
    /\ \A j \in k + 1..Len(s) : ~IsSetter(s[j])

\* all that set come before the end of the service is told;
Outlived(s) ==
  \A k \in 1..Len(s) : IsSetter(s[k]) =>
    \E j \in k + 1..Len(s) : s[j].t = "vanished"

\* every end of the service is followed by a new start.
Reannounced(s) ==
  \A k \in 1..Len(s) : s[k].t = "vanished" =>
    \E j \in k + 1..Len(s) : s[j].t = "appeared"

\* The client is on its way to a new proxy, or to the answer of a GetAll.
Reconnecting == Holds(inbox, "appeared") \/ Holds(inbox, "proxy") \/ Holds(reqs, "proxy")
Refreshing == Reconnecting \/ Holds(reqs, "get_all")

\* While the service is down, whatever could make the client think that it has
\* the setting comes before the news of the end.
DownTold == Outlived(inbox) /\ (settings_valid => Holds(inbox, "vanished"))

\* While it is up, the client has a proxy or is on its way to one, and it has
\* the setting, or the last message that sets brings it, or a GetAll will.
UpTold ==
  /\ Reannounced(inbox)
  /\ ~Reconnecting => settings
  /\ ~Refreshing =>
       \/ LastSetter(inbox, stored)
       \/ NoSetter(inbox) /\ settings_valid /\ settings_enabled = stored

SettingInv == IF sup THEN UpTold ELSE DownTold

\* A call in the queue.
LEMMA PutCall ==
  ASSUME NEW s \in Seq(BusCalls), NEW q \in BusCalls
  PROVE  \A t : Holds(Append(s, q), t) <=> Holds(s, t) \/ q.t = t
<1> DEFINE a == Append(s, q)
<1>1. /\ Len(s) \in Nat /\ Len(a) = Len(s) + 1 /\ a[Len(s) + 1] = q
      /\ \A k \in 1..Len(s) : a[k] = s[k]
  BY Appended, LenProperties
<1> HIDE DEF a
<1>2. \A t : Holds(a, t) <=> Holds(s, t) \/ q.t = t
  BY <1>1 DEF Holds
<1> QED
  BY <1>2 DEF a

\* A message that neither sets nor says that the service is gone.
LEMMA PutQuiet ==
  ASSUME NEW s \in Seq(BusMessages), NEW m \in BusMessages,
         ~IsSetter(m), m.t # "vanished"
  PROVE  /\ \A t : Holds(Append(s, m), t) <=> Holds(s, t) \/ m.t = t
         /\ NoSetter(s) => NoSetter(Append(s, m))
         /\ \A v : LastSetter(s, v) => LastSetter(Append(s, m), v)
         /\ Outlived(s) => Outlived(Append(s, m))
         /\ Reannounced(s) => Reannounced(Append(s, m))
<1> DEFINE a == Append(s, m)
<1>1. /\ Len(s) \in Nat /\ Len(a) = Len(s) + 1 /\ a[Len(s) + 1] = m
      /\ \A k \in 1..Len(s) : a[k] = s[k]
  BY Appended, LenProperties
<1> HIDE DEF a
<1>2. \A t : Holds(a, t) <=> Holds(s, t) \/ m.t = t
  BY <1>1 DEF Holds
<1>3. NoSetter(s) => NoSetter(a)
  BY <1>1 DEF NoSetter
<1>4. ASSUME NEW v, LastSetter(s, v)
      PROVE  LastSetter(a, v)
  BY <1>1, <1>4 DEF LastSetter
<1>5. Outlived(s) => Outlived(a)
  BY <1>1 DEF Outlived
<1>6. Reannounced(s) => Reannounced(a)
  BY <1>1 DEF Reannounced
<1> QED
  BY <1>2, <1>3, <1>4, <1>5, <1>6 DEF a

\* A message that sets.
LEMMA PutSetter ==
  ASSUME NEW s \in Seq(BusMessages), NEW m \in BusMessages, IsSetter(m)
  PROVE  /\ \A t : Holds(Append(s, m), t) <=> Holds(s, t) \/ m.t = t
         /\ LastSetter(Append(s, m), m.v)
         /\ Reannounced(s) => Reannounced(Append(s, m))
<1> DEFINE a == Append(s, m)
<1>1. /\ Len(s) \in Nat /\ Len(a) = Len(s) + 1 /\ a[Len(s) + 1] = m
      /\ \A k \in 1..Len(s) : a[k] = s[k]
  BY Appended, LenProperties
<1> HIDE DEF a
<1>2. \A t : Holds(a, t) <=> Holds(s, t) \/ m.t = t
  BY <1>1 DEF Holds
<1>3. LastSetter(a, m.v)
  <2>1. Len(s) + 1 \in 1..Len(a) /\ Len(s) + 1 + 1..Len(a) = {}
    BY <1>1
  <2> QED
    BY <1>1, <2>1 DEF LastSetter
<1>4. Reannounced(s) => Reannounced(a)
  BY <1>1 DEF Reannounced, IsSetter
<1> QED
  BY <1>2, <1>3, <1>4 DEF a

\* The message at the head is taken.
LEMMA TakeHead ==
  ASSUME NEW S, NEW s \in Seq(S), s # <<>>
  PROVE  /\ \A t : Holds(s, t) <=> (Head(s).t = t \/ Holds(Tail(s), t))
         /\ NoSetter(s) => NoSetter(Tail(s)) /\ ~IsSetter(Head(s))
         /\ \A v : LastSetter(s, v) =>
              \/ LastSetter(Tail(s), v)
              \/ IsSetter(Head(s)) /\ Head(s).v = v /\ NoSetter(Tail(s))
         /\ Outlived(s) =>
              /\ Outlived(Tail(s))
              /\ IsSetter(Head(s)) => Holds(Tail(s), "vanished")
         /\ Reannounced(s) =>
              /\ Reannounced(Tail(s))
              /\ Head(s).t = "vanished" => Holds(Tail(s), "appeared")
<1> DEFINE r == Tail(s)
           h == Head(s)
<1>1. /\ h = s[1] /\ Len(s) \in Nat \ {0} /\ Len(r) = Len(s) - 1
      /\ \A k \in 1..Len(s) - 1 : r[k] = s[k + 1]
  BY Taken
<1> HIDE DEF r, h
<1>2. \A k \in 1..Len(s) : k = 1 \/ (k - 1 \in 1..Len(r) /\ s[k] = r[k - 1])
  BY <1>1
<1>3. \A k \in 1..Len(r) : k + 1 \in 1..Len(s) /\ s[k + 1] = r[k]
  BY <1>1
<1>4. 1 \in 1..Len(s) /\ s[1] = h
  BY <1>1
<1>5. ASSUME NEW t
      PROVE  Holds(s, t) <=> (h.t = t \/ Holds(r, t))
  <2>1. ASSUME Holds(s, t) PROVE h.t = t \/ Holds(r, t)
    BY <1>1, <1>2, <2>1 DEF Holds
  <2>2. ASSUME h.t = t \/ Holds(r, t) PROVE Holds(s, t)
    BY <1>3, <1>4, <2>2 DEF Holds
  <2> QED
    BY <2>1, <2>2
<1>6. NoSetter(s) => NoSetter(r) /\ ~IsSetter(h)
  BY <1>3, <1>4 DEF NoSetter
<1>7. ASSUME NEW v, LastSetter(s, v)
      PROVE  LastSetter(r, v) \/ (IsSetter(h) /\ h.v = v /\ NoSetter(r))
  <2>1. PICK k \in 1..Len(s) : /\ IsSetter(s[k]) /\ s[k].v = v
                               /\ \A j \in k + 1..Len(s) : ~IsSetter(s[j])
    BY <1>7 DEF LastSetter
  <2>2. CASE k = 1
    BY <1>1, <1>3, <2>1, <2>2 DEF NoSetter
  <2>3. CASE k # 1
    <3>1. k - 1 \in 1..Len(r) /\ s[k] = r[k - 1]
      BY <1>2, <2>3
    <3>2. \A j \in k..Len(r) : ~IsSetter(r[j])
      BY <1>1, <1>3, <2>1, <2>3
    <3> QED
      BY <1>1, <2>1, <3>1, <3>2 DEF LastSetter
  <2> QED
    BY <2>2, <2>3
<1>8. ASSUME Outlived(s)
      PROVE  Outlived(r) /\ (IsSetter(h) => Holds(r, "vanished"))
  <2>1. ASSUME NEW k \in 1..Len(r), IsSetter(r[k])
        PROVE  \E j \in k + 1..Len(r) : r[j].t = "vanished"
    <3>1. PICK j \in k + 1 + 1..Len(s) : s[j].t = "vanished"
      BY <1>3, <1>8, <2>1 DEF Outlived
    <3>2. j - 1 \in k + 1..Len(r) /\ r[j - 1] = s[j]
      BY <1>1, <3>1
    <3> QED
      BY <3>1, <3>2
  <2>2. ASSUME IsSetter(h)
        PROVE  Holds(r, "vanished")
    <3>1. PICK j \in 1 + 1..Len(s) : s[j].t = "vanished"
      BY <1>4, <1>8, <2>2 DEF Outlived
    <3>2. j - 1 \in 1..Len(r) /\ r[j - 1] = s[j]
      BY <1>1, <3>1
    <3> QED
      BY <3>1, <3>2 DEF Holds
  <2> QED
    BY <2>1, <2>2 DEF Outlived
<1>9. ASSUME Reannounced(s)
       PROVE  Reannounced(r) /\ (h.t = "vanished" => Holds(r, "appeared"))
  <2>1. ASSUME NEW k \in 1..Len(r), r[k].t = "vanished"
        PROVE  \E j \in k + 1..Len(r) : r[j].t = "appeared"
    <3>1. PICK j \in k + 1 + 1..Len(s) : s[j].t = "appeared"
      BY <1>3, <1>9, <2>1 DEF Reannounced
    <3>2. j - 1 \in k + 1..Len(r) /\ r[j - 1] = s[j]
      BY <1>1, <3>1
    <3> QED
      BY <3>1, <3>2
  <2>2. ASSUME h.t = "vanished"
        PROVE  Holds(r, "appeared")
    <3>1. PICK j \in 1 + 1..Len(s) : s[j].t = "appeared"
      BY <1>4, <1>9, <2>2 DEF Reannounced
    <3>2. j - 1 \in 1..Len(r) /\ r[j - 1] = s[j]
      BY <1>1, <3>1
    <3> QED
      BY <3>1, <3>2 DEF Holds
  <2> QED
    BY <2>1, <2>2 DEF Reannounced
<1> QED
  BY <1>5, <1>6, <1>7, <1>8, <1>9 DEF r, h

\* A crash is told, and after it only that the calls have failed.
LEMMA CrashInbox ==
  ASSUME BusType, SettingsCrash
  PROVE  /\ inbox' \in Seq(BusMessages)
         /\ Len(inbox) \in Nat /\ Len(reqs) \in Nat
         /\ Len(inbox') = Len(inbox) + 1 + Len(reqs)
         /\ inbox'[Len(inbox) + 1].t = "vanished"
         /\ \A k \in Len(inbox) + 2..Len(inbox') : ~IsSetter(inbox'[k])
<1> DEFINE f == [k \in DOMAIN reqs |-> Msg(reqs[k].t, reqs[k].id, FALSE, FALSE)]
<1>1. PICK m \in BusMessages : m.t = "vanished" /\ m = Msg("vanished", None, FALSE, TRUE)
  BY DEF Msg, BusMessages
<1>2. Len(reqs) \in Nat /\ DOMAIN reqs = 1..Len(reqs)
  BY LenProperties DEF BusType
<1>3. ASSUME NEW k \in 1..Len(reqs)
      PROVE  f[k] \in BusMessages /\ ~IsSetter(f[k])
  <2>1. reqs[k] \in BusCalls
    BY ElementOfSeq DEF BusType
  <2> QED
    BY <1>2, <2>1 DEF BusCalls, BusMessages, Msg, IsSetter
<1>4. f \in [1..Len(reqs) -> BusMessages]
  BY <1>2, <1>3
<1>5. inbox' = Append(inbox, m) \o f
  BY <1>1 DEF SettingsCrash
<1> HIDE DEF f
<1>6. /\ inbox' \in Seq(BusMessages) /\ Len(inbox) \in Nat
      /\ Len(inbox') = Len(inbox) + 1 + Len(reqs)
      /\ inbox'[Len(inbox) + 1] = m
      /\ \A k \in 1..Len(reqs) : inbox'[Len(inbox) + 1 + k] = f[k]
  <2>1. inbox \in Seq(BusMessages) /\ m \in BusMessages
    BY <1>1 DEF BusType
  <2> DEFINE b == Append(inbox, m) \o f
  <2>2. /\ b \in Seq(BusMessages) /\ Len(inbox) \in Nat
        /\ Len(b) = Len(inbox) + 1 + Len(reqs)
        /\ b[Len(inbox) + 1] = m
        /\ \A k \in 1..Len(reqs) : b[Len(inbox) + 1 + k] = f[k]
    BY <1>2, <1>4, <2>1, CrashQueue, SMTT(20)
  <2> QED
    BY <1>5, <2>2
<1>7. ASSUME NEW k \in Len(inbox) + 2..Len(inbox')
      PROVE  ~IsSetter(inbox'[k])
  <2>1. PICK n \in 1..Len(reqs) : k = Len(inbox) + 1 + n
    <3>1. k - (Len(inbox) + 1) \in 1..Len(reqs)
      BY <1>2, <1>6
    <3>2. k = Len(inbox) + 1 + (k - (Len(inbox) + 1))
      BY <1>6
    <3> QED
      BY <3>1, <3>2
  <2> QED
    BY <1>3, <1>6, <2>1
<1> QED
  BY <1>1, <1>2, <1>6, <1>7

\* A step that leaves the settings service, the link to it and the bus alone,
\* but for a SetEnabled call that it may make.
OffTheBus ==
  /\ UNCHANGED <<sup, stored, inbox, linkVars>>
  /\ events' \in 0..MaxEvents /\ changes' \in 0..MaxChanges
  /\ loop' \in {"running", "terminating", "stopped"}
  /\ \/ UNCHANGED reqs
     \/ \E q \in BusCalls : q.t = "set_enabled" /\ reqs' = Append(reqs, q)

\* Every step is one of these.
LEMMA BusSteps ==
  ASSUME BusType, Next
  PROVE  OffTheBus \/ SettingsStart \/ SettingsCrash \/ Toggle \/ Serve \/ Link
<1>1. CASE Luna
  <2>1. ASSUME NEW i \in Messages, _service_set_enabled_cb(i)
        PROVE  OffTheBus
    <3>1. ASSUME NEW v \in BOOLEAN
          PROVE  /\ Req("set_enabled", i, v) \in BusCalls
                 /\ Req("set_enabled", i, v).t = "set_enabled"
      BY DEF Req, BusCalls
    <3>2. UNCHANGED reqs \/ \E v \in BOOLEAN : reqs' = Append(reqs, Req("set_enabled", i, v))
      BY <2>1 DEF _service_set_enabled_cb, nfcd_client_set_enabled, Call
    <3> QED
      BY <2>1, <3>1, <3>2 DEF _service_set_enabled_cb, OffTheBus, BusType, settingsVars,
         clientVars
  <2>2. ASSUME NEW i \in Messages, NEW j \in BOOLEAN, NEW v \in BOOLEAN, Handler(i, j, v)
        PROVE  OffTheBus
    BY <2>2 DEF Handler, OffTheBus, BusType, settingsVars, clientVars
  <2>3. ASSUME NEW i \in Messages,
               \/ _service_write_tag_cb(i)
               \/ _service_lock_tag_cb(i) \/ _service_clone_tag_cb(i)
               \/ _service_read_passport_cb(i) \/ _service_read_passport_pace_cb(i)
               \/ _service_add_card_emulation_cb(i)
               \/ _service_remove_card_emulation_cb(i)
               \/ _service_clear_card_emulation_cb(i)
        PROVE  OffTheBus
    BY <2>2, <2>3 DEF Writer, Other, _service_write_tag_cb,
       _service_lock_tag_cb, _service_clone_tag_cb,
       _service_read_passport_cb, _service_read_passport_pace_cb,
       _service_add_card_emulation_cb, _service_remove_card_emulation_cb,
       _service_clear_card_emulation_cb
  <2>4. ASSUME NEW c \in Subscribers,
               \/ _service_get_status_cb(c) \/ _service_get_tag_info_cb(c)
               \/ _service_get_card_emulation_event_cb(c) \/ Unsubscribe(c)
        PROVE  OffTheBus
    BY <2>4 DEF _service_get_status_cb, _service_get_tag_info_cb,
       _service_get_card_emulation_event_cb, Unsubscribe, Subscribe, OffTheBus,
       BusType, settingsVars, clientVars
  <2> QED
    BY <1>1, <2>1, <2>3, <2>4 DEF Luna
<1>2. CASE AdapterChanged \/ NfcdCrashed \/ TagChanged \/ HceConfirmed
  BY <1>2, ServiceAssumption DEF AdapterChanged, NfcdCrashed, TagChanged, HceConfirmed, Change,
     OffTheBus, BusType, settingsVars
<1>3. CASE signal_handler \/ quit_eventloop \/ \E i \in Messages : OperationDone(i)
  BY <1>3 DEF signal_handler, quit_eventloop, OperationDone, OffTheBus, BusType,
     settingsVars, clientVars
<1> QED
  BY <1>1, <1>2, <1>3 DEF Next, Environment

\* The queues of the bus carry calls and messages.
LEMMA ServeType ==
  ASSUME BusType, Serve
  PROVE  /\ inbox' \in Seq(BusMessages) /\ reqs' \in Seq(BusCalls)
         /\ stored' \in BOOLEAN
<1> DEFINE q == Head(reqs)
<1>1. q \in BusCalls /\ reqs' \in Seq(BusCalls)
  BY Taken DEF Serve, BusType
<1>2. /\ q.t \in {"proxy", "get_all", "set_enabled"}
      /\ q.id \in Messages \union {None} /\ q.v \in BOOLEAN
  BY <1>1 DEF BusCalls
<1>3. /\ \A v, ok \in BOOLEAN : Msg(q.t, q.id, v, ok) \in BusMessages
      /\ Msg("enabled_changed", None, q.v, TRUE) \in BusMessages
  BY <1>2 DEF Msg, BusMessages
<1>4. Append(inbox, Msg("enabled_changed", None, q.v, TRUE)) \in Seq(BusMessages)
  BY <1>3, Appended DEF BusType
<1>5. inbox' \in Seq(BusMessages)
  <2>1. PICK b \in {inbox, Append(inbox, Msg("enabled_changed", None, q.v, TRUE))},
             v \in BOOLEAN, ok \in BOOLEAN : inbox' = Append(b, Msg(q.t, q.id, v, ok))
    BY <1>2 DEF BusType, Serve
  <2>2. inbox \in Seq(BusMessages)
    BY DEF BusType
  <2>3. b \in Seq(BusMessages) /\ Msg(q.t, q.id, v, ok) \in BusMessages
    BY <1>3, <1>4, <2>1, <2>2
  <2> HIDE DEF q
  <2> QED
    BY <2>1, <2>3, Appended
<1>6. stored' \in BOOLEAN
  BY <1>2 DEF BusType, Serve
<1> QED
  BY <1>1, <1>5, <1>6

\* The bus stays well typed.
LEMMA BusTypeStep ==
  ASSUME BusType, [Next]_vars
  PROVE  BusType'
<1>1. CASE OffTheBus
  BY <1>1, Appended DEF OffTheBus, BusType, linkVars
<1>0. ASSUME Event
      PROVE  events' \in 0..MaxEvents
  BY <1>0, ServiceAssumption DEF Event, BusType
<1>2. CASE SettingsStart \/ Toggle
  <2>1. \E m \in BusMessages : inbox' = Append(inbox, m)
    <3>1. /\ Msg("appeared", None, FALSE, TRUE) \in BusMessages
          /\ Msg("enabled_changed", None, ~stored, TRUE) \in BusMessages
      BY DEF Msg, BusMessages
    <3> QED
      BY <1>2, <3>1 DEF SettingsStart, Toggle
  <2>2. inbox' \in Seq(BusMessages)
    BY <2>1, Appended DEF BusType
  <2>3. sup' \in BOOLEAN /\ stored' \in BOOLEAN /\ events' \in 0..MaxEvents
    BY <1>0, <1>2 DEF SettingsStart, Toggle, BusType
  <2> QED
    BY <1>2, <2>2, <2>3 DEF SettingsStart, Toggle, Unheard, linkVars, clientVars, BusType
<1>3. CASE SettingsCrash
  <2>1. inbox' \in Seq(BusMessages) /\ events' \in 0..MaxEvents
    BY <1>0, <1>3, CrashInbox DEF SettingsCrash
  <2>2. reqs' \in Seq(BusCalls)
    BY <1>3, EmptySeq DEF SettingsCrash
  <2> QED
    BY <1>3, <2>1, <2>2 DEF SettingsCrash, Unheard, linkVars, clientVars, BusType
<1>4. CASE Serve
  BY <1>4, ServeType DEF Serve, Unheard, linkVars, clientVars, BusType
<1>5. CASE Link
  <2>1. \E t : Dispatch(t)
    BY <1>5 DEF Link, settings_appeared, settings_vanished, settings_proxy_ready,
       settings_get_all_ready, settings_enabled_changed, set_enabled_ready
  <2>2. inbox' \in Seq(BusMessages)
    BY <2>1, Taken DEF Dispatch, BusType
  <2>3. Req("proxy", None, FALSE) \in BusCalls /\ Req("get_all", None, FALSE) \in BusCalls
    BY DEF Req, BusCalls
  <2>4. reqs' \in Seq(BusCalls)
    <3>1. \/ reqs' = reqs \/ reqs' = Append(reqs, Req("proxy", None, FALSE))
          \/ reqs' = Append(reqs, Req("get_all", None, FALSE))
      BY <1>5 DEF Link, settings_appeared, settings_vanished, settings_proxy_ready,
         settings_get_all_ready, settings_enabled_changed, set_enabled_ready, Call
    <3>2. reqs \in Seq(BusCalls)
      BY DEF BusType
    <3>3. /\ Append(reqs, Req("proxy", None, FALSE)) \in Seq(BusCalls)
          /\ Append(reqs, Req("get_all", None, FALSE)) \in Seq(BusCalls)
      BY <2>3, <3>2, Appended
    <3> QED
      BY <3>1, <3>2, <3>3
  <2>5. settings' \in BOOLEAN
    BY <1>5 DEF Link, settings_appeared, settings_vanished, settings_proxy_ready,
       settings_get_all_ready, settings_enabled_changed, set_enabled_ready, linkVars,
       BusType
  <2> QED
    BY <2>1, <2>2, <2>4, <2>5 DEF Dispatch, BusType, settingsVars, clientVars
<1>6. CASE UNCHANGED vars
  BY <1>6 DEF vars, settingsVars, linkVars, clientVars, BusType
<1> QED
  BY <1>1, <1>2, <1>3, <1>4, <1>5, <1>6, BusSteps

\* A SetEnabled call does not matter before it is served.
LEMMA OffTheBusSetting ==
  ASSUME BusType, SettingInv, OffTheBus
  PROVE  SettingInv'
<1>1. \A t \in {"proxy", "get_all"} : Holds(reqs, t)' <=> Holds(reqs, t)
  <2>1. CASE UNCHANGED reqs
    BY <2>1 DEF Holds
  <2>2. ASSUME NEW q \in BusCalls, q.t = "set_enabled", reqs' = Append(reqs, q)
        PROVE  \A t \in {"proxy", "get_all"} : Holds(reqs, t)' <=> Holds(reqs, t)
    BY <2>2, PutCall DEF BusType
  <2> QED
    BY <2>1, <2>2 DEF OffTheBus
<1> QED
  BY <1>1 DEF OffTheBus, linkVars, SettingInv, UpTold, DownTold, Reconnecting, Refreshing

\* A start is told last.
LEMMA StartSetting ==
  ASSUME BusType, SettingInv, SettingsStart
  PROVE  SettingInv'
<1>1. PICK m \in BusMessages : m.t = "appeared" /\ inbox' = Append(inbox, m)
  BY DEF Msg, BusMessages, SettingsStart
<1>2. /\ Len(inbox) \in Nat /\ Len(inbox') = Len(inbox) + 1
      /\ inbox'[Len(inbox) + 1] = m
      /\ \A k \in 1..Len(inbox) : inbox'[k] = inbox[k]
  BY <1>1, Appended, LenProperties DEF BusType
<1>3. Reannounced(inbox)' /\ Holds(inbox, "appeared")'
  BY <1>1, <1>2 DEF Reannounced, Holds
<1> QED
  BY <1>3 DEF SettingInv, SettingsStart, UpTold, Reconnecting, Refreshing

\* A crash is told last but for failed calls.
LEMMA CrashSetting ==
  ASSUME BusType, SettingInv, SettingsCrash
  PROVE  SettingInv'
<1>1. /\ Len(inbox) \in Nat /\ Len(reqs) \in Nat
      /\ Len(inbox') = Len(inbox) + 1 + Len(reqs)
      /\ inbox'[Len(inbox) + 1].t = "vanished"
      /\ \A k \in Len(inbox) + 2..Len(inbox') : ~IsSetter(inbox'[k])
  BY CrashInbox, LenProperties DEF BusType
<1>2. ~IsSetter(inbox'[Len(inbox) + 1])
  BY <1>1 DEF IsSetter
<1>3. Holds(inbox, "vanished")'
  <2>1. Len(inbox) + 1 \in 1..Len(inbox')
    BY <1>1
  <2> QED
    BY <1>1, <2>1 DEF Holds
<1>4. Outlived(inbox)'
  <2>1. ASSUME NEW k \in 1..Len(inbox'), IsSetter(inbox'[k])
        PROVE  \E j \in k + 1..Len(inbox') : inbox'[j].t = "vanished"
    <3>1. Len(inbox) + 1 \in k + 1..Len(inbox')
      BY <1>1, <1>2, <2>1
    <3> QED
      BY <1>1, <3>1
  <2> QED
    BY <2>1 DEF Outlived
<1> QED
  BY <1>3, <1>4 DEF SettingInv, SettingsCrash, DownTold

\* A change of the setting is told last.
LEMMA ToggleSetting ==
  ASSUME BusType, SettingInv, Toggle
  PROVE  SettingInv'
<1>1. PICK m \in BusMessages : /\ IsSetter(m) /\ m.v = stored' /\ m.t = "enabled_changed"
                               /\ inbox' = Append(inbox, m)
  <2>1. (~stored) \in BOOLEAN
    OBVIOUS
  <2> QED
    BY <2>1 DEF Msg, BusMessages, IsSetter, Toggle
<1>2. /\ LastSetter(inbox, stored)'
      /\ Reannounced(inbox) => Reannounced(inbox)'
      /\ \A t : Holds(inbox, t) => Holds(inbox, t)'
  BY <1>1, PutSetter DEF BusType
<1>3. sup /\ sup' /\ UpTold /\ reqs' = reqs /\ settings' = settings
  BY DEF SettingInv, Toggle, Unheard, linkVars
<1>4. UpTold'
  BY <1>2, <1>3 DEF UpTold, Reconnecting
<1> QED
  BY <1>3, <1>4 DEF SettingInv

\* A GetAll brings the setting, a SetEnabled that changes it is told last.
LEMMA ServeSetting ==
  ASSUME BusType, SettingInv, Serve
  PROVE  SettingInv'
<1> DEFINE q == Head(reqs)
<1>1. q \in BusCalls /\ \A t : Holds(reqs, t) <=> (q.t = t \/ Holds(reqs, t)')
  BY Taken, TakeHead DEF Serve, BusType
<1>2. /\ q.t \in {"proxy", "get_all", "set_enabled"}
      /\ q.id \in Messages \union {None} /\ q.v \in BOOLEAN
  BY <1>1 DEF BusCalls
<1>3. UNCHANGED <<sup, settings, settings_valid, settings_enabled>>
  BY DEF Serve, Unheard, linkVars
<1>4. inbox \in Seq(BusMessages) /\ sup \in BOOLEAN /\ stored \in BOOLEAN
  BY DEF BusType
<1>5. ASSUME NEW m \in BusMessages, ~IsSetter(m), m.t \in {"proxy", "set_enabled"},
             inbox' = Append(inbox, m), q.t = m.t, stored' = stored
      PROVE  SettingInv'
  <2>1. /\ \A t : Holds(inbox, t)' <=> Holds(inbox, t) \/ m.t = t
        /\ NoSetter(inbox) => NoSetter(inbox)'
        /\ \A v : LastSetter(inbox, v) => LastSetter(inbox', v)
        /\ Outlived(inbox) => Outlived(inbox)'
        /\ Reannounced(inbox) => Reannounced(inbox)'
    BY <1>4, <1>5, PutQuiet
  <2>2. CASE sup
    <3>1. Reconnecting' <=> Reconnecting \/ m.t = "proxy"
      BY <1>1, <1>5, <2>1 DEF Reconnecting
    <3> QED
      BY <1>1, <1>3, <1>5, <2>1, <2>2, <3>1 DEF SettingInv, UpTold, Refreshing
  <2>3. CASE ~sup
    BY <1>3, <2>1, <2>3 DEF SettingInv, DownTold
  <2> QED
    BY <2>2, <2>3
<1>6. CASE q.t = "proxy"
  <2>1. PICK m \in BusMessages : /\ ~IsSetter(m) /\ m.t = "proxy"
                                 /\ inbox' = Append(inbox, m) /\ stored' = stored
    BY <1>2, <1>6 DEF Msg, BusMessages, IsSetter, Serve
  <2> QED
    BY <1>5, <1>6, <2>1
<1>7. CASE q.t = "get_all"
  <2>1. PICK m \in BusMessages : /\ m.t = "get_all" /\ m.ok = sup /\ m.v = stored
                                 /\ inbox' = Append(inbox, m) /\ stored' = stored
    BY <1>2, <1>4, <1>7 DEF Msg, BusMessages, Serve
  <2>2. CASE sup
    <3>1. IsSetter(m)
      BY <2>1, <2>2 DEF IsSetter
    <3>2. /\ \A t : Holds(inbox, t)' <=> Holds(inbox, t) \/ m.t = t
          /\ LastSetter(inbox, stored)'
          /\ Reannounced(inbox) => Reannounced(inbox)'
      BY <1>4, <2>1, <3>1, PutSetter
    <3>3. Reconnecting' <=> Reconnecting
      BY <1>1, <1>7, <2>1, <3>2 DEF Reconnecting
    <3> QED
      BY <1>3, <2>2, <3>2, <3>3 DEF SettingInv, UpTold
  <2>3. CASE ~sup
    <3>1. ~IsSetter(m)
      BY <2>1, <2>3 DEF IsSetter
    <3>2. Outlived(inbox) => Outlived(inbox)'
      BY <1>4, <2>1, <3>1, PutQuiet
    <3>3. Holds(inbox, "vanished") => Holds(inbox, "vanished")'
      BY <1>4, <2>1, <3>1, PutQuiet
    <3> QED
      BY <1>3, <2>3, <3>2, <3>3 DEF SettingInv, DownTold
  <2> QED
    BY <2>2, <2>3
<1>8. CASE q.t = "set_enabled"
  <2>1. PICK ok \in {sup, FALSE} :
          /\ stored' = IF ok THEN q.v ELSE stored
          /\ inbox' = Append(IF ok /\ q.v # stored
                               THEN Append(inbox, Msg("enabled_changed", None, q.v, TRUE))
                               ELSE inbox,
                             Msg(q.t, q.id, q.v, ok))
    BY <1>8 DEF Serve
  <2>2. PICK m \in BusMessages : /\ m.t = "set_enabled" /\ ~IsSetter(m)
                                 /\ m = Msg(q.t, q.id, q.v, ok)
    BY <1>2, <1>4, <1>8 DEF Msg, BusMessages, IsSetter
  <2>3. CASE ~(ok /\ q.v # stored)
    <3>1. inbox' = Append(inbox, m) /\ stored' = stored
      BY <2>1, <2>2, <2>3
    <3> QED
      BY <1>5, <1>8, <2>2, <3>1
  <2>4. CASE ok /\ q.v # stored
    <3>1. PICK e \in BusMessages : /\ IsSetter(e) /\ e.v = q.v
                                   /\ e = Msg("enabled_changed", None, q.v, TRUE)
      BY <1>2 DEF Msg, BusMessages, IsSetter
    <3> DEFINE b == Append(inbox, e)
    <3>2. inbox' = Append(b, m) /\ stored' = e.v /\ sup
      BY <2>1, <2>2, <2>4, <3>1
    <3>3. /\ b \in Seq(BusMessages)
          /\ \A t : Holds(inbox, t) => Holds(b, t)
          /\ LastSetter(b, stored')
          /\ Reannounced(inbox) => Reannounced(b)
      BY <1>4, <3>1, <3>2, PutSetter, Appended
    <3> HIDE DEF b
    <3>4. /\ \A t : Holds(b, t) => Holds(inbox', t)
          /\ LastSetter(inbox', stored')
          /\ Reannounced(b) => Reannounced(inbox')
      BY <2>2, <3>2, <3>3, PutQuiet
    <3>5. Reconnecting => Reconnecting'
      BY <1>1, <1>8, <3>3, <3>4 DEF Reconnecting
    <3> QED
      BY <1>3, <3>2, <3>3, <3>4, <3>5 DEF SettingInv, UpTold
  <2> QED
    BY <2>3, <2>4
<1> QED
  BY <1>2, <1>6, <1>7, <1>8

\* The callbacks of the link, each with the message it takes.
LEMMA LinkSetting ==
  ASSUME BusType, SettingInv, Link
  PROVE  SettingInv'
<1> DEFINE h == Head(inbox)
<1>1. PICK type : Dispatch(type)
  BY DEF Link, settings_appeared, settings_vanished, settings_proxy_ready,
     settings_get_all_ready, settings_enabled_changed, set_enabled_ready
<1>2. h \in BusMessages /\ h.t = type /\ h.ok \in BOOLEAN
  <2>1. h \in BusMessages
    BY <1>1, Taken DEF Dispatch, BusType
  <2> QED
    BY <1>1, <2>1 DEF Dispatch, BusMessages
<1>3. /\ \A t : Holds(inbox, t) <=> (h.t = t \/ Holds(inbox, t)')
      /\ NoSetter(inbox) => NoSetter(inbox)' /\ ~IsSetter(h)
      /\ \A v : LastSetter(inbox, v) =>
           \/ LastSetter(inbox', v)
           \/ IsSetter(h) /\ h.v = v /\ NoSetter(inbox')
      /\ Outlived(inbox) =>
           /\ Outlived(inbox)'
           /\ IsSetter(h) => Holds(inbox, "vanished")'
      /\ Reannounced(inbox) =>
           /\ Reannounced(inbox)'
           /\ h.t = "vanished" => Holds(inbox, "appeared")'
  BY <1>1, TakeHead DEF Dispatch, BusType
<1>4. UNCHANGED <<sup, stored>>
  BY <1>1 DEF Dispatch, settingsVars
<1> HIDE DEF h
<1>5. CASE settings_appeared
  <2>1. PICK q \in BusCalls : q.t = "proxy" /\ reqs' = Append(reqs, q)
    BY <1>5 DEF settings_appeared, Call, Req, BusCalls
  <2>2. Holds(reqs, "proxy")'
    BY <2>1, PutCall DEF BusType
  <2>3. h.t = "appeared" /\ UNCHANGED linkVars
    BY <1>5 DEF settings_appeared, Dispatch, h
  <2> QED
    BY <1>3, <1>4, <2>2, <2>3 DEF SettingInv, UpTold, DownTold, Reconnecting, Refreshing,
       linkVars
<1>6. CASE settings_vanished
  <2>1. h.t = "vanished" /\ ~settings_valid'
    BY <1>6 DEF settings_vanished, Dispatch, h
  <2> QED
    BY <1>3, <1>4, <2>1 DEF SettingInv, UpTold, DownTold, Reconnecting, Refreshing
<1>7. CASE settings_proxy_ready
  <2>1. PICK q \in BusCalls : q.t = "get_all" /\ reqs' = Append(reqs, q)
    BY <1>7 DEF settings_proxy_ready, Call, Req, BusCalls
  <2>2. Holds(reqs, "get_all")'
    BY <2>1, PutCall DEF BusType
  <2>3. h.t = "proxy" /\ settings' /\ settings_valid' = settings_valid
    BY <1>7 DEF settings_proxy_ready, Dispatch, h
  <2> QED
    BY <1>3, <1>4, <2>2, <2>3 DEF SettingInv, UpTold, DownTold, Refreshing
<1>8. ASSUME reqs' = reqs, settings' = settings, h.t \notin {"appeared", "proxy", "vanished"},
             IsSetter(h) => settings_valid' /\ settings_enabled' = h.v,
             ~IsSetter(h) => UNCHANGED linkVars
      PROVE  SettingInv'
  <2>1. (Reconnecting' <=> Reconnecting) /\ (Refreshing' <=> Refreshing)
    BY <1>3, <1>8 DEF Reconnecting, Refreshing
  <2>2. CASE sup
    BY <1>3, <1>4, <1>8, <2>1, <2>2 DEF SettingInv, UpTold, linkVars
  <2>3. CASE ~sup
    <3>1. Holds(inbox, "vanished") => Holds(inbox, "vanished")'
      BY <1>3, <1>8
    <3> QED
      BY <1>3, <1>4, <1>8, <2>3, <3>1 DEF SettingInv, DownTold, linkVars
  <2> QED
    BY <2>2, <2>3
<1>9. CASE settings_get_all_ready
  <2>1. h.t = "get_all" /\ (IsSetter(h) <=> h.ok)
    BY <1>2, <1>9 DEF settings_get_all_ready, Dispatch, IsSetter, h
  <2>2. /\ h.ok => settings_valid' /\ settings_enabled' = h.v
        /\ ~h.ok => UNCHANGED linkVars
        /\ reqs' = reqs /\ settings' = settings
    BY <1>9 DEF settings_get_all_ready, h, linkVars
  <2> QED
    BY <1>8, <2>1, <2>2
<1>10. CASE settings_enabled_changed
  <2>1. h.t = "enabled_changed" /\ IsSetter(h)
    BY <1>10 DEF settings_enabled_changed, Dispatch, IsSetter, h
  <2>2. /\ Connected => settings_valid' /\ settings_enabled' = h.v
        /\ ~Connected => UNCHANGED linkVars
        /\ reqs' = reqs /\ settings' = settings
    BY <1>10 DEF settings_enabled_changed, h, linkVars
  <2>3. CASE Connected
    BY <1>8, <2>1, <2>2, <2>3
  <2>4. CASE ~Connected
    <3>1. ~settings
      BY <2>4 DEF Connected
    <3>2. (Reconnecting' <=> Reconnecting) /\ (Refreshing' <=> Refreshing)
      BY <1>3, <2>1, <2>2 DEF Reconnecting, Refreshing
    <3>3. CASE sup
      BY <1>3, <1>4, <2>2, <2>4, <3>1, <3>2, <3>3 DEF SettingInv, UpTold, Refreshing, linkVars
    <3>4. CASE ~sup
      BY <1>3, <1>4, <2>1, <2>2, <2>4, <3>4 DEF SettingInv, DownTold, linkVars
    <3> QED
      BY <3>3, <3>4
  <2> QED
    BY <2>3, <2>4
<1>11. CASE set_enabled_ready
  <2>1. h.t = "set_enabled" /\ ~IsSetter(h) /\ reqs' = reqs /\ UNCHANGED linkVars
    BY <1>11 DEF set_enabled_ready, Dispatch, IsSetter, h
  <2> QED
    BY <1>8, <2>1 DEF linkVars
<1> QED
  BY <1>5, <1>6, <1>7, <1>9, <1>10, <1>11 DEF Link

\* The setting invariant is inductive.
LEMMA SettingInvStep ==
  ASSUME BusType, SettingInv, [Next]_vars
  PROVE  SettingInv'
<1>1. CASE UNCHANGED vars
  BY <1>1 DEF vars, settingsVars, linkVars, SettingInv, UpTold, DownTold, Reconnecting,
     Refreshing
<1> QED
  BY <1>1, BusSteps, OffTheBusSetting, StartSetting, CrashSetting, ToggleSetting,
     ServeSetting, LinkSetting

-----------------------------------------------------------------------------
(* Theorems.                                                               *)

\* A write or lock is that of a message, and nfcd has crashed or not.
WritingType == writing \subseteq Messages /\ crashed \in BOOLEAN

\* Only the handlers of writeTag, cloneTag and lockTag begin a write.
LEMMA WritingStep ==
  ASSUME WritingType, [Next]_vars
  PROVE  WritingType'
<1>1. CASE Link
  BY <1>1 DEF Link, settings_appeared, settings_vanished, settings_proxy_ready,
     settings_get_all_ready, settings_enabled_changed, set_enabled_ready, Dispatch,
     requestVars, clientVars, WritingType
<1>2. CASE Luna
  <2>1. ASSUME NEW i \in Messages, NEW j, NEW v, Writer(i, j, v) \/ Other(i, j, v)
        PROVE  WritingType'
    BY <2>1 DEF Writer, Other, Handler, clientVars, WritingType
  <2>2. ASSUME NEW i \in Messages,
               \/ _service_write_tag_cb(i)
               \/ _service_lock_tag_cb(i) \/ _service_clone_tag_cb(i)
               \/ _service_read_passport_cb(i) \/ _service_read_passport_pace_cb(i)
               \/ _service_add_card_emulation_cb(i)
               \/ _service_remove_card_emulation_cb(i)
               \/ _service_clear_card_emulation_cb(i)
        PROVE  WritingType'
    BY <2>1, <2>2 DEF _service_write_tag_cb, _service_lock_tag_cb,
       _service_clone_tag_cb, _service_read_passport_cb, _service_read_passport_pace_cb,
       _service_add_card_emulation_cb, _service_remove_card_emulation_cb,
       _service_clear_card_emulation_cb
  <2>3. ASSUME NEW i \in Messages, _service_set_enabled_cb(i)
        PROVE  WritingType'
    BY <2>3 DEF _service_set_enabled_cb, clientVars, WritingType
  <2>4. ASSUME NEW c \in Subscribers,
               \/ _service_get_status_cb(c) \/ _service_get_tag_info_cb(c)
               \/ _service_get_card_emulation_event_cb(c) \/ Unsubscribe(c)
        PROVE  WritingType'
    BY <2>4 DEF _service_get_status_cb, _service_get_tag_info_cb,
       _service_get_card_emulation_event_cb, Unsubscribe, Subscribe, requestVars,
       clientVars, WritingType
  <2> QED
    BY <1>2, <2>2, <2>3, <2>4 DEF Luna
<1>3. CASE Environment
  BY <1>3 DEF Environment, SettingsStart, SettingsCrash, Toggle, Unheard,
     AdapterChanged, NfcdCrashed, TagChanged, HceConfirmed, requestVars, clientVars,
     WritingType
<1>4. CASE Serve
  BY <1>4 DEF Serve, Unheard, requestVars, clientVars, WritingType
<1>5. ASSUME NEW i \in Messages, OperationDone(i)
      PROVE  WritingType'
  BY <1>5 DEF OperationDone, clientVars, WritingType
<1>6. CASE signal_handler \/ quit_eventloop \/ UNCHANGED vars
  BY <1>6 DEF signal_handler, quit_eventloop, vars, requestVars, clientVars,
     WritingType
<1> QED
  BY <1>1, <1>2, <1>3, <1>4, <1>5, <1>6 DEF Next

ServiceInv == RequestInv /\ SubscriptionInv /\ BusType /\ SettingInv /\ WritingType

\* The service starts in the invariant,
LEMMA ServiceInvInit == Init => ServiceInv
<1> SUFFICES ASSUME Init PROVE ServiceInv
  OBVIOUS
<1>1. RequestInv
  BY RequestInvInit
<1>2. SubscriptionInv
  BY DEF Init, SubscriptionInv, SubscriptionType, SubscribersUpToDate
<1>3. PICK m \in BusMessages : /\ m.t = IF sup THEN "appeared" ELSE "vanished"
                               /\ inbox = <<m>>
  BY DEF Init, Msg, BusMessages
<1>4. BusType
  <2>1. inbox \in Seq(BusMessages)
    BY <1>3
  <2>2. reqs \in Seq(BusCalls)
    BY EmptySeq DEF Init
  <2>3. events \in 0..MaxEvents /\ changes \in 0..MaxChanges
    BY ServiceAssumption DEF Init
  <2>4. /\ sup \in BOOLEAN /\ stored \in BOOLEAN /\ settings \in BOOLEAN
        /\ loop \in {"running", "terminating", "stopped"}
    BY DEF Init
  <2> QED
    BY <2>1, <2>2, <2>3, <2>4 DEF BusType
<1>5. SettingInv
  <2>1. Len(inbox) = 1 /\ inbox[1] = m
    BY <1>3
  <2>2. CASE sup
    BY <1>3, <2>1, <2>2 DEF SettingInv, UpTold, Reannounced, Reconnecting, Refreshing, Holds
  <2>3. CASE ~sup
    BY <1>3, <2>1, <2>3 DEF SettingInv, DownTold, Outlived, IsSetter, Holds
  <2> QED
    BY <2>2, <2>3
<1>6. WritingType
  BY DEF Init, WritingType
<1> QED
  BY <1>1, <1>2, <1>4, <1>5, <1>6 DEF ServiceInv

\* every step keeps it,
LEMMA ServiceInvStep ==
  ASSUME ServiceInv, [Next]_vars
  PROVE  ServiceInv'
BY RequestInvStep, SubscriptionInvStep, BusTypeStep, SettingInvStep, WritingStep
   DEF ServiceInv, BusType

\* so it holds for ever: the inductive invariant of nfc_service.c.
THEOREM ServiceInvariant == Spec => []ServiceInv
BY ServiceInvInit, ServiceInvStep, PTL DEF Spec

\* Every state of the service is well typed; in particular no message is ever
\* referenced twice or unreferenced twice (nfc_request_new, nfc_request_free).
THEOREM TypeCorrect == Spec => []TypeOK
<1>1. ServiceInv => TypeOK
  BY DEF ServiceInv, RequestInv, RequestType, SubscriptionInv, SubscriptionType, BusType,
     WritingType, TypeOK
<1> QED
  BY <1>1, ServiceInvariant, PTL

\* A luna message is referenced exactly while a callback may still reply to it
\* (nfc_request_new, the result callbacks), and has the reply it deserves.
THEOREM RepliesAreHeld == Spec => []MessagesHeld
<1>1. ServiceInv => MessagesHeld
  BY DEF ServiceInv, RequestInv
<1> QED
  BY <1>1, ServiceInvariant, PTL

\* Every subscriber of getStatus, getTagInfo and getCardEmulationEvent has the
\* reply body as it is now (luna_service_post_subscription).
THEOREM SubscribersAreTold == Spec => []SubscribersUpToDate
<1>1. ServiceInv => SubscribersUpToDate
  BY DEF ServiceInv, SubscriptionInv
<1> QED
  BY <1>1, ServiceInvariant, PTL

\* However starts, crashes and changes of the settings service overlap with the
\* callbacks of the link, once all is handled getStatus shows the setting.
THEOREM SettingIsShown == Spec => []EnabledIsCurrent
<1>1. ASSUME ServiceInv, Settled
      PROVE  ShowsSetting
  <2>1. Len(inbox) = 0 /\ Len(reqs) = 0
    BY <1>1 DEF Settled
  <2>2. IF sup THEN settings_valid /\ settings_enabled = stored ELSE ~settings_valid
    BY <1>1, <2>1 DEF ServiceInv, SettingInv, UpTold, DownTold, Reconnecting, Refreshing,
       Holds, LastSetter
  <2>3. Body("getStatus").enabled
          = IF settings_valid THEN settings_enabled ELSE adapter_enabled
    BY BodyIs
  <2> QED
    BY <2>2, <2>3 DEF ShowsSetting
<1>2. ServiceInv => EnabledIsCurrent
  BY <1>1 DEF EnabledIsCurrent
<1> QED
  BY <1>2, ServiceInvariant, PTL
=============================================================================
