-------------------------- MODULE TransportsProofs ---------------------------
(***************************************************************************)
(* Any UDP and MQTT transports keep the contract PubSubConnection counts   *)
(* on.                                                                     *)
(***************************************************************************)
EXTENDS Transports, TLAPS

States == {"none", "opening", "open", "failed", "lost", "aborting", "ending", "ended"}

TypeOK ==
  /\ asked \in [Transports -> {"nothing", "connect", "close"}]
  /\ held \in [Transports -> Handles \cup {None}]
  /\ handle \in [Transports -> [Handles -> States]]
  /\ fallbackDone \in SUBSET Transports /\ late \in SUBSET Transports
  /\ told \in [Transports -> BOOLEAN]

(* Each kind has its own handles.                                           *)
KindOK ==
  /\ \A t \in Udp : handle[t]["v5"] = "none" /\ handle[t]["v4"] = "none"
  /\ \A t \in Mqtt : handle[t]["socket"] = "none"

(* Nothing runs before connect(), and until close() one handle does, the    *)
(* one that is held: the last event says whether it is open.                *)
Fresh(t) == asked[t] = "nothing" => (\A h \in Handles : handle[t][h] = "none") /\ ~told[t]
OneHeld(t) ==
  asked[t] = "connect" =>
    /\ held[t] \in Handles /\ handle[t][held[t]] \in {"opening", "open", "failed", "lost"}
    /\ \A h \in Handles \ {held[t]} : handle[t][h] \in {"none", "ended"}
    /\ told[t] <=> handle[t][held[t]] = "open"

IInv == TypeOK /\ KindOK /\ \A t \in Transports : Fresh(t) /\ OneHeld(t)

LEMMA InitHolds == Init => IInv
BY DEF Init, IInv, TypeOK, KindOK, Fresh, OneHeld, Transports, Handles, States

(* What a step of one transport does to the invariant, and to the others.   *)
LEMMA StepHolds ==
  ASSUME IInv, NEW t \in Transports,
         \/ Connect(t) \/ Close(t) \/ BindFails(t) \/ Refused(t)
         \/ \E h \in Handles : Opened(t, h) \/ Lost(t, h) \/ Reconnects(t, h) \/ Ended(t, h)
  PROVE  IInv'
<1> USE KindsAssumption DEF Handles, States, Turns, Says, Transports
<1>1. CASE Connect(t)
  <2>1. TypeOK' /\ KindOK'
    BY <1>1 DEF Connect, Opens, IInv, TypeOK, KindOK
  <2>2. \A u \in Transports : Fresh(u)' /\ OneHeld(u)'
    BY <1>1 DEF Connect, Opens, IInv, TypeOK, Fresh, OneHeld
  <2> QED
    BY <2>1, <2>2 DEF IInv
<1>2. CASE Close(t)
  <2>1. TypeOK' /\ KindOK'
    BY <1>2 DEF Close, Ending, IInv, TypeOK, KindOK, OneHeld
  <2>2. \A u \in Transports : Fresh(u)' /\ OneHeld(u)'
    BY <1>2 DEF Close, Ending, IInv, TypeOK, Fresh, OneHeld
  <2> QED
    BY <2>1, <2>2 DEF IInv
<1>3. CASE BindFails(t)
  BY <1>3 DEF BindFails, IInv, TypeOK, KindOK, Fresh, OneHeld
<1>4. CASE Refused(t)
  <2>1. TypeOK' /\ KindOK'
    BY <1>4 DEF Refused, FallenBack, HeldNext, IInv, TypeOK, KindOK
  <2>2. \A u \in Transports : Fresh(u)' /\ OneHeld(u)'
    BY <1>4 DEF Refused, FallenBack, HeldNext, IInv, TypeOK, Fresh, OneHeld
  <2> QED
    BY <2>1, <2>2 DEF IInv
<1>5. ASSUME NEW h \in Handles, Opened(t, h) PROVE IInv'
  BY <1>5 DEF Opened, IInv, TypeOK, KindOK, Fresh, OneHeld
<1>6. ASSUME NEW h \in Handles, Lost(t, h) PROVE IInv'
  BY <1>6 DEF Lost, IInv, TypeOK, KindOK, Fresh, OneHeld
<1>7. ASSUME NEW h \in Handles, Reconnects(t, h) PROVE IInv'
  BY <1>7 DEF Reconnects, IInv, TypeOK, KindOK, Fresh, OneHeld
<1>8. ASSUME NEW h \in Handles, Ended(t, h) PROVE IInv'
  BY <1>8 DEF Ended, IInv, TypeOK, KindOK, Fresh, OneHeld
<1> QED
  BY <1>1, <1>2, <1>3, <1>4, <1>5, <1>6, <1>7, <1>8

(* What the contract sees of a transport, and that a step of one of them    *)
(* changes nothing else of it.                                              *)
StateOf(t) ==
  CASE asked[t] = "nothing" -> "closed"
    [] asked[t] = "connect" -> IF \E h \in Handles : handle[t][h] = "open" THEN "up" ELSE "connecting"
    [] OTHER -> IF Running(t) = {} THEN "closed" ELSE "closing"

LEMMA Seen ==
  ASSUME NEW t \in Transports, NEW state, NEW says \in BOOLEAN, TypeOK, TypeOK',
         \A u \in Transports \ {t} :
           asked'[u] = asked[u] /\ handle'[u] = handle[u] /\ told'[u] = told[u],
         StateOf(t)' = state, told'[t] = says
  PROVE  Contract!Becomes(t, state, says)
<1>1. \A u \in Transports \ {t} : StateOf(u)' = StateOf(u)
  BY DEF StateOf, Running
<1>2. transportNow = [u \in Transports |-> StateOf(u)]
  BY DEF transportNow, StateOf
<1>3. transportNow' = [u \in Transports |-> StateOf(u)']
  BY DEF transportNow, StateOf
<1>4. transportNow' = [transportNow EXCEPT ![t] = state]
  BY <1>1, <1>2, <1>3
<1>5. told' = [told EXCEPT ![t] = says]
  BY DEF TypeOK
<1> QED
  BY <1>4, <1>5 DEF Contract!Becomes

LEMMA SeenBefore ==
  ASSUME NEW t \in Transports
  PROVE  transportNow[t] = StateOf(t)
BY DEF transportNow, StateOf

LEMMA NotSeen ==
  ASSUME NEW t \in Transports, TypeOK, TypeOK',
         \A u \in Transports \ {t} :
           asked'[u] = asked[u] /\ handle'[u] = handle[u] /\ told'[u] = told[u],
         StateOf(t)' = StateOf(t), told'[t] = told[t]
  PROVE  UNCHANGED <<transportNow, told>>
<1>1. \A u \in Transports : StateOf(u)' = StateOf(u)
  BY DEF StateOf, Running
<1>2. transportNow = [u \in Transports |-> StateOf(u)]
  BY DEF transportNow, StateOf
<1>3. transportNow' = [u \in Transports |-> StateOf(u)']
  BY DEF transportNow, StateOf
<1> QED
  BY <1>1, <1>2, <1>3 DEF TypeOK

(* From close() on the contract asks for nothing but that it stays closed.  *)
LEMMA ClosingStep ==
  ASSUME NEW t \in Transports, TypeOK, TypeOK',
         \A u \in Transports \ {t} :
           asked'[u] = asked[u] /\ handle'[u] = handle[u] /\ told'[u] = told[u],
         asked[t] = "close", asked'[t] = "close", Running(t) # {}
  PROVE  Contract!Next
<1>1. transportNow[t] = "closing"
  BY SeenBefore DEF StateOf
<1>2. StateOf(t)' \in {"closing", "closed"}
  BY DEF StateOf
<1>3. told'[t] \in BOOLEAN
  BY DEF TypeOK
<1>4. Contract!Becomes(t, StateOf(t)', told'[t])
  BY <1>3, Seen
<1> QED
  BY <1>1, <1>2, <1>3, <1>4 DEF Contract!Next, Contract!Closes

LEMMA StepKeeps ==
  ASSUME IInv, IInv', NEW t \in Transports,
         \/ Connect(t) \/ Close(t) \/ BindFails(t) \/ Refused(t)
         \/ \E h \in Handles : Opened(t, h) \/ Lost(t, h) \/ Reconnects(t, h) \/ Ended(t, h)
  PROVE  Contract!Next \/ UNCHANGED <<transportNow, told>>
<1> USE KindsAssumption DEF Handles, States, Turns, Says
<1>0. TypeOK /\ TypeOK' /\ Fresh(t) /\ OneHeld(t)
  BY DEF IInv
<1>1. \A u \in Transports \ {t} :
        asked'[u] = asked[u] /\ handle'[u] = handle[u] /\ told'[u] = told[u]
  BY <1>0 DEF TypeOK, Connect, Close, Ending, BindFails, Refused, FallenBack, Opened, Lost, Reconnects, Ended
<1>2. CASE Connect(t)
  <2>1. transportNow[t] = "closed" /\ ~told[t]
    BY <1>0, <1>2, SeenBefore DEF Connect, StateOf, Fresh
  <2>2. asked'[t] = "connect" /\ told'[t] = FALSE /\ \A h \in Handles : handle'[t][h] # "open"
    BY <1>0, <1>2, <2>1 DEF Connect, Opens, TypeOK, Fresh
  <2>3. StateOf(t)' = "connecting"
    BY <2>2 DEF StateOf
  <2> QED
    BY <1>0, <1>1, <2>1, <2>2, <2>3, Seen DEF Contract!Next, Contract!Connect
<1>3. CASE Close(t)
  <2>1. asked[t] = "connect" /\ held[t] \in Handles
    BY <1>0, <1>3 DEF Close, OneHeld
  <2>2. transportNow[t] \in {"connecting", "up"}
    BY <2>1, SeenBefore DEF StateOf
  <2>3. asked'[t] = "close" /\ held[t] \in Running(t)'
    BY <1>0, <1>3, <2>1 DEF Close, Ending, Running, TypeOK
  <2>4. StateOf(t)' = "closing" /\ told'[t] \in BOOLEAN
    BY <1>0, <2>3 DEF StateOf, TypeOK
  <2> QED
    BY <1>0, <1>1, <2>2, <2>4, Seen DEF Contract!Next, Contract!Close
<1>4. ASSUME asked[t] = "close"
      PROVE  Contract!Next
  <2>1. asked'[t] = "close"
    BY <1>0, <1>4 DEF TypeOK, Connect, Close, BindFails, Refused, Opened, Lost, Reconnects, Ended
  <2>2. Running(t) # {}
    BY <1>4 DEF Running, Connect, Close, BindFails, Refused, Opened, Lost, Reconnects, Ended
  <2> QED
    BY <1>0, <1>1, <1>4, <2>1, <2>2, ClosingStep
<1>5. ASSUME asked[t] # "close", ~Connect(t), ~Close(t)
      PROVE  Contract!Next \/ UNCHANGED <<transportNow, told>>
  <2>1. asked'[t] = asked[t] /\ asked[t] = "connect"
    BY <1>0, <1>5 DEF TypeOK, Fresh, BindFails, Refused, Opened, Lost, Reconnects, Ended
  <2>2. held[t] \in Handles /\ (told[t] <=> handle[t][held[t]] = "open")
        /\ \A h \in Handles \ {held[t]} : handle[t][h] \in {"none", "ended"}
    BY <1>0, <2>1 DEF OneHeld
  <2>3. transportNow[t] = IF told[t] THEN "up" ELSE "connecting"
    BY <2>1, <2>2, SeenBefore DEF StateOf
  <2>4. StateOf(t)' = IF told'[t] THEN "up" ELSE "connecting"
    <3>1. OneHeld(t)'
      BY DEF IInv
    <3> QED
      BY <2>1, <3>1 DEF StateOf, OneHeld
  <2>5. told[t] \in BOOLEAN /\ told'[t] \in BOOLEAN
    BY <1>0 DEF TypeOK
  <2>6. CASE told'[t] = told[t]
    <3>1. StateOf(t)' = StateOf(t)
      BY <2>3, <2>4, <2>6, SeenBefore
    <3> QED
      BY <1>0, <1>1, <2>6, <3>1, NotSeen
  <2>7. CASE told[t] = FALSE /\ told'[t] = TRUE
    BY <1>0, <1>1, <2>3, <2>4, <2>7, Seen DEF Contract!Next, Contract!Connects
  <2>8. CASE told[t] = TRUE /\ told'[t] = FALSE
    BY <1>0, <1>1, <2>3, <2>4, <2>8, Seen DEF Contract!Next, Contract!Drops
  <2> QED
    BY <2>5, <2>6, <2>7, <2>8
<1> QED
  BY <1>2, <1>3, <1>4, <1>5

(* The inductive invariant: one handle runs, and the last event tells of it. *)
THEOREM HandleInvariant == Spec => []IInv
<1>1. IInv /\ [Next]_vars => IInv'
  <2>1. IInv /\ UNCHANGED vars => IInv'
    BY DEF vars, IInv, TypeOK, KindOK, Fresh, OneHeld
  <2> QED
    BY <2>1, StepHolds DEF Next
<1> QED
  BY <1>1, InitHolds, PTL DEF Spec

(* Both transports say "connected" when they are, and only then, until they *)
(* are told to close: what PubSubConnection counts on.                      *)
THEOREM ContractKept == Spec => KeepsContract
<1>1. Init => Contract!Init
  BY DEF Init, Contract!Init, transportNow
<1>2. IInv /\ IInv' /\ [Next]_vars => [Contract!Next]_<<transportNow, told>>
  <2>1. UNCHANGED vars => UNCHANGED <<transportNow, told>>
    BY DEF vars, transportNow, Running
  <2> QED
    BY <2>1, StepKeeps DEF Next
<1> QED
  BY <1>1, <1>2, HandleInvariant, PTL DEF Spec, KeepsContract, Contract!Spec

=============================================================================
