------------------------- MODULE ReassemblerProofs -------------------------
(***************************************************************************)
(* Theorems about Reassembler, for every number of messages, publishers    *)
(* and sequence numbers, and every size: which parts are put together,     *)
(* how many messages wait, and, with what the lengths of parts add up to,  *)
(* that a message comes out exactly as it was split.                       *)
(***************************************************************************)
EXTENDS Reassembler, FiniteSetTheorems, TLAPS

LEMMA SplitType ==
  ASSUME NEW m \in Messages, NEW k \in Keys, NEW size \in Sizes, NEW data \in DataSizes
  PROVE  /\ Split(m, k, size, data) \subseteq Chunks
         /\ \A c \in Split(m, k, size, data) : c.msg = m /\ c.key = k
<1>1. size \in Nat /\ data \in Nat /\ data > 0
  BY NumbersAssumption
<1>2. ASSUME NEW i \in 0 .. ((size - 1) \div data)
      PROVE  i * data \in Nat /\ Min({data, size - i * data}) \in Int
  <2>1. i \in Nat /\ i * data \in Nat
    BY <1>1
  <2>2. size - i * data \in Int
    BY <1>1, <2>1
  <2> DEFINE rest == size - i * data
  <2>3. Min({data, rest}) \in {data, rest}
    <3>1. \E x \in {data, rest} : \A y \in {data, rest} : x =< y
      <4> HIDE DEF rest
      <4>1. rest \in Int
        BY <2>2 DEF rest
      <4> QED
        BY <1>1, <4>1
    <3> HIDE DEF rest
    <3> QED
      BY <3>1, Zenon DEF Min
  <2> QED
    BY <1>1, <2>1, <2>2, <2>3
<1>3. ASSUME NEW i \in 0 .. ((size - 1) \div data)
      PROVE  [msg |-> m, key |-> k, total |-> size, offset |-> i * data,
              len |-> Min({data, size - i * data})] \in Chunks
  BY <1>1, <1>2 DEF Chunks
<1>4. ASSUME NEW c \in Split(m, k, size, data)
      PROVE  c \in Chunks /\ c.msg = m /\ c.key = k
  <2>1. PICK i \in 0 .. ((size - 1) \div data) :
          c = [msg |-> m, key |-> k, total |-> size, offset |-> i * data,
               len |-> Min({data, size - i * data})]
    BY DEF Split
  <2> QED
    BY <2>1, <1>3
<1> QED
  BY <1>4

(* What push() may take up: the parts of the key that have not expired.     *)
LiveParts(k) == IF entries[k] = None \/ entries[k].ttl = 0 THEN {} ELSE entries[k].parts

PartsOfKey == \A k \in Keys : entries[k] # None => \A c \in entries[k].parts : c.key = k
SameMessage ==
  \A k \in Keys \ reused :
    \A c, d \in {e \in wire : e.key = k} \cup LiveParts(k) : c.msg = d.msg

(* What is returned belongs to one message, unless its sequence number has  *)
(* been used again too soon.                                                *)
OneMessage == \A c, d \in out : c.key = d.key /\ (c.msg = d.msg \/ c.key \in reused)

IInv == TypeOK /\ PartsOfKey /\ SameMessage /\ OneMessage /\ EachArrivalCountsOnce

LEMMA Initially == Init => IInv
<1> SUFFICES ASSUME Init
             PROVE  IInv
  OBVIOUS
<1>1. TypeOK
  BY NumbersAssumption DEF Init, TypeOK
<1>2. \A k \in Keys : entries[k] = None
  BY DEF Init
<1> QED
  BY <1>1, <1>2 DEF IInv, Init, PartsOfKey, SameMessage, OneMessage, EachArrivalCountsOnce,
                    Occupied, LiveParts

(* Whichever entries are removed to make room, the others stay as they are, *)
(* and none that has expired is left.                                       *)
LEMMA Tidied ==
  ASSUME IInv, NEW j \in Keys, NEW table \in WithRoom(Swept(entries), j)
  PROVE  /\ table \in [Keys -> Entries \cup {None}]
         /\ \A k \in Keys : \/ table[k] = None
                            \/ table[k] = entries[k] /\ entries[k].ttl # 0
<1>1. Swept(entries) \in [Keys -> Entries \cup {None}]
  BY DEF IInv, TypeOK, Swept
<1>2. \A k \in Keys : \/ Swept(entries)[k] = None
                      \/ Swept(entries)[k] = entries[k] /\ entries[k].ttl # 0
  BY DEF Swept
<1> DEFINE swept == Swept(entries)
<1> HIDE DEF swept
<1>3. \/ table = swept
      \/ \E o \in Keys : table = [swept EXCEPT ![o] = None]
  BY DEF WithRoom, Oldest, Occupied, swept
<1>4. swept \in [Keys -> Entries \cup {None}]
  BY <1>1 DEF swept
<1>5. \A k \in Keys : swept[k] = None \/ (swept[k] = entries[k] /\ entries[k].ttl # 0)
  BY <1>2 DEF swept
<1> QED
  BY <1>3, <1>4, <1>5

(* What a chunk does: to its own key, to the other keys, and what it        *)
(* completes.                                                               *)
LEMMA Pushed ==
  ASSUME IInv, NEW c \in wire, Push(c)
  PROVE  /\ c \in Chunks /\ c.key \in Keys
         /\ entries' \in [Keys -> Entries \cup {None}]
         /\ \A k \in Keys \ {c.key} :
              entries'[k] = None \/ (entries'[k] = entries[k] /\ entries[k].ttl # 0)
         /\ entries'[c.key] # None => entries'[c.key].parts \subseteq LiveParts(c.key) \cup {c}
         /\ out' \subseteq LiveParts(c.key) \cup {c}
         /\ \/ out' = {} /\ spent' = spent \ {c}
            \/ out' = {} /\ spent' = spent
               /\ (entries'[c.key] # None => entries'[c.key].parts \subseteq LiveParts(c.key))
            \/ entries'[c.key] = None /\ spent' = (spent \ {c}) \cup out'
<1>1. c \in Chunks /\ c.key \in Keys
  BY DEF IInv, TypeOK, Chunks
<1> PICK table \in WithRoom(Swept(entries), c.key) :
       IF c.offset + c.len > c.total
       THEN entries' = table /\ out' = {} /\ UNCHANGED spent
       ELSE Record(table, c, Recorded(Entry(table, c), c))
  BY DEF Push
<1>2. /\ table \in [Keys -> Entries \cup {None}]
      /\ \A k \in Keys : table[k] = None \/ (table[k] = entries[k] /\ entries[k].ttl # 0)
  BY <1>1, Tidied
<1>3. table[c.key] # None => table[c.key].parts = LiveParts(c.key) /\ table[c.key] \in Entries
  BY <1>1, <1>2 DEF LiveParts
<1>4. CASE c.offset + c.len > c.total
  BY <1>1, <1>2, <1>3, <1>4
<1>5. CASE ~(c.offset + c.len > c.total)
  <2> DEFINE entry == Recorded(Entry(table, c), c)
  <2>1. /\ Entry(table, c) \in Entries
        /\ Entry(table, c).parts \subseteq LiveParts(c.key)
    BY <1>1, <1>3, NumbersAssumption DEF Entry, Entries, Chunks
  <2>2. /\ entry \in Entries
        /\ entry.parts \subseteq LiveParts(c.key) \cup {c}
    BY <1>1, <2>1 DEF Recorded, Entries
  <2>3. Record(table, c, entry)
    BY <1>5
  <2> HIDE DEF entry
  <2>4. CASE Complete(entry)
    BY <1>1, <1>2, <2>2, <2>3, <2>4 DEF Record, Removed
  <2>5. CASE ~Complete(entry)
    BY <1>1, <1>2, <2>2, <2>3, <2>5 DEF Record
  <2> QED
    BY <2>4, <2>5
<1> QED
  BY <1>1, <1>4, <1>5

LEMMA PushStep ==
  ASSUME IInv, NEW c \in wire, Push(c)
  PROVE  IInv'
<1> DEFINE live == LiveParts(c.key)
<1>1. /\ c \in Chunks /\ c.key \in Keys
      /\ entries' \in [Keys -> Entries \cup {None}]
      /\ \A k \in Keys \ {c.key} :
           entries'[k] = None \/ (entries'[k] = entries[k] /\ entries[k].ttl # 0)
      /\ entries'[c.key] # None => entries'[c.key].parts \subseteq live \cup {c}
      /\ out' \subseteq live \cup {c}
      /\ \/ out' = {} /\ spent' = spent \ {c}
         \/ out' = {} /\ spent' = spent
            /\ (entries'[c.key] # None => entries'[c.key].parts \subseteq live)
         \/ entries'[c.key] = None /\ spent' = (spent \ {c}) \cup out'
  BY Pushed
<1>2. UNCHANGED <<seq, wire, whole, reused>>
  BY DEF Push, publisher
<1>3. /\ live \subseteq Chunks
      /\ \A d \in live : d.key = c.key /\ d \notin spent
  BY <1>1 DEF IInv, TypeOK, PartsOfKey, EachArrivalCountsOnce, Occupied, LiveParts, Entries
<1>4. c.key \notin reused => \A d, e \in live \cup {c} : d.msg = e.msg
  BY <1>1 DEF IInv, SameMessage
<1> HIDE DEF live
<1>5. TypeOK'
  <2>1. out' \subseteq Chunks
    BY <1>1, <1>3
  <2>2. spent' \subseteq Chunks
    BY <1>1, <2>1 DEF IInv, TypeOK
  <2> QED
    BY <1>1, <1>2, <2>1, <2>2 DEF IInv, TypeOK
<1>6. PartsOfKey'
  BY <1>1, <1>3 DEF IInv, PartsOfKey
<1>7. OneMessage'
  BY <1>1, <1>2, <1>3, <1>4 DEF OneMessage
<1>8. SameMessage'
  <2> SUFFICES ASSUME NEW k \in Keys \ reused, NEW d \in {e \in wire : e.key = k} \cup LiveParts(k)',
                      NEW f \in {e \in wire : e.key = k} \cup LiveParts(k)'
               PROVE  d.msg = f.msg
    BY <1>2 DEF SameMessage
  <2>1. LiveParts(k)' \subseteq {e \in wire : e.key = k} \cup LiveParts(k)
    <3>1. CASE k = c.key
      BY <1>1, <3>1 DEF LiveParts, live
    <3>2. CASE k # c.key
      BY <1>1, <3>2 DEF LiveParts
    <3> QED
      BY <3>1, <3>2
  <2> QED
    BY <2>1 DEF IInv, SameMessage
<1>9. EachArrivalCountsOnce'
  <2> SUFFICES ASSUME NEW k \in Keys, entries'[k] # None, NEW d \in entries'[k].parts
               PROVE  d \notin spent'
    BY DEF EachArrivalCountsOnce, Occupied
  <2>1. CASE k = c.key
    BY <1>1, <1>3, <2>1
  <2>2. CASE k # c.key
    <3>1. d.key = k /\ d \notin spent
      BY <1>1, <2>2 DEF IInv, PartsOfKey, EachArrivalCountsOnce, Occupied
    <3>2. d \notin out'
      BY <1>1, <1>3, <2>2, <3>1
    <3> QED
      BY <1>1, <3>1, <3>2
  <2> QED
    BY <2>1, <2>2
<1> QED
  BY <1>5, <1>6, <1>7, <1>8, <1>9 DEF IInv

(* A key that is fresh has no chunk that could meet the new ones.           *)
LEMMA SendStep ==
  ASSUME IInv, NEW w \in Writers, NEW m \in Messages, NEW size \in Sizes, NEW data \in DataSizes,
         Send(w, m, size, data)
  PROVE  IInv'
<1> DEFINE k == <<w, NextSeq(w)>>
           new == Split(m, k, size, data)
<1>1. NextSeq(w) \in 0 .. SeqMod - 1 /\ k \in Keys
  BY NumbersAssumption DEF IInv, TypeOK, NextSeq, Keys
<1>2. /\ seq' = [seq EXCEPT ![w] = NextSeq(w)]
      /\ whole' = [whole EXCEPT ![m] = new] /\ wire' = wire \cup new
      /\ reused' = IF Fresh(k) THEN reused \ {k} ELSE reused \cup {k}
      /\ out' = {} /\ entries' = entries /\ spent' = spent
  BY DEF Send
<1>3. new \subseteq Chunks /\ \A c \in new : c.msg = m /\ c.key = k
  BY <1>1, SplitType
<1> HIDE DEF new
<1>4. TypeOK'
  BY <1>1, <1>2, <1>3 DEF IInv, TypeOK
<1>5. SameMessage'
  <2> SUFFICES ASSUME NEW j \in Keys \ reused',
                      NEW c \in {e \in wire \cup new : e.key = j} \cup LiveParts(j),
                      NEW d \in {e \in wire \cup new : e.key = j} \cup LiveParts(j)
               PROVE  c.msg = d.msg
    BY <1>2 DEF SameMessage, LiveParts
  <2>1. CASE j = k
    <3>1. Fresh(k)
      BY <1>2, <2>1
    <3>2. c \in new /\ d \in new
      BY <2>1, <3>1 DEF Fresh, LiveParts
    <3> QED
      BY <1>3, <3>2
  <2>2. CASE j # k
    <3>1. j \notin reused
      BY <1>2, <2>2
    <3>2. /\ c \in {e \in wire : e.key = j} \cup LiveParts(j)
          /\ d \in {e \in wire : e.key = j} \cup LiveParts(j)
      BY <1>3, <2>2
    <3> QED
      BY <3>1, <3>2 DEF IInv, SameMessage
  <2> QED
    BY <2>1, <2>2
<1> QED
  BY <1>2, <1>4, <1>5 DEF IInv, PartsOfKey, OneMessage, EachArrivalCountsOnce, Occupied

(* The other steps only take chunks or entries away, or age them.           *)
LEMMA OtherStep ==
  ASSUME IInv,
         \/ \E w \in Writers : Redeploy(w) \/ SendUnsplit(w)
         \/ \E c \in wire : Lose(c) \/ Reject(c)
         \/ Tick \/ Clear \/ UNCHANGED vars
  PROVE  IInv'
<1>1. /\ seq' \in [Writers -> 0 .. SeqMod - 1] /\ wire' \subseteq wire
      /\ whole' = whole /\ reused' = reused /\ spent' = spent
      /\ out' = {} \/ out' = out
  BY NumbersAssumption DEF IInv, TypeOK, Redeploy, SendUnsplit, NextSeq, Lose, Reject, Tick, Clear, vars, publisher, receiver
<1>2. /\ entries' \in [Keys -> Entries \cup {None}]
      /\ \A k \in Keys : entries'[k] # None =>
           /\ entries[k] # None /\ entries'[k].parts = entries[k].parts
           /\ entries[k].ttl = 0 => entries'[k].ttl = 0
  <2>1. CASE Tick
    <3>1. ASSUME NEW k \in Keys
          PROVE  /\ Aged(entries[k]) \in Entries \cup {None}
                 /\ Aged(entries[k]) # None =>
                      /\ entries[k] # None /\ Aged(entries[k]).parts = entries[k].parts
                      /\ entries[k].ttl = 0 => Aged(entries[k]).ttl = 0
      <4>1. CASE entries[k] = None \/ entries[k].ttl = 0
        BY <4>1 DEF Aged, IInv, TypeOK
      <4>2. CASE entries[k] # None /\ entries[k].ttl # 0
        <5>1. entries[k] \in Entries
          BY <4>2 DEF IInv, TypeOK
        <5>2. Aged(entries[k]) = [entries[k] EXCEPT !.ttl = @ - 1]
          BY <4>2 DEF Aged
        <5> QED
          BY <4>2, <5>1, <5>2, NumbersAssumption DEF Entries
      <4> QED
        BY <4>1, <4>2
    <3> QED
      BY <2>1, <3>1 DEF Tick
  <2>2. CASE Clear
    BY <2>2 DEF Clear
  <2>3. CASE entries' = entries
    BY <2>3 DEF IInv, TypeOK
  <2> QED
    BY <2>1, <2>2, <2>3 DEF Redeploy, SendUnsplit, Lose, Reject, vars, receiver
<1>3. \A k \in Keys : LiveParts(k)' \subseteq LiveParts(k)
  BY <1>2 DEF LiveParts
<1>4. TypeOK'
  BY <1>1, <1>2 DEF IInv, TypeOK
<1>5. SameMessage'
  BY <1>1, <1>3 DEF IInv, SameMessage
<1>6. PartsOfKey' /\ EachArrivalCountsOnce'
  BY <1>1, <1>2 DEF IInv, PartsOfKey, EachArrivalCountsOnce, Occupied
<1>7. OneMessage'
  BY <1>1 DEF IInv, OneMessage
<1> QED
  BY <1>4, <1>5, <1>6, <1>7 DEF IInv

(* The inductive invariant: the parts of a key, and the chunks under way    *)
(* that bear it, belong to one message while the key is not reused.         *)
THEOREM ReassemblyInvariant == Spec => []IInv
<1>1. IInv /\ [Next]_vars => IInv'
  <2> SUFFICES ASSUME IInv, [Next]_vars
               PROVE  IInv'
    OBVIOUS
  <2>1. CASE Sending
    BY <2>1, SendStep, OtherStep DEF Sending
  <2>2. CASE Receiving
    BY <2>2, PushStep, OtherStep DEF Receiving
  <2>3. CASE (\E c \in wire : Lose(c)) \/ Tick \/ Clear \/ UNCHANGED vars
    BY <2>3, OtherStep
  <2> QED
    BY <2>1, <2>2, <2>3 DEF Next
<1> QED
  BY <1>1, Initially, PTL DEF Spec

(* Every variable has its type, and no part outlives its expiry.            *)
THEOREM TypeCorrect == Spec => []TypeOK
<1>1. IInv => TypeOK
  BY DEF IInv
<1> QED
  BY <1>1, ReassemblyInvariant, PTL

(* No buffer mixes two messages, unless a sequence number came round too    *)
(* soon.                                                                    *)
THEOREM NeverMixed == Spec => []OneMessage
<1>1. IInv => OneMessage
  BY DEF IInv
<1> QED
  BY <1>1, ReassemblyInvariant, PTL

(* A chunk that has been returned is not returned again unless it has come  *)
(* again.                                                                   *)
THEOREM ArrivalsCountOnce == Spec => []EachArrivalCountsOnce
<1>1. IInv => EachArrivalCountsOnce
  BY DEF IInv
<1> QED
  BY <1>1, ReassemblyInvariant, PTL

-----------------------------------------------------------------------------
(* The bound of the table.                                                  *)

Bounded == IsFiniteSet(Occupied(entries)) /\ TableBounded

LEMMA SubsetBounded ==
  ASSUME NEW S, NEW T, IsFiniteSet(T), S \subseteq T, Cardinality(T) <= MaxInflight
  PROVE  IsFiniteSet(S) /\ Cardinality(S) <= MaxInflight
<1>1. IsFiniteSet(S) /\ Cardinality(S) <= Cardinality(T)
  BY FS_Subset
<1>2. Cardinality(S) \in Nat /\ Cardinality(T) \in Nat
  BY <1>1, FS_CardinalityType
<1> QED
  BY <1>1, <1>2, NumbersAssumption

(* There is room for the key when the table has been tidied.                *)
LEMMA RoomMade ==
  ASSUME IInv, Bounded, NEW k \in Keys, NEW table \in WithRoom(Swept(entries), k)
  PROVE  /\ IsFiniteSet(Occupied(table) \cup {k})
         /\ Cardinality(Occupied(table) \cup {k}) <= MaxInflight
<1> DEFINE swept == Swept(entries)
<1>1. Occupied(swept) \subseteq Occupied(entries)
  BY DEF Occupied, Swept
<1>2. IsFiniteSet(Occupied(swept)) /\ Cardinality(Occupied(swept)) <= MaxInflight
  BY <1>1, SubsetBounded DEF Bounded, TableBounded
<1>3. Cardinality(Occupied(swept)) \in Nat
  BY <1>2, FS_CardinalityType
<1>4. swept \in [Keys -> Entries \cup {None}]
  BY DEF IInv, TypeOK, Swept
<1> HIDE DEF swept
<1>5. CASE swept[k] # None
  <2>1. table = swept
    BY <1>5 DEF WithRoom, swept
  <2>2. Occupied(table) \cup {k} = Occupied(swept)
    BY <1>5, <2>1 DEF Occupied
  <2> QED
    BY <1>2, <2>2
<1>6. CASE swept[k] = None /\ Full(swept)
  <2>1. PICK o \in Oldest(swept) : table = [swept EXCEPT ![o] = None]
    BY <1>6 DEF WithRoom, swept
  <2>2. o \in Occupied(swept)
    BY DEF Oldest
  <2>3. Occupied(table) = Occupied(swept) \ {o} /\ k \notin Occupied(swept)
    BY <1>4, <1>6, <2>1, <2>2 DEF Occupied
  <2>4. /\ IsFiniteSet(Occupied(table))
        /\ Cardinality(Occupied(table)) = Cardinality(Occupied(swept)) - 1
    BY <1>2, <2>2, <2>3, FS_RemoveElement
  <2>5. /\ IsFiniteSet(Occupied(table) \cup {k})
        /\ Cardinality(Occupied(table) \cup {k}) = Cardinality(Occupied(table)) + 1
    BY <2>3, <2>4, FS_AddElement
  <2> QED
    BY <1>2, <1>3, <2>4, <2>5, NumbersAssumption
<1>7. CASE swept[k] = None /\ ~Full(swept)
  <2>1. table = swept /\ k \notin Occupied(swept)
    BY <1>7 DEF WithRoom, swept, Occupied
  <2>2. Cardinality(Occupied(swept)) < MaxInflight
    BY <1>3, <1>7, NumbersAssumption DEF Full
  <2>3. /\ IsFiniteSet(Occupied(table) \cup {k})
        /\ Cardinality(Occupied(table) \cup {k}) = Cardinality(Occupied(table)) + 1
    BY <1>2, <2>1, FS_AddElement
  <2> QED
    BY <1>3, <2>1, <2>2, <2>3, NumbersAssumption
<1> QED
  BY <1>5, <1>6, <1>7

LEMMA BoundedStep ==
  ASSUME IInv, Bounded, [Next]_vars
  PROVE  Bounded'
<1>1. CASE Occupied(entries)' \subseteq Occupied(entries)
  BY <1>1, SubsetBounded DEF Bounded, TableBounded
<1>2. ASSUME NEW c \in wire, Push(c)
      PROVE  Bounded'
  <2>1. c.key \in Keys
    BY DEF IInv, TypeOK, Chunks
  <2>2. PICK table \in WithRoom(Swept(entries), c.key) :
          IF c.offset + c.len > c.total
          THEN entries' = table /\ out' = {} /\ UNCHANGED spent
          ELSE Record(table, c, Recorded(Entry(table, c), c))
    BY <1>2 DEF Push
  <2>3. table \in [Keys -> Entries \cup {None}]
    BY <2>1, Tidied
  <2>4. /\ IsFiniteSet(Occupied(table) \cup {c.key})
        /\ Cardinality(Occupied(table) \cup {c.key}) <= MaxInflight
    BY <2>1, RoomMade
  <2>5. \/ entries' = table
        \/ \E entry : entries' = [table EXCEPT ![c.key] = entry]
    BY <2>2 DEF Record, Removed
  <2>6. Occupied(entries)' \subseteq Occupied(table) \cup {c.key}
    BY <2>1, <2>3, <2>5 DEF Occupied
  <2> QED
    BY <2>4, <2>6, SubsetBounded DEF Bounded, TableBounded
<1>3. CASE Tick
  <2>1. Occupied(entries)' \subseteq Occupied(entries)
    BY <1>3 DEF Tick, Occupied, Aged
  <2> QED
    BY <1>1, <2>1
<1>4. CASE Clear
  <2>1. Occupied(entries)' \subseteq Occupied(entries)
    BY <1>4 DEF Clear, Occupied
  <2> QED
    BY <1>1, <2>1
<1>5. CASE UNCHANGED entries
  BY <1>1, <1>5 DEF Occupied
<1> QED
  BY <1>2, <1>3, <1>4, <1>5 DEF Next, Sending, Receiving, Send, SendUnsplit, Redeploy, Reject, Lose, vars, receiver

(* There are never more incomplete messages than the table is allowed,      *)
(* whatever is received.                                                    *)
THEOREM TableIsBounded == Spec => []TableBounded
<1>1. Init => Bounded
  <2> SUFFICES ASSUME Init
               PROVE  Bounded
    OBVIOUS
  <2>1. Occupied(entries) = {}
    BY DEF Init, Occupied
  <2> QED
    BY <2>1, FS_EmptySet, NumbersAssumption DEF Bounded, TableBounded
<1>2. Bounded => TableBounded
  BY DEF Bounded
<1> QED
  BY <1>1, <1>2, BoundedStep, ReassemblyInvariant, PTL DEF Spec

-----------------------------------------------------------------------------
(* Bytes and lengths.                                                       *)

(* Every nonempty set of natural numbers has a least element.               *)
LEMMA LeastOf ==
  ASSUME NEW S, S \subseteq Nat, S # {}
  PROVE  \E x \in S : \A y \in S : x <= y
<1>1. PICK x \in S : \A y \in S : ~(<<y, x>> \in OpToRel(<, Nat))
  BY WFMin, NatLessThanWellFounded
<1>2. \A y \in S : ~(y < x)
  BY <1>1 DEF OpToRel
<1> QED
  BY <1>2

(* And one that is bounded has a greatest.                                  *)
LEMMA GreatestOf ==
  ASSUME NEW S, S \subseteq Nat, S # {}, NEW b \in Nat, \A x \in S : x <= b
  PROVE  \E x \in S : \A y \in S : y <= x
<1> DEFINE T == {b - x : x \in S}
<1>1. T \subseteq Nat /\ T # {}
  <2>1. \A x \in S : b - x \in Nat
    OBVIOUS
  <2> QED
    BY <2>1
<1> HIDE DEF T
<1>2. PICK t \in T : \A y \in T : t <= y
  BY <1>1, LeastOf
<1>3. PICK x \in S : t = b - x
  BY DEF T
<1>4. ASSUME NEW y \in S PROVE y <= x
  <2>1. b - y \in T
    BY DEF T
  <2>2. t <= b - y
    BY <1>2, <2>1
  <2> QED
    BY <1>3, <2>2
<1> QED
  BY <1>4

(* Finitely many parts, none of them empty.                                 *)
Sized(S) == IsFiniteSet(S) /\ \A p \in S : p.len \in Nat /\ p.len > 0

(* They have finitely many bytes.                                           *)
LEMMA BytesFinite ==
  ASSUME NEW S, Sized(S)
  PROVE  IsFiniteSet(Bytes(S)) /\ Length(S) \in Nat
<1> DEFINE B(p) == {p} \X (1 .. p.len)
<1>1. \A p \in S : IsFiniteSet(B(p))
  <2> TAKE p \in S
  <2>1. IsFiniteSet(1 .. p.len)
    BY FS_Interval DEF Sized
  <2>2. IsFiniteSet({p})
    BY FS_Singleton
  <2> QED
    BY <2>1, <2>2, FS_Product
<1>2. IsFiniteSet({B(p) : p \in S})
  <2> HIDE DEF B
  <2> DEFINE f == [p \in S |-> B(p)]
             T == {B(p) : p \in S}
  <2>1. f \in Surjection(S, T)
    BY DEF Surjection
  <2> HIDE DEF f, T
  <2>2. IsFiniteSet(T)
    BY <2>1, FS_Surjection DEF Sized
  <2> QED
    BY <2>2 DEF T
<1>3. IsFiniteSet(Bytes(S))
  <2> HIDE DEF B
  <2>1. \A T \in {B(p) : p \in S} : IsFiniteSet(T)
    BY <1>1
  <2>2. IsFiniteSet(UNION {B(p) : p \in S})
    BY <1>2, <2>1, FS_UNION
  <2> QED
    BY <2>2 DEF Bytes, B
<1> QED
  BY <1>3, FS_CardinalityType DEF Length

LEMMA SizedSubset ==
  ASSUME NEW S, Sized(S), NEW T, T \subseteq S
  PROVE  Sized(T)
BY FS_Subset DEF Sized

(* Fewer parts, fewer bytes.                                                *)
LEMMA LengthGrows ==
  ASSUME NEW S, Sized(S), NEW T, T \subseteq S
  PROVE  /\ Length(T) <= Length(S)
         /\ Length(T) = Length(S) => T = S
<1>1. Bytes(T) \subseteq Bytes(S)
  BY DEF Bytes
<1>2. IsFiniteSet(Bytes(S))
  BY BytesFinite
<1>3. ASSUME Length(T) = Length(S) PROVE T = S
  <2>1. Bytes(T) = Bytes(S)
    BY <1>1, <1>2, <1>3, FS_Subset DEF Length
  <2>2. ASSUME NEW p \in S PROVE p \in T
    <3>1. <<p, 1>> \in Bytes(S)
      BY DEF Bytes, Sized
    <3>2. <<p, 1>> \in Bytes(T)
      BY <2>1, <3>1
    <3> QED
      BY <3>2 DEF Bytes
  <2> QED
    BY <2>2
<1> QED
  BY <1>1, <1>2, <1>3, FS_Subset DEF Length

LEMMA LengthOfNone == Length({}) = 0
<1>1. Bytes({}) = {}
  BY DEF Bytes
<1> QED
  BY <1>1, FS_EmptySet DEF Length

(* One part more adds its length.                                           *)
LEMMA LengthAdds ==
  ASSUME NEW S, Sized(S), NEW p, p \notin S, p.len \in Nat, p.len > 0
  PROVE  Sized(S \cup {p}) /\ Length(S \cup {p}) = Length(S) + p.len
<1> DEFINE own == {p} \X (1 .. p.len)
<1>1. IsFiniteSet(1 .. p.len) /\ Cardinality(1 .. p.len) = p.len
  <2>1. 1 \in Int /\ p.len \in Int /\ ~(1 > p.len)
    OBVIOUS
  <2>2. IsFiniteSet(1 .. p.len) /\ Cardinality(1 .. p.len) = p.len - 1 + 1
    BY <2>1, FS_Interval
  <2> QED
    BY <2>2
<1>2. IsFiniteSet(own) /\ Cardinality(own) = p.len
  <2>1. IsFiniteSet({p}) /\ Cardinality({p}) = 1
    BY FS_Singleton
  <2>2. IsFiniteSet(own) /\ Cardinality(own) = 1 * p.len
    BY <1>1, <2>1, FS_Product
  <2> QED
    BY <2>2
<1>3. Bytes(S \cup {p}) = Bytes(S) \cup own /\ Bytes(S) \cap own = {}
  BY DEF Bytes
<1>4. Sized(S \cup {p})
  BY FS_AddElement DEF Sized
<1> HIDE DEF own
<1>5. Cardinality(Bytes(S) \cup own) = Cardinality(Bytes(S)) + Cardinality(own) - Cardinality({})
  BY <1>2, <1>3, BytesFinite, FS_Union
<1>6. Cardinality({}) = 0
  BY FS_EmptySet
<1>7. Cardinality(Bytes(S)) \in Nat
  BY BytesFinite DEF Length
<1>8. Cardinality(Bytes(S \cup {p})) = Cardinality(Bytes(S)) + p.len
  <2>1. Cardinality(Bytes(S \cup {p})) = Cardinality(Bytes(S) \cup own)
    BY <1>3, Zenon
  <2> QED
    BY <2>1, <1>2, <1>5, <1>6, <1>7
<1> QED
  BY <1>4, <1>8 DEF Length

(* Each part starts where those before it end.                              *)
Tiled(S) == \A p \in S : p.offset = Length({q \in S : q.offset < p.offset})

(* No two parts start at the same byte.                                     *)
Placed(S) ==
  /\ Sized(S) /\ \A p \in S : p.offset \in Nat
  /\ \A p, q \in S : p.offset = q.offset => p = q

(* Where the parts up to one of them end.                                   *)
LEMMA PartEnds ==
  ASSUME NEW S, Placed(S), Tiled(S), NEW p \in S
  PROVE  Length({q \in S : q.offset <= p.offset}) = p.offset + p.len
<1> DEFINE before == {q \in S : q.offset < p.offset}
<1>1. {q \in S : q.offset <= p.offset} = before \cup {p}
  BY DEF Placed
<1>2. p.len \in Nat /\ p.len > 0 /\ p \notin before
  BY DEF Placed, Sized
<1>3. Sized(before)
  BY SizedSubset DEF Placed
<1>4. Length(before) = p.offset
  BY DEF Tiled
<1> HIDE DEF before
<1>5. Length(before \cup {p}) = Length(before) + p.len
  BY <1>2, <1>3, LengthAdds
<1> QED
  BY <1>1, <1>4, <1>5

LEMMA PartsDoNotOverlap ==
  ASSUME NEW S, Placed(S), Tiled(S), NEW p \in S, NEW q \in S, p.offset < q.offset
  PROVE  p.offset + p.len <= q.offset
<1> DEFINE before == {r \in S : r.offset < q.offset}
           upTo == {r \in S : r.offset <= p.offset}
<1>1. Length(upTo) = p.offset + p.len
  BY PartEnds
<1>2. Length(before) = q.offset
  BY DEF Tiled
<1>3. upTo \subseteq before
  BY DEF Placed
<1>4. Sized(before)
  BY SizedSubset DEF Placed
<1> HIDE DEF before, upTo
<1> QED
  BY <1>1, <1>2, <1>3, <1>4, LengthGrows

Holding(S, byte) == {p \in S : byte \in p.offset .. p.offset + p.len - 1}

(* Parts that each start where those before them end hold each byte, up to  *)
(* their length, once.                                                      *)
LEMMA TiledIsContiguous ==
  ASSUME NEW S, Placed(S), Tiled(S), NEW byte \in 0 .. Length(S) - 1
  PROVE  Cardinality(Holding(S, byte)) = 1
<1>1. ASSUME NEW p \in Holding(S, byte), NEW q \in Holding(S, byte)
      PROVE  p = q
  <2>1. /\ p \in S /\ p.offset \in Nat /\ p.len \in Nat
        /\ p.offset <= byte /\ byte < p.offset + p.len
    BY DEF Holding, Placed, Sized
  <2>2. /\ q \in S /\ q.offset \in Nat /\ q.len \in Nat
        /\ q.offset <= byte /\ byte < q.offset + q.len
    BY DEF Holding, Placed, Sized
  <2>3. CASE p.offset < q.offset
    BY <2>1, <2>2, <2>3, PartsDoNotOverlap
  <2>4. CASE q.offset < p.offset
    BY <2>1, <2>2, <2>4, PartsDoNotOverlap
  <2>5. CASE p.offset = q.offset
    BY <2>1, <2>2, <2>5 DEF Placed
  <2> QED
    BY <2>1, <2>2, <2>3, <2>4, <2>5
<1>2. ASSUME Holding(S, byte) = {}
      PROVE  FALSE
  <2> DEFINE below == {q \in S : q.offset <= byte}
  <2>0. Length(S) \in Nat /\ byte \in Nat /\ byte < Length(S)
    BY BytesFinite DEF Placed
  <2>1. Length(below) <= byte
    <3>1. CASE below = {}
      <4> HIDE DEF below
      <4> QED
        BY <2>0, <3>1, LengthOfNone
    <3>2. CASE below # {}
      <4> DEFINE offsets == {q.offset : q \in below}
      <4>1. offsets \subseteq Nat /\ offsets # {} /\ \A x \in offsets : x <= byte
        BY <3>2 DEF Placed
      <4> HIDE DEF offsets
      <4>2. PICK last \in offsets : \A x \in offsets : x <= last
        BY <2>0, <4>1, GreatestOf
      <4>3. PICK p \in below : last = p.offset
        BY DEF offsets
      <4>4. p \in S /\ p.offset \in Nat /\ p.len \in Nat /\ p.offset <= byte
        BY DEF Placed, Sized
      <4>5. below = {q \in S : q.offset <= p.offset}
        <5>1. \A q \in below : q.offset <= p.offset
          BY <4>2, <4>3 DEF offsets
        <5>2. \A q \in S : q.offset <= p.offset => q.offset <= byte
          BY <4>4, <2>0 DEF Placed
        <5> QED
          BY <5>1, <5>2
      <4>6. Length(below) = p.offset + p.len
        <5> HIDE DEF below
        <5> QED
          BY <4>4, <4>5, PartEnds
      <4>7. ~(byte < p.offset + p.len)
        BY <1>2, <2>0, <4>4 DEF Holding
      <4> QED
        BY <2>0, <4>4, <4>6, <4>7
    <3> QED
      BY <3>1, <3>2
  <2>2. CASE below = S
    <3> HIDE DEF below
    <3> QED
      BY <2>0, <2>1, <2>2
  <2>3. CASE below # S
    <3> DEFINE offsets == {q.offset : q \in S \ below}
    <3>1. offsets \subseteq Nat /\ offsets # {}
      BY <2>3 DEF Placed
    <3> HIDE DEF offsets
    <3>2. PICK first \in offsets : \A x \in offsets : first <= x
      BY <3>1, LeastOf
    <3>3. PICK r \in S \ below : first = r.offset
      BY DEF offsets
    <3>4. r.offset \in Nat /\ byte < r.offset
      BY <2>0, <3>3 DEF Placed
    <3>5. {q \in S : q.offset < r.offset} = below
      <4>1. \A q \in S : q.offset \in Nat
        BY DEF Placed
      <4>2. \A q \in S \ below : ~(q.offset < r.offset)
        BY <3>2, <3>3, <4>1, <3>4 DEF offsets
      <4>3. \A q \in below : q.offset < r.offset
        BY <2>0, <3>4, <4>1
      <4> QED
        BY <4>2, <4>3
    <3>6. r.offset = Length(below)
      <4>1. r.offset = Length({q \in S : q.offset < r.offset})
        BY <3>3 DEF Tiled
      <4> HIDE DEF below
      <4> QED
        BY <4>1, <3>5
    <3> HIDE DEF below
    <3> QED
      BY <2>0, <2>1, <3>4, <3>6
  <2> QED
    BY <2>2, <2>3
<1>3. PICK p \in Holding(S, byte) : TRUE
  BY <1>2
<1>4. Holding(S, byte) = {p}
  BY <1>1
<1> QED
  BY <1>4, FS_Singleton

-----------------------------------------------------------------------------
(* The chunks of a message.                                                 *)

LEMMA Division ==
  ASSUME NEW a \in Nat, NEW d \in Nat, d > 0
  PROVE  /\ a \div d \in Nat
         /\ (a \div d) * d <= a
         /\ a < (a \div d) * d + d
OBVIOUS

LEMMA Multiples ==
  ASSUME NEW i \in Nat, NEW h \in Nat, NEW d \in Nat
  PROVE  /\ i * d \in Nat
         /\ i <= h => i * d <= h * d
         /\ i < h => i * d + d <= h * d
<1>1. i * d \in Nat /\ h * d \in Nat
  OBVIOUS
<1>2. ASSUME i <= h PROVE i * d <= h * d
  <2>1. (h - i) * d \in Nat
    BY <1>2
  <2>2. (h - i) * d = h * d - i * d
    OBVIOUS
  <2> QED
    BY <1>1, <2>1, <2>2
<1>3. ASSUME i < h PROVE i * d + d <= h * d
  <2>1. (h - i - 1) * d \in Nat
    BY <1>3
  <2>2. (h - i - 1) * d = h * d - i * d - d
    OBVIOUS
  <2> QED
    BY <1>1, <2>1, <2>2
<1> QED
  BY <1>1, <1>2, <1>3

Piece(m, key, size, data, i) ==
  [msg |-> m, key |-> key, total |-> size, offset |-> i * data,
   len |-> Min({data, size - i * data})]

LEMMA MinOfTwo ==
  ASSUME NEW a \in Int, NEW b \in Int
  PROVE  Min({a, b}) = IF a <= b THEN a ELSE b
<1>1. \A x \in {a, b} : (\A y \in {a, b} : x =< y) <=> x = (IF a <= b THEN a ELSE b)
  OBVIOUS
<1>2. (IF a <= b THEN a ELSE b) \in {a, b}
  OBVIOUS
<1> DEFINE least == IF a <= b THEN a ELSE b
<1> HIDE DEF least
<1>3. \A x \in {a, b} : (\A y \in {a, b} : x =< y) <=> x = least
  BY <1>1 DEF least
<1>4. least \in {a, b}
  BY <1>2 DEF least
<1>5. Min({a, b}) = least
  BY <1>3, <1>4, Zenon DEF Min
<1> QED
  BY <1>5 DEF least

LEMMA PieceIsInside ==
  ASSUME NEW m, NEW key, NEW size \in Nat, NEW data \in Nat, data > 0, size > 0,
         NEW i \in 0 .. ((size - 1) \div data)
  PROVE  LET c == Piece(m, key, size, data, i)
         IN  /\ c.offset \in Nat /\ c.offset = i * data
             /\ c.len \in Nat /\ c.len > 0 /\ c.len <= data /\ c.offset + c.len <= size
             /\ c.len = data \/ c.offset + c.len = size
             /\ c.total = size /\ c.msg = m
<1>1. (size - 1) \div data \in Nat /\ ((size - 1) \div data) * data <= size - 1
  BY Division
<1>2. i * data \in Nat /\ i * data <= ((size - 1) \div data) * data
  BY <1>1, Multiples
<1>3. i * data <= size - 1
  BY <1>1, <1>2
<1>4. Min({data, size - i * data}) = IF data <= size - i * data THEN data ELSE size - i * data
  BY <1>2, MinOfTwo
<1> DEFINE at == i * data
<1> HIDE DEF at
<1> QED
  BY <1>2, <1>3, <1>4 DEF Piece, at

(* The chunks are as long as the message, and none of them is empty.        *)
LEMMA SplitIsWhole ==
  ASSUME NEW m \in Messages, NEW key \in Keys, NEW size \in Sizes, NEW data \in DataSizes
  PROVE  LET S == Split(m, key, size, data)
         IN  /\ Sized(S) /\ Length(S) = size
             /\ \A c \in S : c.offset \in Nat /\ c.msg = m /\ c.total = size
                             /\ c.offset + c.len <= size
<1> DEFINE S == Split(m, key, size, data)
           last == (size - 1) \div data
           P(i) == Piece(m, key, size, data, i)
<1>1. size \in Nat /\ size > 0 /\ data \in Nat /\ data > 0 /\ last \in Nat
  <2>1. size \in Nat /\ size > 0 /\ data \in Nat /\ data > 0
    BY NumbersAssumption
  <2> QED
    BY <2>1, Division
<1>2. S = {P(i) : i \in 0 .. last}
  BY DEF Split, Piece
<1>3. \A i \in 0 .. last :
        /\ P(i).offset \in Nat /\ P(i).offset = i * data
        /\ P(i).len \in Nat /\ P(i).len > 0 /\ P(i).len <= data /\ P(i).offset + P(i).len <= size
        /\ P(i).len = data \/ P(i).offset + P(i).len = size
        /\ P(i).total = size /\ P(i).msg = m
  BY <1>1, PieceIsInside
<1> HIDE DEF S, P
<1>4. \A c \in S : /\ c.offset \in Nat /\ c.len \in Nat /\ c.len > 0 /\ c.offset + c.len <= size
                   /\ c.msg = m /\ c.total = size
  BY <1>2, <1>3
<1>5. IsFiniteSet(S)
  <2> DEFINE f == [i \in 0 .. last |-> P(i)]
  <2>1. f \in Surjection(0 .. last, S)
    BY <1>2 DEF Surjection
  <2>2. IsFiniteSet(0 .. last)
    BY <1>1, FS_Interval
  <2> HIDE DEF f
  <2> QED
    BY <2>1, <2>2, FS_Surjection
<1>6. Cardinality(Bytes(S)) = size
  <2> DEFINE f == [b \in Bytes(S) |-> b[1].offset + b[2]]
  <2>0. \A b \in Bytes(S) : \E i \in 0 .. last, j \in Nat :
           b = <<P(i), j>> /\ 1 <= j /\ j <= P(i).len
    BY <1>2, <1>4 DEF Bytes
  <2>1. ASSUME NEW b \in Bytes(S)
        PROVE  f[b] \in 1 .. size
    BY <2>0, <1>3, <1>1
  <2>2. ASSUME NEW b \in Bytes(S), NEW d \in Bytes(S), f[b] = f[d]
        PROVE  b = d
    <3>1. PICK i \in 0 .. last, j \in Nat : b = <<P(i), j>> /\ 1 <= j /\ j <= P(i).len
      BY <2>0
    <3>2. PICK h \in 0 .. last, l \in Nat : d = <<P(h), l>> /\ 1 <= l /\ l <= P(h).len
      BY <2>0
    <3>3. f[b] = i * data + j /\ j <= data /\ i * data \in Nat /\ i \in Nat
      BY <1>1, <1>3, <3>1
    <3>4. f[d] = h * data + l /\ l <= data /\ h * data \in Nat /\ h \in Nat
      BY <1>1, <1>3, <3>2
    <3>5. ~(i < h) /\ ~(h < i)
      <4>1. i < h => i * data + data <= h * data
        BY <1>1, <3>3, <3>4, Multiples
      <4>2. h < i => h * data + data <= i * data
        BY <1>1, <3>3, <3>4, Multiples
      <4> QED
        BY <1>1, <2>2, <3>1, <3>2, <3>3, <3>4, <4>1, <4>2
    <3>6. i = h
      BY <3>3, <3>4, <3>5
    <3>7. j = l
      BY <2>2, <3>3, <3>4, <3>6
    <3> QED
      BY <3>1, <3>2, <3>6, <3>7
  <2>3. ASSUME NEW n \in 1 .. size
        PROVE  \E b \in Bytes(S) : f[b] = n
    <3> DEFINE i == (n - 1) \div data
               at == i * data
    <3>1. i \in Nat /\ at <= n - 1 /\ n - 1 < at + data
      BY <1>1, Division
    <3>2. at \in Nat
      BY <1>1, <3>1, Multiples
    <3>3. last * data + data > size - 1 /\ last * data \in Nat
      BY <1>1, Division, Multiples
    <3>4. i <= last
      <4>1. last < i => last * data + data <= at
        BY <1>1, <3>1, Multiples
      <4> HIDE DEF last, i, at
      <4> QED
        BY <1>1, <3>1, <3>2, <3>3, <4>1
    <3> DEFINE c == P(i)
               j == n - at
    <3>5. i \in 0 .. last
      BY <1>1, <3>1, <3>4
    <3>6. /\ c.offset = at /\ c.len \in Nat /\ c.len <= data
          /\ c.len = data \/ c.offset + c.len = size
      BY <1>3, <3>5
    <3>7. c \in S
      BY <1>2, <3>5
    <3> HIDE DEF i, at, c
    <3>8. j \in 1 .. c.len
      BY <1>1, <3>1, <3>2, <3>6
    <3>9. <<c, j>> \in Bytes(S)
      BY <3>7, <3>8 DEF Bytes
    <3>10. f[<<c, j>>] = c.offset + j
      BY <3>9
    <3>11. c.offset + j = n
      BY <3>2, <3>6
    <3> HIDE DEF f, j
    <3> QED
      BY <3>9, <3>10, <3>11
  <2>4. f \in Injection(Bytes(S), 1 .. size)
    BY <2>1, <2>2 DEF Injection, IsInjective
  <2>5. f \in Surjection(Bytes(S), 1 .. size)
    BY <2>1, <2>3 DEF Surjection
  <2>6. IsFiniteSet(1 .. size) /\ Cardinality(1 .. size) = size
    BY <1>1, FS_Interval
  <2> HIDE DEF f
  <2> QED
    BY <2>4, <2>5, <2>6, FS_Injection
<1> QED
  BY <1>4, <1>5, <1>6 DEF Sized, Length, S

-----------------------------------------------------------------------------
(* Reassembly is exact.                                                     *)

(* An entry waits for more: its parts, by offset, are not yet as long as    *)
(* its message.                                                             *)
Waiting(entry) ==
  /\ IsFiniteSet(entry.parts) /\ entry.parts # {} /\ ~Complete(entry)
  /\ \A p, q \in entry.parts : p.offset = q.offset => p = q

(* Nobody but the publishers makes chunks.                                  *)
Genuine(parts) == \A c \in parts : c \in whole[c.msg]

WholeIsSplit ==
  \A m \in Messages : whole[m] = {} \/
    \E k \in Keys, size \in Sizes, data \in DataSizes : whole[m] = Split(m, k, size, data)

AllGenuine == Genuine(wire) /\ \A k \in Occupied(entries) : Genuine(entries[k].parts)

AllWaiting == \A k \in Occupied(entries) : Waiting(entries[k])

(* The total is that of the parts, while the key is not reused.             *)
TotalKnown ==
  \A k \in Keys \ reused : \A c \in LiveParts(k) : c.total = entries[k].total

Accounted == WholeIsSplit /\ AllGenuine /\ AllWaiting /\ TotalKnown

(* All of a message's chunks have its size and are of some length.          *)
LEMMA WholeFacts ==
  ASSUME TypeOK, WholeIsSplit, NEW m \in Messages, whole[m] # {}
  PROVE  \E size \in Nat :
           /\ Sized(whole[m]) /\ Length(whole[m]) = size
           /\ \A c \in whole[m] : c.offset \in Nat /\ c.msg = m /\ c.total = size
<1>1. PICK k \in Keys, size \in Sizes, data \in DataSizes : whole[m] = Split(m, k, size, data)
  BY DEF WholeIsSplit
<1>2. size \in Nat
  BY NumbersAssumption
<1> QED
  BY <1>1, <1>2, SplitIsWhole

(* So have all the chunks there are.                                        *)
LEMMA GenuineFacts ==
  ASSUME TypeOK, WholeIsSplit, NEW parts \in SUBSET Chunks, Genuine(parts)
  PROVE  /\ \A c \in parts : c.offset \in Nat /\ c.len \in Nat /\ c.len > 0
         /\ \A c, d \in parts : c.msg = d.msg => c.total = d.total
<1>1. ASSUME NEW c \in parts
      PROVE  /\ c.msg \in Messages /\ c \in whole[c.msg]
             /\ \E size \in Nat :
                  /\ Sized(whole[c.msg])
                  /\ \A d \in whole[c.msg] : d.offset \in Nat /\ d.msg = c.msg /\ d.total = size
  <2>1. c.msg \in Messages /\ c \in whole[c.msg]
    BY DEF Genuine, Chunks
  <2> QED
    BY <2>1, WholeFacts
<1> QED
  BY <1>1 DEF Sized

LEMMA AccountedInitially == Init => Accounted
<1> SUFFICES ASSUME Init
             PROVE  Accounted
  OBVIOUS
<1>1. Occupied(entries) = {} /\ wire = {} /\ \A m \in Messages : whole[m] = {}
  BY DEF Init, Occupied
<1> QED
  BY <1>1 DEF Accounted, WholeIsSplit, AllGenuine, Genuine, AllWaiting, TotalKnown, LiveParts, Occupied

(* No room is made at the cost of the entry that it is made for.            *)
LEMMA OwnEntryKept ==
  ASSUME IInv, NEW k \in Keys, NEW table \in WithRoom(Swept(entries), k), table[k] = None
  PROVE  LiveParts(k) = {}
<1> DEFINE swept == Swept(entries)
<1>1. swept \in [Keys -> Entries \cup {None}]
  BY DEF IInv, TypeOK, Swept
<1>2. swept[k] = None => LiveParts(k) = {}
  BY DEF Swept, LiveParts
<1> HIDE DEF swept
<1>3. swept[k] # None => table = swept
  BY DEF WithRoom, swept
<1> QED
  BY <1>2, <1>3

(* What a chunk does to the entry of its key: it leaves it, or it becomes   *)
(* one of its parts, and is returned with the others or waits.              *)
LEMMA Taken ==
  ASSUME IInv, AllWaiting, NEW c \in wire, Push(c)
  PROVE  \/ /\ out' = {}
            /\ \A k \in Keys : entries'[k] = None \/ (entries'[k] = entries[k] /\ entries[k].ttl # 0)
         \/ \E entry \in Entries :
              /\ \A k \in Keys \ {c.key} :
                   entries'[k] = None \/ (entries'[k] = entries[k] /\ entries[k].ttl # 0)
              /\ c \in entry.parts /\ entry.parts \subseteq LiveParts(c.key) \cup {c}
              /\ IsFiniteSet(entry.parts)
              /\ \A p, q \in entry.parts : p.offset = q.offset => p = q
              /\ LiveParts(c.key) = {} => entry.total = c.total
              /\ LiveParts(c.key) # {} => entry.total = entries[c.key].total
              /\ \/ /\ Complete(entry) /\ entries'[c.key] = None
                    /\ out' = IF Tiles(entry) THEN entry.parts ELSE {}
                 \/ ~Complete(entry) /\ entries'[c.key] = entry /\ out' = {}
<1>1. c \in Chunks /\ c.key \in Keys
  BY DEF IInv, TypeOK, Chunks
<1> PICK table \in WithRoom(Swept(entries), c.key) :
       IF c.offset + c.len > c.total
       THEN entries' = table /\ out' = {} /\ UNCHANGED spent
       ELSE Record(table, c, Recorded(Entry(table, c), c))
  BY DEF Push
<1>2. /\ table \in [Keys -> Entries \cup {None}]
      /\ \A k \in Keys : table[k] = None \/ (table[k] = entries[k] /\ entries[k].ttl # 0)
  BY <1>1, Tidied
<1>3. CASE c.offset + c.len > c.total
  BY <1>2, <1>3
<1>4. CASE ~(c.offset + c.len > c.total)
  <2> DEFINE old == Entry(table, c)
             entry == Recorded(old, c)
  <2>0. Record(table, c, entry)
    BY <1>4
  <2>1. /\ old \in Entries /\ old.parts \subseteq LiveParts(c.key)
        /\ IsFiniteSet(old.parts)
        /\ \A p, q \in old.parts : p.offset = q.offset => p = q
        /\ LiveParts(c.key) = {} => old.total = c.total
        /\ LiveParts(c.key) # {} => old.total = entries[c.key].total
    <3>1. CASE table[c.key] = None
      <4>1. old = [total |-> c.total, parts |-> {}, ttl |-> Expiry]
        BY <3>1 DEF Entry
      <4>2. LiveParts(c.key) = {}
        BY <1>1, <3>1, OwnEntryKept
      <4>3. old \in Entries
        BY <1>1, <4>1, NumbersAssumption DEF Entries, Chunks
      <4> HIDE DEF old
      <4>4. IsFiniteSet(old.parts)
        BY <4>1, FS_EmptySet
      <4> QED
        BY <4>1, <4>2, <4>3, <4>4
    <3>2. CASE table[c.key] # None
      BY <1>1, <1>2, <3>2 DEF Entry, LiveParts, AllWaiting, Waiting, Occupied
    <3> QED
      BY <3>1, <3>2
  <2> HIDE DEF old
  <2>2. /\ entry \in Entries /\ entry.total = old.total
        /\ entry.parts = {p \in old.parts : p.offset # c.offset} \cup {c}
    BY <1>1, <2>1 DEF Recorded, Entries
  <2>3. IsFiniteSet(entry.parts)
    <3> DEFINE rest == {p \in old.parts : p.offset # c.offset}
    <3>1. IsFiniteSet(rest)
      BY <2>1, FS_Subset
    <3> HIDE DEF rest
    <3>2. IsFiniteSet(rest \cup {c})
      BY <3>1, FS_AddElement
    <3> QED
      BY <2>2, <3>2 DEF rest
  <2> HIDE DEF entry
  <2>4. \/ /\ Complete(entry) /\ entries'[c.key] = None
           /\ out' = IF Tiles(entry) THEN entry.parts ELSE {}
        \/ ~Complete(entry) /\ entries'[c.key] = entry /\ out' = {}
    BY <1>1, <1>2, <2>0 DEF Record, Removed
  <2>5. \A k \in Keys \ {c.key} : entries'[k] = table[k]
    BY <1>2, <2>0 DEF Record, Removed
  <2> QED
    BY <1>2, <2>1, <2>2, <2>3, <2>4, <2>5
<1> QED
  BY <1>3, <1>4

(* What is returned now is a message, in one piece.                         *)
Returned == ReturnedIsSent /\ ReturnedIsContiguous

LEMMA NothingReturned == out = {} => Returned
<1>1. out = {} => 0 .. Length(out) - 1 = {}
  BY LengthOfNone
<1> QED
  BY <1>1, Zenon DEF Returned, ReturnedIsSent, ReturnedIsContiguous

(* The parts of an entry that a chunk has joined.                           *)
LEMMA JoinedParts ==
  ASSUME IInv, Accounted, NEW c \in wire, c.key \in Keys, NEW entry \in Entries,
         c \in entry.parts, entry.parts \subseteq LiveParts(c.key) \cup {c},
         LiveParts(c.key) = {} => entry.total = c.total,
         LiveParts(c.key) # {} => entry.total = entries[c.key].total
  PROVE  /\ Genuine(entry.parts)
         /\ \A p \in entry.parts : /\ p.offset \in Nat /\ p.len \in Nat /\ p.len > 0
                                   /\ p.key = c.key
         /\ c.key \notin reused =>
              \A p \in entry.parts : p.msg = c.msg /\ p.total = entry.total
<1> DEFINE live == LiveParts(c.key)
<1>1. /\ Genuine(live \cup {c}) /\ live \cup {c} \subseteq Chunks
      /\ \A p \in live \cup {c} : p.key = c.key
  BY DEF Accounted, AllGenuine, Genuine, LiveParts, Occupied, IInv, TypeOK, Entries, PartsOfKey
<1>2. c.key \notin reused => /\ \A p, q \in live \cup {c} : p.msg = q.msg
                            /\ \A p \in live : p.total = entries[c.key].total
  BY DEF IInv, SameMessage, Accounted, TotalKnown
<1> HIDE DEF live
<1>3. /\ \A p \in live \cup {c} : p.offset \in Nat /\ p.len \in Nat /\ p.len > 0
      /\ \A p, q \in live \cup {c} : p.msg = q.msg => p.total = q.total
  BY <1>1, GenuineFacts DEF IInv, Accounted
<1>4. /\ live = {} => entry.total = c.total
      /\ live # {} => entry.total = entries[c.key].total
  BY DEF live
<1>5. entry.parts \subseteq live \cup {c}
  BY DEF live
<1>6. c.key \notin reused => \A p \in live \cup {c} : p.msg = c.msg /\ p.total = entry.total
  <2> SUFFICES ASSUME c.key \notin reused, NEW p \in live \cup {c}
               PROVE  p.msg = c.msg /\ p.total = entry.total
    OBVIOUS
  <2>1. p.msg = c.msg /\ p.total = c.total
    BY <1>2, <1>3
  <2>2. CASE live = {}
    BY <1>4, <2>1, <2>2
  <2>3. CASE live # {}
    <3>1. PICK q \in live : TRUE
      BY <2>3
    <3>2. q.total = c.total /\ q.total = entries[c.key].total
      BY <1>2, <1>3
    <3> QED
      BY <1>4, <2>1, <2>3, <3>2
  <2> QED
    BY <2>2, <2>3
<1> QED
  BY <1>1, <1>3, <1>5, <1>6 DEF Genuine

(* A chunk that is received.                                                *)
LEMMA AccountedPush ==
  ASSUME IInv, Accounted, NEW c \in wire, Push(c)
  PROVE  Accounted' /\ Returned'
<1>0. ASSUME out' = {}
      PROVE  Returned'
  <2>1. 0 .. Length(out') - 1 = {}
    BY <1>0, LengthOfNone
  <2> QED
    BY <1>0, <2>1, Zenon DEF Returned, ReturnedIsSent, ReturnedIsContiguous
<1>1. UNCHANGED <<seq, wire, whole, reused>>
  BY DEF Push, publisher
<1>2. c \in Chunks /\ c.key \in Keys /\ c.msg \in Messages
  BY DEF IInv, TypeOK, Chunks
<1>3. ASSUME out' = {},
             \A k \in Keys : entries'[k] = None \/ (entries'[k] = entries[k] /\ entries[k].ttl # 0)
      PROVE  Accounted' /\ Returned'
  <2>1. Returned'
    BY <1>0, <1>3
  <2>2. AllGenuine' /\ AllWaiting'
    BY <1>1, <1>3 DEF Accounted, AllGenuine, Genuine, AllWaiting, Occupied
  <2>3. TotalKnown'
    BY <1>1, <1>3 DEF Accounted, TotalKnown, LiveParts
  <2> QED
    BY <1>1, <2>1, <2>2, <2>3 DEF Accounted, WholeIsSplit
<1>4. ASSUME NEW entry \in Entries,
             \A k \in Keys \ {c.key} :
               entries'[k] = None \/ (entries'[k] = entries[k] /\ entries[k].ttl # 0),
             c \in entry.parts, entry.parts \subseteq LiveParts(c.key) \cup {c},
             IsFiniteSet(entry.parts),
             \A p, q \in entry.parts : p.offset = q.offset => p = q,
             LiveParts(c.key) = {} => entry.total = c.total,
             LiveParts(c.key) # {} => entry.total = entries[c.key].total,
             \/ /\ Complete(entry) /\ entries'[c.key] = None
                /\ out' = IF Tiles(entry) THEN entry.parts ELSE {}
             \/ ~Complete(entry) /\ entries'[c.key] = entry /\ out' = {}
      PROVE  Accounted' /\ Returned'
  <2>1. /\ Genuine(entry.parts)
        /\ \A p \in entry.parts : /\ p.offset \in Nat /\ p.len \in Nat /\ p.len > 0
                                  /\ p.key = c.key
        /\ c.key \notin reused =>
             \A p \in entry.parts : p.msg = c.msg /\ p.total = entry.total
    BY <1>2, <1>4, JoinedParts
  <2>2. AllGenuine'
    BY <1>1, <1>4, <2>1 DEF Accounted, AllGenuine, Genuine, Occupied
  <2>3. AllWaiting'
    <3>1. ~Complete(entry) => Waiting(entry)
      BY <1>4 DEF Waiting
    <3> QED
      BY <1>2, <1>4, <3>1 DEF Accounted, AllWaiting, Occupied
  <2>4. TotalKnown'
    <3> SUFFICES ASSUME NEW k \in Keys \ reused, NEW p \in LiveParts(k)'
                 PROVE  p.total = entries'[k].total
      BY <1>1 DEF TotalKnown
    <3>1. CASE k = c.key
      BY <1>4, <2>1, <3>1 DEF LiveParts
    <3>2. CASE k # c.key
      BY <1>4, <3>2 DEF Accounted, TotalKnown, LiveParts
    <3> QED
      BY <3>1, <3>2
  <2>5. Returned'
    <3>1. CASE out' = {}
      BY <1>0, <3>1
    <3>2. CASE out' # {}
      <4>1. out' = entry.parts /\ Complete(entry) /\ Tiles(entry)
        BY <1>4, <3>2
      <4>2. Sized(entry.parts) /\ Placed(entry.parts) /\ Tiled(entry.parts)
        BY <1>4, <2>1, <4>1 DEF Sized, Placed, Tiled, Tiles
      <4>3. ReturnedIsContiguous'
        <5>1. \A byte \in 0 .. Length(entry.parts) - 1 : Cardinality(Holding(entry.parts, byte)) = 1
          BY <4>2, TiledIsContiguous
        <5> QED
          BY <4>1, <5>1 DEF ReturnedIsContiguous, Holding
      <4>4. CASE c.key \in reused
        <5>1. ReturnedIsSent'
          BY <1>1, <1>2, <1>4, <4>1, <4>4 DEF ReturnedIsSent
        <5> QED
          BY <4>3, <5>1 DEF Returned
      <4>5. CASE c.key \notin reused
        <5> DEFINE m == c.msg
        <5>1. entry.parts \subseteq whole[m] /\ c \in whole[m]
          BY <1>4, <2>1, <4>5 DEF Genuine
        <5>2. PICK size \in Nat :
                /\ Sized(whole[m]) /\ Length(whole[m]) = size
                /\ \A d \in whole[m] : d.total = size
          BY <1>2, <5>1, WholeFacts DEF IInv, Accounted
        <5>3. Length(entry.parts) = size
          BY <1>4, <2>1, <4>1, <4>5, <5>1, <5>2 DEF Tiles
        <5>4. entry.parts = whole[m]
          BY <5>1, <5>2, <5>3, LengthGrows
        <5>5. ReturnedIsSent'
          BY <1>1, <1>2, <4>1, <5>4 DEF ReturnedIsSent
        <5> QED
          BY <4>3, <5>5 DEF Returned
      <4> QED
        BY <4>4, <4>5
    <3> QED
      BY <3>1, <3>2
  <2> QED
    BY <1>1, <2>2, <2>3, <2>4, <2>5 DEF Accounted, WholeIsSplit
<1> QED
  BY <1>3, <1>4, Taken DEF Accounted

(* Sending adds a message; its key is fresh, or has been used again.        *)
LEMMA AccountedSend ==
  ASSUME IInv, Accounted, NEW w \in Writers, NEW m \in Messages, NEW size \in Sizes,
         NEW data \in DataSizes, Send(w, m, size, data)
  PROVE  Accounted'
<1> DEFINE k == <<w, NextSeq(w)>>
           new == Split(m, k, size, data)
<1>1. k \in Keys
  BY NumbersAssumption DEF IInv, TypeOK, NextSeq, Keys
<1>2. /\ whole[m] = {}
      /\ whole' = [whole EXCEPT ![m] = new] /\ wire' = wire \cup new
      /\ reused' = IF Fresh(k) THEN reused \ {k} ELSE reused \cup {k}
      /\ entries' = entries
  BY DEF Send
<1>3. WholeIsSplit'
  <2>1. ASSUME NEW n \in Messages
        PROVE  whole'[n] = {} \/ \E kk \in Keys, s \in Sizes, d \in DataSizes :
                                     whole'[n] = Split(n, kk, s, d)
    <3>1. CASE n = m
      BY <1>1, <1>2, <3>1 DEF IInv, TypeOK
    <3>2. CASE n # m
      BY <1>2, <3>2 DEF IInv, TypeOK, Accounted, WholeIsSplit
    <3> QED
      BY <3>1, <3>2
  <2> QED
    BY <2>1 DEF WholeIsSplit
<1>4. new \subseteq Chunks /\ \A c \in new : c.msg = m /\ c.key = k
  BY <1>1, SplitType
<1> HIDE DEF new
<1>5. \A c \in Chunks : c \in whole[c.msg] => c \in whole'[c.msg]
  BY <1>2 DEF IInv, TypeOK, Chunks
<1>6. AllGenuine'
  <2>1. \A c \in new : c \in whole'[c.msg]
    BY <1>2, <1>4 DEF IInv, TypeOK
  <2>2. wire \subseteq Chunks /\ \A j \in Occupied(entries) : entries[j].parts \subseteq Chunks
    BY DEF IInv, TypeOK, Occupied, Entries
  <2> QED
    BY <1>2, <1>5, <2>1, <2>2 DEF Accounted, AllGenuine, Genuine
<1>7. AllWaiting'
  BY <1>2 DEF Accounted, AllWaiting
<1>8. TotalKnown'
  <2> SUFFICES ASSUME NEW j \in Keys \ reused', NEW c \in LiveParts(j)
               PROVE  c.total = entries[j].total
    BY <1>2 DEF TotalKnown, LiveParts
  <2>1. j \notin reused
    BY <1>2 DEF Fresh, LiveParts
  <2> QED
    BY <2>1 DEF Accounted, TotalKnown
<1> QED
  BY <1>3, <1>6, <1>7, <1>8 DEF Accounted

LEMMA AccountedOther ==
  ASSUME IInv, Accounted,
         \/ \E w \in Writers : Redeploy(w) \/ SendUnsplit(w)
         \/ \E c \in wire : Lose(c) \/ Reject(c)
         \/ Tick \/ Clear \/ UNCHANGED vars
  PROVE  Accounted'
<1>1. whole' = whole /\ reused' = reused /\ wire' \subseteq wire
  BY DEF Redeploy, SendUnsplit, Lose, Reject, Tick, Clear, vars, publisher, receiver
<1>2. \A k \in Keys : entries'[k] # None =>
        /\ entries[k] # None /\ entries'[k].parts = entries[k].parts
        /\ entries'[k].total = entries[k].total
        /\ entries[k].ttl = 0 => entries'[k].ttl = 0
  <2>1. CASE Tick
    <3>1. ASSUME NEW k \in Keys, Aged(entries[k]) # None
          PROVE  /\ entries[k] # None /\ Aged(entries[k]).parts = entries[k].parts
                 /\ Aged(entries[k]).total = entries[k].total
                 /\ entries[k].ttl = 0 => Aged(entries[k]).ttl = 0
      <4>1. CASE entries[k] = None \/ entries[k].ttl = 0
        BY <3>1, <4>1 DEF Aged
      <4>2. CASE entries[k] # None /\ entries[k].ttl # 0
        <5>1. entries[k] \in Entries
          BY <4>2 DEF IInv, TypeOK
        <5>2. Aged(entries[k]) = [entries[k] EXCEPT !.ttl = @ - 1]
          BY <4>2 DEF Aged
        <5> QED
          BY <4>2, <5>1, <5>2 DEF Entries
      <4> QED
        BY <4>1, <4>2
    <3> QED
      BY <2>1, <3>1 DEF Tick
  <2>2. CASE Clear
    BY <2>2 DEF Clear
  <2>3. CASE entries' = entries
    BY <2>3
  <2> QED
    BY <2>1, <2>2, <2>3 DEF Redeploy, SendUnsplit, Lose, Reject, vars, receiver
<1>3. AllGenuine'
  BY <1>1, <1>2 DEF Accounted, AllGenuine, Genuine, Occupied
<1>4. AllWaiting'
  BY <1>2 DEF Accounted, AllWaiting, Waiting, Occupied, Complete
<1>5. TotalKnown'
  <2> SUFFICES ASSUME NEW k \in Keys \ reused, NEW c \in LiveParts(k)'
               PROVE  c.total = entries'[k].total
    BY <1>1 DEF TotalKnown
  <2>1. entries'[k] # None /\ c \in LiveParts(k)
    BY <1>2 DEF LiveParts
  <2> QED
    BY <1>2, <2>1 DEF Accounted, TotalKnown
<1> QED
  BY <1>1, <1>3, <1>4, <1>5 DEF Accounted, WholeIsSplit

(* An entry that holds all of a message is as long as the message, and so   *)
(* it would be complete.                                                    *)
LEMMA NoneWaits == IInv /\ Accounted => NoneWaitsComplete
<1> SUFFICES ASSUME IInv, Accounted, NEW k \in Occupied(entries) \ reused, NEW m \in Messages,
                    entries[k].ttl # 0, whole[m] # {}, whole[m] \subseteq entries[k].parts
             PROVE  FALSE
  BY DEF NoneWaitsComplete
<1>1. k \in Keys /\ entries[k] # None /\ entries[k] \in Entries
  BY DEF Occupied, IInv, TypeOK
<1>2. IsFiniteSet(entries[k].parts) /\ ~Complete(entries[k]) /\ Genuine(entries[k].parts)
  BY DEF Accounted, AllWaiting, Waiting, AllGenuine
<1>3. PICK size \in Nat : /\ Length(whole[m]) = size
                          /\ \A d \in whole[m] : d.total = size
  BY WholeFacts DEF IInv, Accounted
<1>4. entries[k].total = size
  <2>1. PICK d \in whole[m] : TRUE
    OBVIOUS
  <2>2. d.total = entries[k].total
    BY <1>1, <2>1 DEF Accounted, TotalKnown, LiveParts
  <2> QED
    BY <1>3, <2>2
<1>5. Sized(entries[k].parts)
  <2>1. entries[k].parts \in SUBSET Chunks
    BY <1>1 DEF Entries
  <2> QED
    BY <1>2, <2>1, GenuineFacts DEF Sized, IInv, Accounted
<1>6. Length(entries[k].parts) >= size
  BY <1>3, <1>5, LengthGrows, BytesFinite
<1> QED
  BY <1>2, <1>4, <1>6 DEF Complete

LEMMA ReturnedStep ==
  ASSUME IInv, Accounted, Returned, [Next]_vars
  PROVE  Accounted' /\ Returned'
<1>1. ASSUME out' = {}
      PROVE  Returned'
  <2>1. 0 .. Length(out') - 1 = {}
    BY <1>1, LengthOfNone
  <2> QED
    BY <1>1, <2>1, Zenon DEF Returned, ReturnedIsSent, ReturnedIsContiguous
<1>2. CASE Sending
  <2>1. Accounted'
    BY <1>2, AccountedSend, AccountedOther DEF Sending
  <2>2. out' = {}
    BY <1>2 DEF Sending, Send, SendUnsplit, Redeploy
  <2> QED
    BY <1>1, <2>1, <2>2
<1>3. ASSUME NEW c \in wire, Push(c)
      PROVE  Accounted' /\ Returned'
  BY <1>3, AccountedPush
<1>4. ASSUME NEW c \in wire, Reject(c) \/ Lose(c)
      PROVE  Accounted' /\ Returned'
  BY <1>1, <1>4, AccountedOther DEF Reject, Lose
<1>5. CASE Tick \/ Clear
  BY <1>1, <1>5, AccountedOther DEF Tick, Clear
<1>6. CASE UNCHANGED vars
  <2>1. Accounted'
    BY <1>6, AccountedOther
  <2>2. Returned'
    BY <1>6 DEF vars, publisher, receiver, Returned, ReturnedIsSent, ReturnedIsContiguous
  <2> QED
    BY <2>1, <2>2
<1> QED
  BY <1>2, <1>3, <1>4, <1>5, <1>6 DEF Next, Receiving

(* Reassembly is exact: what is returned has been sent, what has come in    *)
(* full has been returned, and no byte is missing or there twice.           *)
THEOREM ReassembledExactly == Spec => []ReassemblyIsExact
<1>1. Init => Accounted /\ Returned
  BY AccountedInitially, NothingReturned DEF Init
<1>2. IInv /\ Accounted /\ Returned => ReassemblyIsExact
  BY NoneWaits DEF Returned, ReassemblyIsExact
<1> QED
  BY <1>1, <1>2, ReassemblyInvariant, ReturnedStep, PTL DEF Spec

=============================================================================
