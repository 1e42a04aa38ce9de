---------------------------- MODULE Reassembler ----------------------------
(***************************************************************************)
(* Large network messages over an unreliable network: the encoder splits   *)
(* them into chunks (lib/uadp-encoder.js), which may be lost, duplicated   *)
(* and reordered, and a UadpReassembler puts them together again           *)
(* (lib/uadp-reassembler.js) - the one of a UDP transport, or that of one  *)
(* subscriber over MQTT.  Operators after "Mutant:" are not used by Spec:  *)
(* they are plausible mistakes the properties must notice.                 *)
(***************************************************************************)
EXTENDS FiniteSetsExt, Integers

CONSTANTS Writers,        \* publisherId and writerGroupId
          SeqMod,         \* sequence numbers are taken modulo 2^16
          Messages,       \* identities of the messages sent
          Sizes,          \* of encoded messages
          DataSizes,      \* what fits into one chunk, by the mtu configured
          MaxTotalSize, MaxInflight,
          Expiry,         \* REASSEMBLY_EXPIRY_MS, in ticks of the clock
          None

ASSUME NumbersAssumption ==
  /\ SeqMod \in Nat \ {0} /\ Sizes \subseteq Nat \ {0} /\ DataSizes \subseteq Nat \ {0}
  /\ MaxTotalSize \in Nat /\ MaxInflight \in Nat \ {0} /\ Expiry \in Nat \ {0}

VARIABLES seq,            \* _nmSeq of each publisher
          wire,           \* chunks under way; they stay until they are lost
          entries,        \* incomplete messages by key, None where there is none
          out,            \* the chunks of the buffer that push() has just returned
          whole,          \* history: the chunks that each message was split into
          spent,          \* history: chunks returned in a buffer, not received again since
          reused          \* history: keys used again while chunks of an earlier
                          \* message were under way or in the table

publisher == <<seq, wire, whole, reused>>
receiver == <<entries, out, spent>>
vars == <<publisher, receiver>>

Keys == Writers \X (0 .. SeqMod - 1)

Init ==
  /\ seq = [w \in Writers |-> 0] /\ wire = {}
  /\ entries = [k \in Keys |-> None] /\ out = {}
  /\ whole = [m \in Messages |-> {}] /\ spent = {} /\ reused = {}

-----------------------------------------------------------------------------
(* The publisher.                                                           *)

(* _splitIntoChunks(): equal pieces, and what is left of the message.       *)
Split(m, key, size, data) ==
  {[msg |-> m, key |-> key, total |-> size, offset |-> i * data,
    len |-> Min({data, size - i * data})] : i \in 0 .. ((size - 1) \div data)}

NextSeq(w) == (seq[w] + 1) % SeqMod

(* Nothing that bears the key can meet the new chunks.                      *)
Fresh(k) ==
  /\ \A c \in wire : c.key # k
  /\ entries[k] = None \/ entries[k].ttl = 0

Send(w, m, size, data) ==
  LET k == <<w, NextSeq(w)>> IN
  /\ whole[m] = {} /\ data < size
  /\ seq' = [seq EXCEPT ![w] = NextSeq(w)]
  /\ whole' = [whole EXCEPT ![m] = Split(m, k, size, data)]
  /\ wire' = wire \cup Split(m, k, size, data)
  /\ reused' = IF Fresh(k) THEN reused \ {k} ELSE reused \cup {k}
  /\ out' = {} /\ UNCHANGED <<entries, spent>>

(* A message that fits, or cannot be encoded, uses a number all the same.   *)
SendUnsplit(w) ==
  /\ seq' = [seq EXCEPT ![w] = NextSeq(w)]
  /\ out' = {} /\ UNCHANGED <<wire, whole, reused, entries, spent>>

(* A redeployed publisher counts from the beginning.                        *)
Redeploy(w) ==
  /\ seq[w] # 0 /\ seq' = [seq EXCEPT ![w] = 0]
  /\ out' = {} /\ UNCHANGED <<wire, whole, reused, entries, spent>>

Lose(c) ==
  /\ c \in wire /\ wire' = wire \ {c}
  /\ out' = {} /\ UNCHANGED <<seq, whole, reused, entries, spent>>

-----------------------------------------------------------------------------
(* The reassembler.                                                         *)

Occupied(table) == {k \in Keys : table[k] # None}

(* Mutant: entries never expire.                                            *)
Kept(table) == table

(* Entries past their expiry are removed on every push.                     *)
Swept(table) == [k \in Keys |-> IF table[k] # None /\ table[k].ttl = 0 THEN None ELSE table[k]]

(* Insertion order is the order of expiry; within a tick it is not known.   *)
Oldest(table) ==
  {k \in Occupied(table) : \A j \in Occupied(table) : table[k].ttl <= table[j].ttl}

Full(table) == Cardinality(Occupied(table)) >= MaxInflight

(* What may be left of the table to make room for key k.                    *)
WithRoom(table, k) ==
  IF table[k] = None /\ Full(table)
  THEN {[table EXCEPT ![o] = None] : o \in Oldest(table)}
  ELSE {table}

(* The chunk's entry, or a new one.                                         *)
Entry(table, c) ==
  IF table[c.key] # None THEN table[c.key]
  ELSE [total |-> c.total, parts |-> {}, ttl |-> Expiry]

(* Parts are kept by offset: a duplicate replaces the earlier one.          *)
Recorded(entry, c) ==
  [entry EXCEPT !.parts = {p \in @ : p.offset # c.offset} \cup {c}]

(* The lengths of the parts added up: their bytes, told apart by the part   *)
(* they are in, counted.                                                    *)
Bytes(parts) == UNION {{p} \X (1 .. p.len) : p \in parts}

Length(parts) == Cardinality(Bytes(parts))

Complete(entry) == Length(entry.parts) >= entry.total

(* Each part starts where those before it end, and the last at the total.   *)
Tiles(entry) ==
  /\ \A p \in entry.parts : p.offset = Length({q \in entry.parts : q.offset < p.offset})
  /\ Length(entry.parts) = entry.total

(* Mutant: the entry stays when it is complete.                             *)
Remembered(table, k, entry) == [table EXCEPT ![k] = entry]

Removed(table, k, entry) == [table EXCEPT ![k] = None]

Record(table, c, entry) ==
  IF Complete(entry)
  THEN /\ entries' = Removed(table, c.key, entry)
       /\ out' = IF Tiles(entry) THEN entry.parts ELSE {}
       /\ spent' = (spent \ {c}) \cup out'
  ELSE /\ entries' = [table EXCEPT ![c.key] = entry]
       /\ out' = {} /\ spent' = spent \ {c}

(* push(): a message above the cap is rejected before, a chunk that does    *)
(* not fit its message after the table has been tidied.                     *)
Reject(c) ==
  /\ c \in wire /\ c.total > MaxTotalSize
  /\ out' = {} /\ UNCHANGED <<publisher, entries, spent>>

Push(c) ==
  /\ c \in wire /\ c.total <= MaxTotalSize
  /\ \E table \in WithRoom(Swept(entries), c.key) :
       IF c.offset + c.len > c.total
       THEN entries' = table /\ out' = {} /\ UNCHANGED spent
       ELSE Record(table, c, Recorded(Entry(table, c), c))
  /\ UNCHANGED publisher

(* A tick of the clock.                                                     *)
Aged(entry) ==
  IF entry = None \/ entry.ttl = 0 THEN entry ELSE [entry EXCEPT !.ttl = @ - 1]
Tick ==
  /\ Occupied(entries) # {}
  /\ entries' = [k \in Keys |-> Aged(entries[k])]
  /\ out' = {} /\ UNCHANGED <<publisher, spent>>

(* The subscriber, or the transport, is closed and opened again.            *)
Clear ==
  /\ Occupied(entries) # {}
  /\ entries' = [k \in Keys |-> None]
  /\ out' = {} /\ UNCHANGED <<publisher, spent>>

Sending ==
  \E w \in Writers :
    \/ Redeploy(w) \/ SendUnsplit(w)
    \/ \E m \in Messages, size \in Sizes, data \in DataSizes : Send(w, m, size, data)
Receiving == \E c \in wire : Reject(c) \/ Push(c)
Next == Sending \/ Receiving \/ (\E c \in wire : Lose(c)) \/ Tick \/ Clear
Spec == Init /\ [][Next]_vars

-----------------------------------------------------------------------------
(* Properties.                                                              *)

Chunks == [msg : Messages, key : Keys, total : Nat, offset : Nat, len : Int]
Entries == [total : Nat, parts : SUBSET Chunks, ttl : 0 .. Expiry]

(* Every variable has its type; no part outlives its expiry.                *)
TypeOK ==
  /\ seq \in [Writers -> 0 .. SeqMod - 1] /\ wire \subseteq Chunks
  /\ entries \in [Keys -> Entries \cup {None}]
  /\ out \subseteq Chunks /\ spent \subseteq Chunks /\ reused \subseteq Keys
  /\ whole \in [Messages -> SUBSET Chunks]

(* The table is bounded.                                                    *)
TableBounded == Cardinality(Occupied(entries)) <= MaxInflight

(* A message that is there in full does not wait for more: it has been      *)
(* returned - unless its sequence number has been used again too soon.  An  *)
(* entry that has expired waits for nothing.                                *)
NoneWaitsComplete ==
  \A k \in Occupied(entries) \ reused, m \in Messages :
    entries[k].ttl # 0 /\ whole[m] # {} => ~(whole[m] \subseteq entries[k].parts)

(* What is returned is a message that has been sent, as it was sent,        *)
(* whatever was lost, duplicated or late - unless its sequence number has   *)
(* been used again too soon.                                                *)
ReturnedIsSent ==
  out = {} \/ \E m \in Messages : out = whole[m] \/ \E c \in out : c.key \in reused

(* Even then the buffer is contiguous: each of its bytes is there once.     *)
ReturnedIsContiguous ==
  \A byte \in 0 .. Length(out) - 1 :
    Cardinality({p \in out : byte \in p.offset .. p.offset + p.len - 1}) = 1

(* So the reassembler is exact: what it returns has been sent, and what has *)
(* come in full has been returned - and no byte is missing or there twice,  *)
(* even where a sequence number was used again too soon.                    *)
ReassemblyIsExact == NoneWaitsComplete /\ ReturnedIsSent /\ ReturnedIsContiguous

(* A message is returned again only when all of it has come again.          *)
EachArrivalCountsOnce == \A k \in Occupied(entries) : entries[k].parts \cap spent = {}

=============================================================================
