------------------------- MODULE KeyRegistryProofs -------------------------
(***************************************************************************)
(* For any number of servers, requests, keys and late writes: the chain of *)
(* a key holds exactly requests that are at work on it, and its first one  *)
(* can go on.  For each key, as long as no two servers are between read    *)
(* and write of its record at once, and so for the requests of one server: *)
(* no update of a record loses what another wrote, an answered revocation  *)
(* stands, and a did.json that was reported as stored is found.            *)
(***************************************************************************)
EXTENDS KeyRegistry, SequenceTheorems, WellFoundedInduction, TLAPS

Chains == [Servers \X Keys -> Seq(Requests)]

\* The key a request is in a chain for.
Busy == [r \in Requests |-> IF pc[r] \in {"attach", "attaching"} THEN key[r]
                            ELSE IF pc[r] \in {"status", "changing"} THEN prev[r]
                            ELSE NoKey]

\* Whoever is in a chain is at work on its key, and is in it once.
Lined(ch, b) ==
    \A c \in Servers \X Keys : \A i \in 1..Len(ch[c]) :
        /\ Host[ch[c][i]] = c[1] /\ b[ch[c][i]] = c[2]
        /\ \A j \in 1..Len(ch[c]) : ch[c][i] = ch[c][j] => i = j

Front(ch, r, k) == ch[<<Host[r], k>>] # <<>> /\ Head(ch[<<Host[r], k>>]) = r

USE HostAssumption, BoundAssumption

-----------------------------------------------------------------------------
(* Chains *)

LEMMA AppendLined ==
    ASSUME NEW ch \in Chains, NEW b \in [Requests -> Keys \cup {NoKey}], Lined(ch, b),
           NEW r \in Requests, NEW k \in Keys, b[r] = NoKey
    PROVE  /\ Chained(ch, r, k) \in Chains
           /\ Lined(Chained(ch, r, k), [b EXCEPT ![r] = k])
           /\ \A q \in Requests, j \in Keys : Front(ch, q, j) => Front(Chained(ch, r, k), q, j)
  <1> DEFINE s == <<Host[r], k>>
             new == Chained(ch, r, k)
  <1>1. s \in Servers \X Keys /\ ch[s] \in Seq(Requests) /\ NoKey \notin Keys
    BY DEF Chains, Keys, NoKey
  <1>2. new = [ch EXCEPT ![s] = Append(@, r)] /\ new[s] = Append(ch[s], r)
        /\ \A c \in Servers \X Keys : c # s => new[c] = ch[c]
    BY <1>1 DEF Chained, Chains
  <1>3. new \in Chains
    BY <1>1, <1>2, AppendProperties DEF Chains
  <1>4. Lined(new, [b EXCEPT ![r] = k])
    <2> SUFFICES ASSUME NEW c \in Servers \X Keys, NEW i \in 1..Len(new[c])
                 PROVE  /\ Host[new[c][i]] = c[1] /\ [b EXCEPT ![r] = k][new[c][i]] = c[2]
                        /\ \A j \in 1..Len(new[c]) : new[c][i] = new[c][j] => i = j
      BY DEF Lined
    <2>1. ch[c] \in Seq(Requests)
      BY DEF Chains
    <2>2. \A j \in 1..Len(ch[c]) : ch[c][j] \in Requests /\ b[ch[c][j]] = c[2] /\ ch[c][j] # r
      BY SMTT(60), <1>1, <2>1 DEF Lined
    <2>3. CASE c # s
      BY <1>2, <2>1, <2>2, <2>3 DEF Lined
    <2>4. CASE c = s
      <3>1. Len(new[c]) = Len(ch[c]) + 1 /\ new[c][Len(ch[c]) + 1] = r
            /\ \A j \in 1..Len(ch[c]) : new[c][j] = ch[c][j]
        BY <1>2, <2>1, <2>4, AppendProperties
      <3>2. Len(ch[c]) \in Nat /\ c[1] = Host[r] /\ c[2] = k
        BY <2>1, <2>4
      <3> HIDE DEF new, s
      <3>3. CASE i = Len(ch[c]) + 1
        <4>1. \A j \in 1..Len(new[c]) : new[c][j] = r => j = Len(ch[c]) + 1
          <5> SUFFICES ASSUME NEW j \in 1..Len(new[c]), j # Len(ch[c]) + 1 PROVE new[c][j] # r
            OBVIOUS
          <5>1. j \in 1..Len(ch[c])
            BY <3>1, <3>2
          <5> QED BY <2>2, <3>1, <5>1
        <4> QED BY <3>1, <3>2, <3>3, <4>1
      <3>4. CASE i \in 1..Len(ch[c])
        <4>1. new[c][i] = ch[c][i] /\ ch[c][i] # r /\ ch[c][i] \in Requests
          BY <2>2, <3>1, <3>4
        <4>2. Host[ch[c][i]] = c[1] /\ b[ch[c][i]] = c[2]
              /\ \A j \in 1..Len(ch[c]) : ch[c][i] = ch[c][j] => i = j
          BY <3>4 DEF Lined
        <4>3. \A j \in 1..Len(new[c]) : new[c][i] = new[c][j] => i = j
          BY SMTT(60), <3>1, <3>2, <4>1, <4>2
        <4> QED BY <4>1, <4>2, <4>3
      <3> QED BY <3>1, <3>2, <3>3, <3>4
    <2> QED BY <2>3, <2>4
  <1>5. ASSUME NEW q \in Requests, NEW j \in Keys, Front(ch, q, j)
        PROVE  Front(new, q, j)
    <2>1. <<Host[q], j>> \in Servers \X Keys /\ ch[<<Host[q], j>>] \in Seq(Requests)
      BY DEF Chains
    <2>2. Head(Append(ch[<<Host[q], j>>], r)) = q
      BY <1>5, <2>1, HeadTailAppend DEF Front
    <2>3. Append(ch[<<Host[q], j>>], r) # <<>>
      BY <2>1, AppendProperties
    <2> QED BY <1>2, <1>5, <2>1, <2>2, <2>3 DEF Front
  <1> QED BY <1>3, <1>4, <1>5

LEMMA DropLined ==
    ASSUME NEW ch \in Chains, NEW b \in [Requests -> Keys \cup {NoKey}], Lined(ch, b),
           NEW r \in Requests, NEW k \in Keys, Front(ch, r, k)
    PROVE  /\ Unchained(ch, r, k) \in Chains
           /\ Lined(Unchained(ch, r, k), [b EXCEPT ![r] = NoKey])
           /\ \A q \in Requests, j \in Keys : q # r /\ Front(ch, q, j) => Front(Unchained(ch, r, k), q, j)
           /\ b[r] = k
  <1> DEFINE s == <<Host[r], k>>
             new == Unchained(ch, r, k)
  <1>1. s \in Servers \X Keys /\ ch[s] \in Seq(Requests) /\ ch[s] # <<>> /\ ch[s][1] = r
    BY DEF Chains, Front
  <1>2. new = [ch EXCEPT ![s] = Tail(@)] /\ new[s] = Tail(ch[s])
        /\ \A c \in Servers \X Keys : c # s => new[c] = ch[c]
    BY <1>1 DEF Unchained, Chains
  <1>3. new \in Chains
    BY <1>1, <1>2 DEF Chains
  <1>4. b[r] = k /\ Len(ch[s]) \in Nat \ {0}
    BY <1>1 DEF Lined
  <1>5. Lined(new, [b EXCEPT ![r] = NoKey])
    <2> SUFFICES ASSUME NEW c \in Servers \X Keys, NEW i \in 1..Len(new[c])
                 PROVE  /\ Host[new[c][i]] = c[1] /\ [b EXCEPT ![r] = NoKey][new[c][i]] = c[2]
                        /\ \A j \in 1..Len(new[c]) : new[c][i] = new[c][j] => i = j
      BY DEF Lined
    <2>1. ch[c] \in Seq(Requests)
      BY DEF Chains
    <2>2. CASE c # s
      <3>1. \A j \in 1..Len(ch[c]) : ch[c][j] \in Requests /\ ch[c][j] # r
        <4> SUFFICES ASSUME NEW j \in 1..Len(ch[c]), ch[c][j] = r PROVE FALSE
          BY <2>1
        <4>1. Host[r] = c[1] /\ b[r] = c[2]
          BY DEF Lined
        <4>2. c = s
          <5>1. PICK x \in Servers, y \in Keys : c = <<x, y>>
            OBVIOUS
          <5> QED BY <4>1, <1>4, <5>1
        <4> QED BY <4>2, <2>2
      <3> QED BY <1>2, <2>1, <2>2, <3>1 DEF Lined
    <2>3. CASE c = s
      <3>1. Len(new[c]) = Len(ch[c]) - 1 /\ \A j \in 1..(Len(ch[c]) - 1) : new[c][j] = ch[c][j + 1]
        <4>1. Len(Tail(ch[s])) = Len(ch[s]) - 1
              /\ \A j \in 1..Len(Tail(ch[s])) : Tail(ch[s])[j] = ch[s][j + 1]
          BY <1>1, HeadTailProperties
        <4> QED BY <1>2, <2>3, <4>1
      <3>2. \A j \in 1..Len(ch[c]) : ch[c][j] \in Requests /\ (ch[c][j] = r => j = 1)
        BY <1>1, <1>4, <2>1, <2>3 DEF Lined
      <3> HIDE DEF new, s
      <3>3. i + 1 \in 1..Len(ch[c]) /\ ch[c][i + 1] # r
        <4>1. Len(ch[c]) \in Nat /\ Len(new[c]) = Len(ch[c]) - 1
          BY <1>4, <2>3, <3>1
        <4>2. i \in Nat \ {0} /\ i + 1 \in 1..Len(ch[c]) /\ i + 1 # 1
          BY <4>1
        <4> QED BY <4>2, <3>2
      <3>4. Host[ch[c][i + 1]] = c[1] /\ b[ch[c][i + 1]] = c[2]
            /\ \A j \in 1..Len(ch[c]) : ch[c][i + 1] = ch[c][j] => i + 1 = j
        BY <3>3 DEF Lined
      <3>5. new[c][i] = ch[c][i + 1] /\ ch[c][i + 1] \in Requests
        BY <1>4, <2>3, <3>1, <3>2, <3>3
      <3>6. \A j \in 1..Len(new[c]) : j + 1 \in 1..Len(ch[c]) /\ new[c][j] = ch[c][j + 1]
        BY <1>4, <2>3, <3>1
      <3>7. \A j \in 1..Len(new[c]) : new[c][i] = new[c][j] => i = j
        BY <3>4, <3>5, <3>6
      <3> QED BY <3>3, <3>4, <3>5, <3>7
    <2> QED BY <2>2, <2>3
  <1>6. ASSUME NEW q \in Requests, NEW j \in Keys, q # r, Front(ch, q, j)
        PROVE  Front(new, q, j)
    <2>1. <<Host[q], j>> \in Servers \X Keys /\ <<Host[q], j>> # s
      BY <1>6, <1>1 DEF Front
    <2> QED BY <1>2, <1>6, <2>1 DEF Front
  <1> QED BY <1>3, <1>4, <1>5, <1>6

-----------------------------------------------------------------------------
(* The part of the invariant that holds for any number of servers.          *)

RegistryType ==
    /\ at \in [Keys -> {"absent", "draft", "live"}]
    /\ status \in [Keys -> Statuses]
    /\ doc \in [Keys -> DidDocs]
    /\ late \subseteq Writes

SlotType ==
    /\ pc \in [Requests -> Places]
    /\ op \in [Requests -> {"none", "publish", "rotate", "revoke"}]
    /\ key \in [Requests -> Keys]
    /\ prev \in [Requests -> Keys \cup {NoKey}]
    /\ built \in [Requests -> DidDocs]
    /\ \A r \in Requests : built[r].usable \subseteq built[r].listed
    /\ stored \in [Requests -> BOOLEAN]
    /\ seen \in [Requests -> Reads]

\* Where a request may be, by what it is.
Placed(r) ==
    /\ pc[r] \in {"save", "publish", "attach", "attaching"} =>
           op[r] \in {"publish", "rotate"} /\ key[r] \in built[r].usable
    /\ pc[r] \in {"attach", "attaching"} => op[r] = "rotate"
    /\ pc[r] \in {"status", "changing"} => op[r] \in {"rotate", "revoke"} /\ prev[r] \in Keys

Slots == SlotType /\ \A r \in Requests : Placed(r)

\* Who has read a record is first in its chain until it has written.
Working ==
    \A r \in Requests : /\ pc[r] = "attaching" => First(r, key[r])
                        /\ pc[r] = "changing" => First(r, prev[r])

Line == chain \in Chains /\ Lined(chain, Busy)

IInv == RegistryType /\ Slots /\ Line /\ Working /\ served \subseteq Keys /\ revoked \subseteq Keys

\* Nobody else's variables change.
Others(r) ==
    \A q \in Requests \ {r} :
        /\ pc'[q] = pc[q] /\ op'[q] = op[q] /\ key'[q] = key[q] /\ prev'[q] = prev[q]
        /\ built'[q] = built[q] /\ stored'[q] = stored[q] /\ seen'[q] = seen[q]

LEMMA Constants ==
    /\ NoKey \notin Keys /\ 0 \in Keys
    /\ NoDoc \in DidDocs /\ NoDoc.usable = {} /\ NoDoc.listed = {}
    /\ Unread \in Reads
    /\ \A l, u \in SUBSET Keys :
         Snapshot(l, u) \in DidDocs /\ Snapshot(l, u).listed = l /\ Snapshot(l, u).usable = u
  <1>1. NoKey \notin Keys /\ 0 \in Keys
    BY DEF Keys, NoKey
  <1>2. NoDoc \in DidDocs /\ NoDoc.usable = {} /\ NoDoc.listed = {}
    BY DEF NoDoc, DidDocs
  <1>3. Unread \in Reads
    BY <1>2 DEF Unread, Reads, Statuses
  <1>4. \A l, u \in SUBSET Keys :
           Snapshot(l, u) \in DidDocs /\ Snapshot(l, u).listed = l /\ Snapshot(l, u).usable = u
    BY DEF Snapshot, DidDocs
  <1> QED BY <1>1, <1>2, <1>3, <1>4

LEMMA BusyType ==
    ASSUME SlotType
    PROVE  Busy \in [Requests -> Keys \cup {NoKey}]
  BY DEF SlotType, Busy

LEMMA BusyNext ==
    ASSUME NEW r \in Requests, Others(r)
    PROVE  \A k : Busy'[r] = k => Busy' = [Busy EXCEPT ![r] = k]
  BY DEF Others, Busy

\* What a step of one request does to the chains.
LEMMA LineKeeps ==
    ASSUME SlotType, Line, NEW r \in Requests, Others(r),
           \/ chain' = chain /\ Busy'[r] = Busy[r]
           \/ \E k \in Keys : Busy[r] = NoKey /\ chain' = Chained(chain, r, k) /\ Busy'[r] = k
           \/ \E k \in Keys : First(r, k) /\ chain' = Unchained(chain, r, k) /\ Busy'[r] = NoKey
           \/ \E k, j \in Keys : /\ First(r, k) /\ Busy'[r] = j
                                 /\ chain' = Chained(Unchained(chain, r, k), r, j)
    PROVE  Line' /\ \A q \in Requests \ {r}, j \in Keys : First(q, j) => First(q, j)'
  <1> USE BusyType, BusyNext, Constants
  <1>0. \A q \in Requests, j \in Keys : First(q, j) <=> Front(chain, q, j)
    BY DEF First, Front
  <1>00. \A q \in Requests, j \in Keys : First(q, j)' <=> Front(chain', q, j)
    BY DEF First, Front
  <1>1. CASE chain' = chain /\ Busy'[r] = Busy[r]
    <2>1. Busy' = Busy
      BY <1>1, BusyType, BusyNext
    <2> QED BY <1>1, <2>1, <1>0, <1>00 DEF Line
  <1>2. ASSUME NEW k \in Keys, Busy[r] = NoKey, chain' = Chained(chain, r, k), Busy'[r] = k
        PROVE  Line' /\ \A q \in Requests \ {r}, j \in Keys : First(q, j) => First(q, j)'
    BY <1>2, <1>0, <1>00, AppendLined DEF Line
  <1>3. ASSUME NEW k \in Keys, First(r, k), chain' = Unchained(chain, r, k), Busy'[r] = NoKey
        PROVE  Line' /\ \A q \in Requests \ {r}, j \in Keys : First(q, j) => First(q, j)'
    BY <1>3, <1>0, <1>00, DropLined DEF Line
  <1>4. ASSUME NEW k \in Keys, NEW j \in Keys, First(r, k), Busy'[r] = j,
               chain' = Chained(Unchained(chain, r, k), r, j)
        PROVE  Line' /\ \A q \in Requests \ {r}, i \in Keys : First(q, i) => First(q, i)'
    <2> DEFINE ch == Unchained(chain, r, k)
               b  == [Busy EXCEPT ![r] = NoKey]
    <2>1. /\ ch \in Chains /\ Lined(ch, b)
          /\ \A q \in Requests, i \in Keys : q # r /\ Front(chain, q, i) => Front(ch, q, i)
      BY <1>4, <1>0, DropLined DEF Line
    <2>2. b \in [Requests -> Keys \cup {NoKey}] /\ b[r] = NoKey /\ Busy' = [b EXCEPT ![r] = j]
      <3>1. PICK B \in [Requests -> Keys \cup {NoKey}] : B = Busy
        BY BusyType
      <3>2. Busy' = [B EXCEPT ![r] = j]
        BY <1>4, <3>1, BusyNext
      <3>3. [[B EXCEPT ![r] = NoKey] EXCEPT ![r] = j] = [B EXCEPT ![r] = j]
        OBVIOUS
      <3> QED BY <3>1, <3>2, <3>3
    <2> HIDE DEF ch, b
    <2>3. chain' = Chained(ch, r, j)
      BY <1>4 DEF ch
    <2>4. Line'
      BY <2>1, <2>2, <2>3, AppendLined DEF Line
    <2>5. ASSUME NEW q \in Requests \ {r}, NEW i \in Keys, First(q, i)
          PROVE  First(q, i)'
      BY <2>1, <2>2, <2>3, <2>5, <1>0, <1>00, AppendLined
    <2> QED BY <2>4, <2>5
  <1> QED BY <1>1, <1>2, <1>3, <1>4

-----------------------------------------------------------------------------
(* How a request moves *)

LEMMA ResetKeeps ==
    ASSUME Slots, NEW r \in Requests, Reset(r)
    PROVE  /\ Slots' /\ Others(r) /\ pc'[r] = "idle" /\ Busy'[r] = NoKey
           /\ stored'[r] = FALSE /\ op'[r] = "none"
  <1> USE DEF Slots, SlotType
  <1>1. /\ pc' = [pc EXCEPT ![r] = "idle"] /\ op' = [op EXCEPT ![r] = "none"]
        /\ key' = [key EXCEPT ![r] = 0] /\ prev' = [prev EXCEPT ![r] = NoKey]
        /\ built' = [built EXCEPT ![r] = NoDoc] /\ stored' = [stored EXCEPT ![r] = FALSE]
        /\ seen' = [seen EXCEPT ![r] = Unread]
    BY DEF Reset
  <1>2. SlotType'
    BY <1>1, Constants DEF Places
  <1>3. Others(r) /\ pc'[r] = "idle" /\ Busy'[r] = NoKey
    BY <1>1 DEF Others, Busy
  <1>4. \A q \in Requests : Placed(q)'
    BY <1>1, <1>3 DEF Placed, Others
  <1> QED BY <1>1, <1>2, <1>3, <1>4

LEMMA MoveKeeps ==
    ASSUME Slots, NEW r \in Requests, NEW place \in Places, NEW kept \in BOOLEAN,
           Move(r, place, kept),
           seen' \in [Requests -> Reads], \A q \in Requests \ {r} : seen'[q] = seen[q],
           place \in {"save", "publish", "attach", "attaching"} =>
               op[r] \in {"publish", "rotate"} /\ key[r] \in built[r].usable,
           place \in {"attach", "attaching"} => op[r] = "rotate",
           place \in {"status", "changing"} => op[r] \in {"rotate", "revoke"} /\ prev[r] \in Keys
    PROVE  /\ Slots' /\ Others(r) /\ pc'[r] = place /\ stored'[r] = kept
           /\ UNCHANGED <<op, key, prev, built, served, revoked>>
           /\ Busy'[r] = IF place \in {"attach", "attaching"} THEN key[r]
                         ELSE IF place \in {"status", "changing"} THEN prev[r] ELSE NoKey
  <1> USE DEF Slots, SlotType
  <1>1. /\ pc' = [pc EXCEPT ![r] = place] /\ stored' = [stored EXCEPT ![r] = kept]
        /\ UNCHANGED <<op, key, prev, built, served, revoked>>
    BY DEF Move, history
  <1>2. SlotType'
    BY <1>1
  <1>3. Others(r) /\ pc'[r] = place /\ stored'[r] = kept
    BY <1>1 DEF Others
  <1>4. \A q \in Requests : Placed(q)'
    BY <1>1, <1>3 DEF Placed
  <1>5. Busy'[r] = IF place \in {"attach", "attaching"} THEN key[r]
                   ELSE IF place \in {"status", "changing"} THEN prev[r] ELSE NoKey
    BY <1>1, <1>3 DEF Busy
  <1> QED BY <1>1, <1>2, <1>3, <1>4, <1>5

\* Keeps everything but the records.
Local == Slots /\ Line /\ Working /\ served \subseteq Keys /\ revoked \subseteq Keys

\* A step of r that keeps the chains in line keeps Working but for r itself.
LEMMA WorkingKeeps ==
    ASSUME Slots, Working, NEW r \in Requests, Others(r),
           \A q \in Requests \ {r}, j \in Keys : First(q, j) => First(q, j)',
           pc'[r] = "attaching" => First(r, key[r])',
           pc'[r] = "changing" => First(r, prev[r])',
           UNCHANGED <<key, prev>> \/ pc'[r] \notin {"attaching", "changing"}
    PROVE  Working'
  <1> SUFFICES ASSUME NEW q \in Requests
               PROVE  /\ pc'[q] = "attaching" => First(q, key[q])'
                      /\ pc'[q] = "changing" => First(q, prev[q])'
    BY DEF Working
  <1>1. CASE q = r
    BY <1>1
  <1>2. CASE q # r
    <2>1. pc'[q] = pc[q] /\ key'[q] = key[q] /\ prev'[q] = prev[q] /\ key[q] \in Keys
      BY <1>2 DEF Others, Slots, SlotType
    <2>2. pc[q] = "changing" => prev[q] \in Keys
      BY DEF Slots, Placed
    <2>3. pc[q] = "attaching" => First(q, key[q])
      BY DEF Working
    <2>4. pc[q] = "changing" => First(q, prev[q])
      BY DEF Working
    <2>5. ASSUME pc'[q] = "attaching"
          PROVE  First(q, key[q])'
      <3>1. PICK k \in Keys : k = key[q]
        BY <2>1
      <3>2. First(q, k) /\ First(q, k)'
        BY <1>2, <2>1, <2>3, <2>5, <3>1
      <3>3. key'[q] = k
        BY <2>1, <3>1
      <3> QED BY <3>2, <3>3 DEF First
    <2>6. ASSUME pc'[q] = "changing"
          PROVE  First(q, prev[q])'
      <3>1. PICK k \in Keys : k = prev[q]
        BY <2>1, <2>2, <2>6
      <3>2. First(q, k) /\ First(q, k)'
        BY <1>2, <2>1, <2>4, <2>6, <3>1
      <3>3. prev'[q] = k
        BY <2>1, <3>1
      <3> QED BY <3>2, <3>3 DEF First
    <2> QED BY <2>5, <2>6
  <1> QED BY <1>1, <1>2

\* A request that ends.
LEMMA EndKeeps ==
    ASSUME Local, NEW r \in Requests, Reset(r), served' \subseteq Keys, revoked' \subseteq Keys,
           \/ chain' = chain /\ Busy[r] = NoKey
           \/ \E k \in Keys : First(r, k) /\ chain' = Unchained(chain, r, k)
    PROVE  Local' /\ Others(r) /\ pc'[r] = "idle"
  <1>1. /\ Slots' /\ Others(r) /\ pc'[r] = "idle" /\ Busy'[r] = NoKey
    BY ResetKeeps DEF Local
  <1>2. Line' /\ \A q \in Requests \ {r}, j \in Keys : First(q, j) => First(q, j)'
    BY <1>1, LineKeeps DEF Local, Slots
  <1>3. Working'
    BY <1>1, <1>2, WorkingKeeps DEF Local
  <1> QED BY <1>1, <1>2, <1>3 DEF Local

\* A request that moves on.
LEMMA GoKeeps ==
    ASSUME Local, NEW r \in Requests, NEW place \in Places, NEW kept \in BOOLEAN,
           Move(r, place, kept),
           seen' \in [Requests -> Reads], \A q \in Requests \ {r} : seen'[q] = seen[q],
           place \in {"save", "publish", "attach", "attaching"} =>
               op[r] \in {"publish", "rotate"} /\ key[r] \in built[r].usable,
           place \in {"attach", "attaching"} => op[r] = "rotate",
           place \in {"status", "changing"} => op[r] \in {"rotate", "revoke"} /\ prev[r] \in Keys,
           place = "attaching" => First(r, key[r])',
           place = "changing" => First(r, prev[r])',
           \/ chain' = chain /\ Busy'[r] = Busy[r]
           \/ \E k \in Keys : Busy[r] = NoKey /\ chain' = Chained(chain, r, k) /\ Busy'[r] = k
           \/ \E k, j \in Keys : /\ First(r, k) /\ Busy'[r] = j
                                 /\ chain' = Chained(Unchained(chain, r, k), r, j)
    PROVE  /\ Local' /\ Others(r) /\ pc'[r] = place /\ stored'[r] = kept
           /\ UNCHANGED <<op, key, prev, built, served, revoked>>
  <1>1. /\ Slots' /\ Others(r) /\ pc'[r] = place /\ stored'[r] = kept
        /\ UNCHANGED <<op, key, prev, built, served, revoked>>
    BY MoveKeeps DEF Local
  <1>2. Line' /\ \A q \in Requests \ {r}, j \in Keys : First(q, j) => First(q, j)'
    BY <1>1, LineKeeps DEF Local, Slots
  <1>3. Working'
    BY <1>1, <1>2, WorkingKeeps DEF Local
  <1> QED BY <1>1, <1>2, <1>3 DEF Local

\* A rotation whose new key is published, with the key it is in a chain for,
\* if any, left.
LEMMA RetireKeeps ==
    ASSUME Local, NEW r \in Requests, NEW kept \in BOOLEAN, NEW ch, op[r] = "rotate",
           \/ ch = chain /\ Busy[r] = NoKey
           \/ \E k \in Keys : First(r, k) /\ ch = Unchained(chain, r, k),
           Retire(r, ch, kept)
    PROVE  /\ Local' /\ Others(r)
           /\ \/ pc'[r] = "idle" /\ served' \subseteq served \cup (IF kept THEN {key[r]} ELSE {})
              \/ pc'[r] = "status" /\ stored'[r] = kept /\ UNCHANGED <<op, key, prev, built, served>>
           /\ revoked' = revoked
  <1>1. CASE prev[r] = NoKey
    <2>1. Answer(r, kept) /\ chain' = ch
      BY <1>1 DEF Retire
    <2>2. Reset(r) /\ revoked' = revoked /\ served' = IF kept THEN served \cup {key[r]} ELSE served
      BY <2>1 DEF Answer
    <2>3. key[r] \in Keys
      BY DEF Local, Slots, SlotType
    <2>4. served' \subseteq Keys /\ revoked' \subseteq Keys
      BY <2>2, <2>3 DEF Local
    <2> QED BY <2>1, <2>2, <2>4, EndKeeps
  <1>2. CASE prev[r] # NoKey
    <2>1. Move(r, "status", kept) /\ chain' = Chained(ch, r, prev[r]) /\ UNCHANGED seen
      BY <1>2 DEF Retire
    <2>2. prev[r] \in Keys /\ seen' \in [Requests -> Reads]
      BY <1>2, <2>1 DEF Local, Slots, SlotType
    <2>3. /\ pc'[r] = "status" /\ stored'[r] = kept /\ UNCHANGED <<op, key, prev, built, served, revoked>>
          /\ Busy'[r] = prev[r]
      BY <2>1, <2>2, MoveKeeps DEF Local, Places
    <2> QED BY <2>1, <2>2, <2>3, GoKeeps DEF Places
  <1> QED BY <1>1, <1>2

-----------------------------------------------------------------------------
(* The records *)

Same(k) == at'[k] = at[k] /\ status'[k] = status[k] /\ doc'[k] = doc[k]

\* What a write does to the record of a key.
LEMMA AppliedEffect ==
    ASSUME RegistryType, NEW w \in Writes, Applied(w)
    PROVE  /\ at' \in [Keys -> {"absent", "draft", "live"}]
           /\ status' \in [Keys -> Statuses] /\ doc' \in [Keys -> DidDocs]
           /\ \A k \in Keys :
                /\ k # w.key => Same(k)
                /\ at[k] = "live" =>
                     Same(k) \/ (w.kind = "update" /\ at'[k] = "live" /\ status'[k] = w.status /\ doc'[k] = w.doc)
                /\ at[k] = "draft" => at'[k] \in {"draft", "live"} /\ doc'[k] = doc[k]
           /\ w.kind = "draft" => at[w.key] = "absent" /\ at'[w.key] = "draft" /\ doc'[w.key] = w.doc
           /\ w.kind = "publish" => at[w.key] = "draft" /\ at'[w.key] = "live"
           /\ w.kind = "update" => at[w.key] = "live" /\ at'[w.key] = "live"
                                     /\ status'[w.key] = w.status /\ doc'[w.key] = w.doc
  <1>1. w.key \in Keys /\ w.status \in Statuses /\ w.doc \in DidDocs
    BY DEF Writes
  <1>2. CASE w.kind = "draft" /\ at[w.key] = "absent"
    BY <1>1, <1>2 DEF Applied, RegistryType, Same
  <1>3. CASE w.kind = "publish" /\ at[w.key] = "draft"
    BY <1>1, <1>3 DEF Applied, RegistryType, Same
  <1>4. CASE w.kind = "update" /\ at[w.key] = "live"
    BY <1>1, <1>4 DEF Applied, RegistryType, Same
  <1> QED BY <1>2, <1>3, <1>4 DEF Applied

LEMMA WriteKeeps ==
    ASSUME RegistryType, NEW w \in Writes, Answered(w) \/ Lost(w)
    PROVE  RegistryType' /\ late \subseteq late'
  BY AppliedEffect DEF RegistryType, Answered, Lost, registry

LEMMA WriteTypes ==
    /\ \A k \in Keys, d \in DidDocs : Draft(k, d) \in Writes
    /\ \A k \in Keys : Publish(k) \in Writes
    /\ \A k \in Keys, s \in Statuses, d \in DidDocs : Update(k, s, d) \in Writes
  BY Constants DEF Draft, Publish, Update, Writes, Statuses

LEMMA LastOf ==
    ASSUME NEW S \in SUBSET Keys, S # {}
    PROVE  \E k \in S : \A j \in S : j <= k
  <1> DEFINE R == OpToRel(<, Nat)
             T == {LastKey - k : k \in S}
  <1>1. T \subseteq Nat /\ T # {}
    <2>1. \A k \in S : LastKey - k \in Nat
      BY DEF Keys
    <2>2. PICK k \in S : TRUE
      OBVIOUS
    <2> QED BY <2>1, <2>2
  <1>2. PICK x \in T : \A y \in T : ~ (<<y, x>> \in R)
    <2> HIDE DEF T
    <2> QED BY <1>1, NatLessThanWellFounded, WFMin
  <1>3. \A y \in T : ~ (y < x)
    BY <1>1, <1>2 DEF OpToRel
  <1>4. PICK k \in S : x = LastKey - k
    OBVIOUS
  <1>5. ASSUME NEW j \in S
        PROVE  j <= k
    <2>1. LastKey - j \in T /\ j \in Nat /\ k \in Nat
      BY DEF Keys
    <2> QED BY <1>3, <1>4, <2>1
  <1> QED BY <1>5

\* A lookup reads one of the documents on the records.
LEMMA ProjectionType ==
    ASSUME RegistryType
    PROVE  /\ Projection \in DidDocs
           /\ Projection = NoDoc \/ \E k \in Keys : at[k] = "live" /\ Projection = doc[k]
  <1> DEFINE candidates == {k \in Live : doc[k] # NoDoc}
             active     == {k \in candidates : status[k] = "active"}
             pool       == IF active # {} THEN active ELSE candidates
             top        == CHOOSE k \in pool : \A j \in pool : j <= k
  <1>1. Projection = IF pool = {} THEN NoDoc ELSE doc[top]
    BY DEF Projection
  <1>2. pool \in SUBSET Keys /\ \A k \in pool : at[k] = "live"
    BY DEF Live
  <1> HIDE DEF pool
  <1>3. pool # {} => top \in pool
    BY <1>2, LastOf
  <1> QED BY <1>1, <1>2, <1>3, Constants DEF RegistryType

-----------------------------------------------------------------------------
(* Every step keeps the invariant.                                          *)

Stays == RegistryType' /\ Local'

LEMMA WithKeyType ==
    ASSUME NEW d \in DidDocs, NEW n \in Keys
    PROVE  /\ WithKey(d, n) \in DidDocs /\ n \in WithKey(d, n).usable
           /\ WithKey(d, n).usable \subseteq WithKey(d, n).listed
  BY Constants DEF WithKey, DidDocs, Snapshot

LEMMA BeginKeeps ==
    ASSUME IInv, NEW r \in Requests, NEW o \in {"publish", "rotate", "revoke"},
           NEW k \in Keys, NEW p \in Keys \cup {NoKey}, NEW d \in DidDocs,
           d.usable \subseteq d.listed, NEW hosting \in BOOLEAN, NEW place \in {"save", "status"},
           Begin(r, o, k, p, d, hosting, place),
           \/ place = "save" /\ o \in {"publish", "rotate"} /\ k \in d.usable /\ chain' = chain
           \/ place = "status" /\ o = "revoke" /\ p \in Keys /\ chain' = Chained(chain, r, p)
    PROVE  Stays /\ Others(r) /\ pc'[r] = place /\ op'[r] = o /\ UNCHANGED <<registry, late, history>>
  <1> USE DEF IInv, Slots, SlotType
  <1>1. /\ pc[r] = "idle" /\ pc' = [pc EXCEPT ![r] = place] /\ op' = [op EXCEPT ![r] = o]
        /\ key' = [key EXCEPT ![r] = k] /\ prev' = [prev EXCEPT ![r] = p]
        /\ built' = [built EXCEPT ![r] = d] /\ stored' = [stored EXCEPT ![r] = hosting]
        /\ UNCHANGED <<at, status, doc, late, seen, served, revoked>>
    BY DEF Begin, registry, history
  <1>2. SlotType'
    BY <1>1 DEF Places
  <1>3. /\ Others(r) /\ pc'[r] = place /\ op'[r] = o
        /\ Busy[r] = NoKey /\ Busy'[r] = IF place = "status" THEN p ELSE NoKey
    BY <1>1 DEF Others, Busy
  <1>4. \A q \in Requests : Placed(q)'
    BY <1>1, <1>3 DEF Placed
  <1>5. Line' /\ \A q \in Requests \ {r}, j \in Keys : First(q, j) => First(q, j)'
    BY <1>3, LineKeeps
  <1>6. Working'
    BY <1>3, <1>5, WorkingKeeps
  <1> QED BY <1>1, <1>2, <1>3, <1>4, <1>5, <1>6 DEF Stays, Local, RegistryType, registry, history

LEMMA PublishKeyKeeps ==
    ASSUME IInv, NEW r \in Requests, NEW k \in Keys, NEW hosting \in BOOLEAN, PublishKey(r, k, hosting)
    PROVE  Stays
  <1>1. /\ Snapshot({k}, {k}) \in DidDocs
        /\ Snapshot({k}, {k}).usable = {k} /\ Snapshot({k}, {k}).listed = {k}
    BY Constants
  <1>2. Begin(r, "publish", k, NoKey, Snapshot({k}, {k}), hosting, "save") /\ chain' = chain
    BY DEF PublishKey
  <1> QED BY <1>1, <1>2, BeginKeeps

LEMMA RotateKeeps ==
    ASSUME IInv, NEW r \in Requests, NEW n \in Keys, NEW p \in Keys \cup {NoKey},
           NEW current \in Provided \cup {Projection}, NEW hosting \in BOOLEAN,
           Rotate(r, n, p, current, hosting)
    PROVE  Stays
  <1>1. current \in DidDocs
    BY ProjectionType, ProvidedAssumption DEF IInv, DidDocs, Keys
  <1>2. Begin(r, "rotate", n, p, WithKey(current, n), hosting, "save") /\ chain' = chain
    BY DEF Rotate
  <1> QED BY <1>1, <1>2, WithKeyType, BeginKeeps

LEMMA RevokeKeeps ==
    ASSUME IInv, NEW r \in Requests, NEW k \in Keys, Revoke(r, k)
    PROVE  Stays
  <1>1. Begin(r, "revoke", 0, k, NoDoc, FALSE, "status") /\ chain' = Chained(chain, r, k)
    BY DEF Revoke
  <1> QED BY <1>1, Constants, BeginKeeps

LEMMA FailKeeps ==
    ASSUME Local, NEW r \in Requests, Fail(r),
           \/ chain' = chain /\ Busy[r] = NoKey
           \/ \E k \in Keys : First(r, k) /\ chain' = Unchained(chain, r, k)
    PROVE  Local' /\ Others(r) /\ pc'[r] = "idle" /\ UNCHANGED history
  BY EndKeeps DEF Fail, Local, history

LEMMA AnswerKeeps ==
    ASSUME Local, NEW r \in Requests, NEW kept \in BOOLEAN, Answer(r, kept),
           op[r] = "revoke" => prev[r] \in Keys,
           \/ chain' = chain /\ Busy[r] = NoKey
           \/ \E k \in Keys : First(r, k) /\ chain' = Unchained(chain, r, k)
    PROVE  /\ Local' /\ Others(r) /\ pc'[r] = "idle"
           /\ served' = IF op[r] = "rotate" /\ kept THEN served \cup {key[r]} ELSE served
           /\ revoked' = IF op[r] = "revoke" THEN revoked \cup {prev[r]} ELSE revoked
  BY EndKeeps DEF Answer, Local, Slots, SlotType

LEMMA SaveKeeps ==
    ASSUME IInv, NEW r \in Requests, Save(r)
    PROVE  Stays
  <1> DEFINE w == Draft(key[r], IF stored[r] THEN built[r] ELSE NoDoc)
  <1>1. /\ pc[r] = "save" /\ Busy[r] = NoKey /\ Local /\ RegistryType
        /\ key[r] \in Keys /\ stored[r] \in BOOLEAN /\ seen \in [Requests -> Reads]
        /\ op[r] \in {"publish", "rotate"} /\ key[r] \in built[r].usable
    BY DEF Save, Busy, IInv, Local, Slots, SlotType, Placed
  <1>2. w \in Writes
    BY <1>1, WriteTypes, Constants DEF IInv, Slots, SlotType
  <1> HIDE DEF w
  <1>3. CASE Answered(w) /\ Move(r, "publish", stored[r]) /\ UNCHANGED <<seen, chain>>
    <2>1. Busy'[r] = NoKey
      BY <1>1, <1>3, MoveKeeps DEF Local, Places
    <2> QED BY <1>1, <1>2, <1>3, <2>1, WriteKeeps, GoKeeps DEF Stays, Places
  <1>4. CASE Exists(r) /\ UNCHANGED <<registry, late>>
    <2>1. CASE op[r] = "publish"
      BY <1>1, <1>4, <2>1, FailKeeps DEF Exists, Stays, RegistryType, registry
    <2>2. CASE op[r] = "rotate" /\ stored[r]
      <3>1. Move(r, "attach", stored[r]) /\ chain' = Chained(chain, r, key[r]) /\ UNCHANGED seen
        BY <1>4, <2>2 DEF Exists
      <3>2. Busy'[r] = key[r]
        BY <1>1, <2>2, <3>1, MoveKeeps DEF Local, Places
      <3>3. Local'
        BY <1>1, <2>2, <3>1, <3>2, GoKeeps DEF Places
      <3> QED BY <1>1, <1>4, <3>3 DEF Stays, RegistryType, registry
    <2>3. CASE op[r] = "rotate" /\ ~stored[r]
      <3>1. Retire(r, chain, stored[r])
        BY <1>4, <2>3 DEF Exists
      <3> QED BY <1>1, <1>4, <2>3, <3>1, RetireKeeps DEF Stays, RegistryType, registry
    <2> QED BY <1>1, <2>1, <2>2, <2>3
  <1>5. CASE Lost(w) /\ Fail(r) /\ UNCHANGED chain
    BY <1>1, <1>2, <1>5, WriteKeeps, FailKeeps DEF Stays
  <1> QED BY <1>3, <1>4, <1>5 DEF Save, w

LEMMA GoesKeeps ==
    ASSUME IInv, NEW r \in Requests, Go(r)
    PROVE  Stays
  <1> DEFINE w == Publish(key[r])
  <1>1. /\ pc[r] = "publish" /\ Busy[r] = NoKey /\ Local /\ RegistryType
        /\ key[r] \in Keys /\ stored[r] \in BOOLEAN
        /\ op[r] \in {"publish", "rotate"}
    BY DEF Go, Busy, IInv, Local, Slots, SlotType, Placed
  <1>2. w \in Writes
    BY <1>1, WriteTypes
  <1> HIDE DEF w
  <1>3. CASE Answered(w) /\ op[r] = "rotate" /\ Retire(r, chain, stored[r])
    BY <1>1, <1>2, <1>3, WriteKeeps, RetireKeeps DEF Stays
  <1>4. CASE Answered(w) /\ op[r] # "rotate" /\ Answer(r, FALSE) /\ UNCHANGED chain
    BY <1>1, <1>2, <1>4, WriteKeeps, AnswerKeeps DEF Stays
  <1>5. CASE Lost(w) /\ Fail(r) /\ UNCHANGED chain
    BY <1>1, <1>2, <1>5, WriteKeeps, FailKeeps DEF Stays
  <1> QED BY <1>3, <1>4, <1>5 DEF Go, w

\* A request reads the record of the key whose chain it is first in.
LEMMA ReadKeeps ==
    ASSUME IInv, NEW r \in Requests, NEW k \in Keys, First(r, k),
           NEW place \in {"attaching", "changing"}, Read(r, k, place),
           \/ pc[r] = "attach" /\ place = "attaching" /\ k = key[r]
           \/ pc[r] = "status" /\ place = "changing" /\ k = prev[r]
    PROVE  /\ Stays /\ Others(r) /\ pc'[r] = place /\ stored'[r] = stored[r]
           /\ seen'[r] = [status |-> status[k], doc |-> doc[k]] /\ at[k] = "live"
           /\ UNCHANGED <<registry, late, chain, op, key, prev, built, history>>
  <1>1. /\ seen' = [seen EXCEPT ![r] = [status |-> status[k], doc |-> doc[k]]]
        /\ Move(r, place, stored[r]) /\ UNCHANGED <<registry, late, chain>> /\ at[k] = "live"
    BY DEF Read, Live
  <1>2. [status |-> status[k], doc |-> doc[k]] \in Reads
    BY DEF IInv, RegistryType, Reads
  <1>3. seen' \in [Requests -> Reads] /\ seen'[r] = [status |-> status[k], doc |-> doc[k]]
        /\ \A q \in Requests \ {r} : seen'[q] = seen[q]
    BY <1>1, <1>2 DEF IInv, Slots, SlotType
  <1>4. Local /\ stored[r] \in BOOLEAN /\ place \in Places /\ Placed(r) /\ Busy[r] = k
    BY DEF IInv, Local, Slots, SlotType, Places, Busy
  <1>5. /\ Slots' /\ Others(r) /\ pc'[r] = place /\ stored'[r] = stored[r]
        /\ UNCHANGED <<op, key, prev, built, served, revoked>> /\ Busy'[r] = k
    BY <1>1, <1>3, <1>4, MoveKeeps DEF Local, Placed
  <1>6. First(r, k)'
    BY <1>1 DEF First
  <1>7. (place = "attaching" => First(r, key[r])') /\ (place = "changing" => First(r, prev[r])')
    BY <1>5, <1>6 DEF First
  <1>8. Local'
    BY <1>1, <1>3, <1>4, <1>5, <1>7, GoKeeps DEF Placed
  <1> QED BY <1>1, <1>3, <1>5, <1>8 DEF Stays, IInv, RegistryType, registry, history

LEMMA AttachKeeps ==
    ASSUME IInv, NEW r \in Requests, Attach(r)
    PROVE  Stays
  <1>1. /\ pc[r] = "attach" /\ First(r, key[r]) /\ key[r] \in Keys /\ op[r] = "rotate" /\ Local
    BY DEF Attach, IInv, Local, Slots, SlotType, Placed
  <1>2. CASE Read(r, key[r], "attaching")
    BY <1>1, <1>2, ReadKeeps
  <1>3. CASE Retire(r, Unchained(chain, r, key[r]), FALSE) /\ UNCHANGED <<registry, late>>
    <2>1. Local'
      BY <1>1, <1>3, RetireKeeps
    <2> QED BY <1>3, <2>1 DEF Stays, IInv, RegistryType, registry
  <1> QED BY <1>2, <1>3 DEF Attach

LEMMA AttachWriteKeeps ==
    ASSUME IInv, NEW r \in Requests, AttachWrite(r)
    PROVE  Stays
  <1> DEFINE w == Update(key[r], seen[r].status, built[r])
  <1>1. /\ pc[r] = "attaching" /\ First(r, key[r]) /\ key[r] \in Keys /\ op[r] = "rotate" /\ Local
        /\ RegistryType
    BY DEF AttachWrite, IInv, Local, Slots, SlotType, Placed, Working
  <1>2. w \in Writes
    BY WriteTypes DEF IInv, Slots, SlotType, Reads
  <1> HIDE DEF w
  <1>3. PICK kept \in BOOLEAN : Retire(r, Unchained(chain, r, key[r]), kept) /\ (Answered(w) \/ Lost(w))
    BY DEF AttachWrite, w
  <1> QED BY <1>1, <1>2, <1>3, WriteKeeps, RetireKeeps DEF Stays

LEMMA ReadStatusKeeps ==
    ASSUME IInv, NEW r \in Requests, ReadStatus(r)
    PROVE  Stays
  <1>1. /\ pc[r] = "status" /\ First(r, prev[r]) /\ prev[r] \in Keys /\ Local /\ stored[r] \in BOOLEAN
    BY DEF ReadStatus, IInv, Local, Slots, SlotType, Placed
  <1>2. CASE Read(r, prev[r], "changing")
    BY <1>1, <1>2, ReadKeeps
  <1>3. CASE StatusDone(r) /\ UNCHANGED <<registry, late>>
    <2>1. Local'
      BY <1>1, <1>3, AnswerKeeps DEF StatusDone
    <2> QED BY <1>3, <2>1 DEF Stays, IInv, RegistryType, registry
  <1>4. CASE StatusThrows(r) /\ UNCHANGED <<registry, late>>
    <2>1. Local'
      BY <1>1, <1>4, FailKeeps DEF StatusThrows
    <2> QED BY <1>4, <2>1 DEF Stays, IInv, RegistryType, registry
  <1> QED BY <1>2, <1>3, <1>4 DEF ReadStatus

LEMMA WriteStatusKeeps ==
    ASSUME IInv, NEW r \in Requests, WriteStatus(r)
    PROVE  Stays
  <1> DEFINE w == Update(prev[r], Wanted(r), seen[r].doc)
  <1>1. /\ pc[r] = "changing" /\ First(r, prev[r]) /\ prev[r] \in Keys /\ Local /\ RegistryType
        /\ stored[r] \in BOOLEAN
    BY DEF WriteStatus, IInv, Local, Slots, SlotType, Placed, Working
  <1>2. w \in Writes
    BY <1>1, WriteTypes DEF IInv, Slots, SlotType, Reads, Wanted, Statuses
  <1> HIDE DEF w
  <1>3. CASE Answered(w) /\ StatusDone(r)
    BY <1>1, <1>2, <1>3, WriteKeeps, AnswerKeeps DEF Stays, StatusDone
  <1>4. CASE Lost(w) /\ StatusThrows(r)
    BY <1>1, <1>2, <1>4, WriteKeeps, FailKeeps DEF Stays, StatusThrows
  <1> QED BY <1>3, <1>4 DEF WriteStatus, w

LEMMA LateWriteKeeps ==
    ASSUME IInv, LateWrite
    PROVE  Stays
  <1>1. PICK w \in late : Applied(w)
    BY DEF LateWrite
  <1>2. RegistryType'
    BY <1>1, AppliedEffect DEF LateWrite, IInv, RegistryType
  <1>3. Local'
    <2> USE DEF LateWrite, slot, history, IInv
    <2>1. Slots' /\ UNCHANGED <<pc, op, key, prev, built, stored, seen, chain, served, revoked>>
      BY DEF Slots, SlotType, Placed
    <2>2. Line'
      BY <2>1 DEF Line, Busy, Lined
    <2>3. Working'
      BY <2>1 DEF Working, First
    <2> QED BY <2>1, <2>2, <2>3 DEF Local
  <1> QED BY <1>2, <1>3 DEF Stays

LEMMA InitIInv ==
    ASSUME Init
    PROVE  IInv
  <1> USE Constants DEF Init
  <1>1. RegistryType
    BY DEF RegistryType, Statuses
  <1>2. Slots
    BY DEF Slots, SlotType, Placed, Places
  <1>3. Line /\ Working
    <2>1. chain \in Chains /\ \A c \in Servers \X Keys : chain[c] = <<>> /\ Len(chain[c]) = 0
      BY DEF Chains
    <2> QED BY <2>1 DEF Line, Lined, Working
  <1> QED BY <1>1, <1>2, <1>3 DEF IInv

LEMMA NextIInv ==
    ASSUME IInv, [Next]_vars
    PROVE  IInv'
  <1>1. CASE UNCHANGED vars
    <2>1. UNCHANGED <<at, status, doc, late, pc, op, key, prev, built, stored, seen, chain, served, revoked>>
      BY <1>1 DEF vars, registry, slot, history
    <2>2. RegistryType' /\ Slots' /\ served' \subseteq Keys /\ revoked' \subseteq Keys
      BY <2>1 DEF IInv, RegistryType, Slots, SlotType, Placed
    <2>3. Line' /\ Working'
      BY <2>1 DEF IInv, Line, Lined, Busy, Working, First
    <2> QED BY <2>2, <2>3 DEF IInv
  <1>2. CASE Next
    <2>1. ASSUME NEW r \in Requests, Step(r)
          PROVE  Stays
      BY <2>1, SaveKeeps, GoesKeeps, AttachKeeps, AttachWriteKeeps, ReadStatusKeeps, WriteStatusKeeps DEF Step
    <2>2. Stays
      BY <1>2, <2>1, PublishKeyKeeps, RotateKeeps, RevokeKeeps, LateWriteKeeps DEF Next
    <2> QED BY <2>2 DEF Stays, Local, IInv
  <1> QED BY <1>1, <1>2

THEOREM Invariant == Spec => []IInv
  BY InitIInv, NextIInv, PTL DEF Spec

(* Type correctness; a did.json that a rotation builds refers only to keys  *)
(* it lists (rotateKey, keys.ts:640-707).                                   *)
THEOREM KeyTypeCorrect == Spec => []TypeOK
  <1>1. IInv => TypeOK
    BY DEF IInv, RegistryType, Slots, SlotType, Line, Chains, TypeOK
  <1> QED BY Invariant, <1>1, PTL

(* With any number of replicas, requests and keys, whoever is first in the  *)
(* chain of a key is at work on that key: chained writes cannot be left     *)
(* behind by one that failed (keyStatusWrites, client.ts:27-33).            *)
THEOREM ChainHolds == Spec => []ChainAlive
  <1>1. IInv => ChainAlive
    <2> SUFFICES ASSUME IInv, NEW s \in Servers, NEW k \in Keys, chain[<<s, k>>] # <<>>
                 PROVE  LET r == Head(chain[<<s, k>>]) IN
                        /\ Host[r] = s
                        /\ \/ pc[r] \in {"attach", "attaching"} /\ key[r] = k
                           \/ pc[r] \in {"status", "changing"} /\ prev[r] = k
      BY DEF ChainAlive
    <2> DEFINE r == Head(chain[<<s, k>>])
    <2>1. chain[<<s, k>>] \in Seq(Requests) /\ r = chain[<<s, k>>][1] /\ r \in Requests
          /\ 1 \in 1..Len(chain[<<s, k>>])
      BY DEF IInv, Line, Chains
    <2>2. Host[r] = s /\ Busy[r] = k
      BY <2>1 DEF IInv, Line, Lined
    <2> QED BY <2>1, <2>2, Constants DEF Busy
  <1> QED BY Invariant, <1>1, PTL

-----------------------------------------------------------------------------
(* Requests that change a record one at a time                              *)

\* Between the look-up of the record of k and the write that puts it back.
Updating(r, k) ==
    \/ pc[r] = "attaching" /\ key[r] = k
    \/ pc[r] = "changing" /\ prev[r] = k

\* No two servers are at that at once.
Apart(k) == \A r, q \in Requests : Updating(r, k) /\ Updating(q, k) => Host[r] = Host[q]

\* So it is wherever the chain of a key is the chain of all who change it.
OneHost == \A r, q \in Requests : Host[r] = Host[q]

Good(k) == at[k] = "live" /\ k \in doc[k].usable
Dead(k) == at[k] = "live" /\ status[k] = "revoked"

\* What a request has read is what the record says until it writes.
Fresh(r, k) ==
    Untroubled(k) =>
        /\ pc[r] = "attaching" /\ k = key[r] =>
               at[k] = "live" /\ seen[r].status = status[k] /\ seen[r].doc = doc[k]
        /\ pc[r] = "changing" /\ k = prev[r] =>
               /\ at[k] = "live" /\ seen[r].status = status[k] /\ seen[r].doc = doc[k]
               /\ Advances(status[k], Wanted(r))

\* A draft carries the document of the rotation that saved it.
Drafted(r) ==
    pc[r] = "publish" /\ op[r] = "rotate" /\ stored[r] =>
        /\ at[key[r]] # "absent"
        /\ at[key[r]] = "draft" => key[r] \in doc[key[r]].usable

Claims(r) == pc[r] \in {"status", "changing"} /\ op[r] = "rotate" /\ stored[r]
Claimed(k) == k \in served \/ \E r \in Requests : key[r] = k /\ Claims(r)

Kept(k) ==
    /\ \A r \in Requests : Fresh(r, k) /\ Drafted(r)
    /\ Untroubled(k) => (Claimed(k) => Good(k)) /\ (k \in revoked => Dead(k))

\* What a step of r does to the records.
Effect(r) ==
    /\ late \subseteq late'
    /\ \A k \in Keys :
         /\ at[k] = "live" =>
              /\ at'[k] = "live"
              /\ \/ Same(k)
                 \/ /\ pc[r] = "attaching" /\ k = key[r]
                    /\ status'[k] = seen[r].status /\ doc'[k] = built[r]
                 \/ /\ pc[r] = "changing" /\ k = prev[r]
                    /\ status'[k] = Wanted(r) /\ doc'[k] = seen[r].doc
         /\ at[k] = "draft" => at'[k] \in {"draft", "live"} /\ doc'[k] = doc[k]

\* What r has after it.
Turn(r) ==
    /\ Others(r) /\ Drafted(r)'
    /\ \A k \in Keys : Fresh(r, k)'
    /\ \A k \in Keys : Claims(r)' /\ k = key'[r] => Claimed(k) \/ Good(k)'
    /\ \A k \in served' : Claimed(k) \/ Good(k)'
    /\ \A k \in revoked' : k \in revoked \/ Dead(k)'

LEMMA Alone ==
    ASSUME NEW k \in Keys, Apart(k), NEW r \in Requests, NEW q \in Requests,
           Updating(r, k), Updating(q, k), First(r, k), First(q, k)
    PROVE  r = q
  BY DEF Apart, First

LEMMA UntroubledBack ==
    ASSUME NEW k \in Keys, late \subseteq late', Untroubled(k)'
    PROVE  Untroubled(k)
  BY DEF Untroubled

LEMMA AdvanceFacts ==
    /\ \A s \in Statuses : KEY_STATUS_RANK[s] \in Nat
    /\ \A s \in Statuses : ~Advances("revoked", s)
    /\ \A s \in Statuses : ~Advances(s, "revoked") => s = "revoked"
  BY DEF Advances, KEY_STATUS_RANK, Statuses

LEMMA KeptNext ==
    ASSUME NEW k \in Keys, Apart(k), IInv, IInv', Kept(k), NEW r \in Requests, Effect(r), Turn(r)
    PROVE  Kept(k)'
  <1>0. /\ key \in [Requests -> Keys] /\ status \in [Keys -> Statuses]
        /\ \A q \in Requests : /\ Updating(q, k) => First(q, k)
                               /\ pc[q] = "attaching" => key[q] \in built[q].usable
                               /\ Wanted(q) \in Statuses
    BY DEF IInv, Slots, SlotType, RegistryType, Working, Placed, Wanted, Statuses, Updating
  <1>1. ASSUME NEW q \in Requests
        PROVE  Fresh(q, k)'
    <2>1. CASE q = r
      BY <2>1 DEF Turn
    <2>2. CASE q # r
      <3> SUFFICES ASSUME Untroubled(k)'
                   PROVE  /\ pc'[q] = "attaching" /\ k = key'[q] =>
                                 at'[k] = "live" /\ seen'[q].status = status'[k] /\ seen'[q].doc = doc'[k]
                          /\ pc'[q] = "changing" /\ k = prev'[q] =>
                                 /\ at'[k] = "live" /\ seen'[q].status = status'[k] /\ seen'[q].doc = doc'[k]
                                 /\ Advances(status'[k], Wanted(q)')
        BY DEF Fresh, Advances
      <3>1. /\ pc'[q] = pc[q] /\ op'[q] = op[q] /\ key'[q] = key[q] /\ prev'[q] = prev[q]
            /\ seen'[q] = seen[q] /\ Wanted(q)' = Wanted(q)
        BY <2>2 DEF Turn, Others, Wanted
      <3>2. Untroubled(k)
        BY UntroubledBack DEF Effect
      <3>3. Fresh(q, k)
        BY DEF Kept
      <3>4. ASSUME Updating(q, k)
            PROVE  at'[k] = "live" /\ Same(k)
        <4>1. First(q, k) /\ at[k] = "live"
          BY <1>0, <3>2, <3>3, <3>4 DEF Fresh, Updating
        <4>2. ~Updating(r, k)
          BY <1>0, <2>2, <3>4, <4>1, Alone
        <4> QED BY <4>1, <4>2 DEF Effect, Updating
      <3> QED BY <3>1, <3>2, <3>3, <3>4 DEF Fresh, Same, Updating
    <2> QED BY <2>1, <2>2
  <1>2. ASSUME NEW q \in Requests
        PROVE  Drafted(q)'
    <2>1. CASE q = r
      BY <2>1 DEF Turn
    <2>2. CASE q # r
      <3>1. pc'[q] = pc[q] /\ op'[q] = op[q] /\ key'[q] = key[q] /\ stored'[q] = stored[q]
        BY <2>2 DEF Turn, Others
      <3>2. PICK n \in Keys : n = key[q]
        BY <1>0
      <3>3. Drafted(q) /\ at[n] \in {"absent", "draft", "live"}
        BY DEF Kept, IInv, RegistryType
      <3> QED BY <3>1, <3>2, <3>3 DEF Drafted, Effect
    <2> QED BY <2>1, <2>2
  <1>3. ASSUME Untroubled(k)', Claimed(k)'
        PROVE  Good(k)'
    <2>1. Claimed(k) \/ Good(k)'
      <3>1. CASE k \in served'
        BY <3>1 DEF Turn
      <3>2. ASSUME NEW q \in Requests, key'[q] = k, Claims(q)'
            PROVE  Claimed(k) \/ Good(k)'
        <4>1. CASE q = r
          BY <3>2, <4>1 DEF Turn
        <4>2. CASE q # r
          BY <3>2, <4>2 DEF Turn, Others, Claims, Claimed
        <4> QED BY <4>1, <4>2
      <3> QED BY <1>3, <3>1, <3>2 DEF Claimed
    <2>2. ASSUME Claimed(k)
          PROVE  Good(k)'
      <3>1. Untroubled(k) /\ Good(k) /\ Fresh(r, k)
        BY <1>3, <2>2, UntroubledBack DEF Effect, Kept
      <3> QED BY <1>0, <3>1 DEF Effect, Good, Fresh, Same
    <2> QED BY <2>1, <2>2
  <1>4. ASSUME Untroubled(k)', k \in revoked'
        PROVE  Dead(k)'
    <2>1. ASSUME k \in revoked
          PROVE  Dead(k)'
      <3>1. Untroubled(k) /\ Dead(k) /\ Fresh(r, k)
        BY <1>4, <2>1, UntroubledBack DEF Effect, Kept
      <3>2. ~Advances(status[k], Wanted(r))
        BY <1>0, <3>1, AdvanceFacts DEF Dead
      <3> QED BY <3>1, <3>2 DEF Effect, Dead, Fresh, Same
    <2> QED BY <1>4, <2>1 DEF Turn
  <1> QED BY <1>1, <1>2, <1>3, <1>4 DEF Kept

\* A write of r, and a step of r that writes nothing.
LEMMA WriteEffect ==
    ASSUME RegistryType, NEW r \in Requests, NEW w \in Writes, Answered(w) \/ Lost(w),
           w.kind = "update" =>
               \/ pc[r] = "attaching" /\ w.key = key[r] /\ w.status = seen[r].status /\ w.doc = built[r]
               \/ pc[r] = "changing" /\ w.key = prev[r] /\ w.status = Wanted(r) /\ w.doc = seen[r].doc
    PROVE  Effect(r)
  <1>1. late \subseteq late'
    BY DEF Answered, Lost
  <1>2. CASE UNCHANGED registry
    BY <1>1, <1>2 DEF Effect, registry, Same
  <1>3. CASE Applied(w)
    <2>1. \A k \in Keys : at[k] = "draft" => at'[k] \in {"draft", "live"} /\ doc'[k] = doc[k]
      BY <1>3, AppliedEffect
    <2>2. ASSUME NEW k \in Keys, at[k] = "live", ~Same(k)
          PROVE  /\ at'[k] = "live" /\ w.kind = "update" /\ k = w.key
                 /\ status'[k] = w.status /\ doc'[k] = w.doc
      BY <1>3, <2>2, AppliedEffect
    <2>3. \A k \in Keys : Same(k) => at'[k] = at[k]
      BY DEF Same
    <2> QED BY <1>1, <2>1, <2>2, <2>3 DEF Effect
  <1> QED BY <1>2, <1>3 DEF Answered, Lost

LEMMA NoEffect ==
    ASSUME UNCHANGED <<registry, late>>, NEW r
    PROVE  Effect(r)
  BY DEF Effect, registry, Same

\* A request that is not about to write and has published no draft.
LEMMA PlainTurn ==
    ASSUME NEW r \in Requests, Others(r), pc'[r] \notin {"attaching", "changing"},
           pc'[r] # "publish", \A k \in Keys : Claims(r)' /\ k = key'[r] => Claimed(k) \/ Good(k)',
           \A k \in served' : Claimed(k) \/ Good(k)',
           \A k \in revoked' : k \in revoked \/ Dead(k)'
    PROVE  Turn(r)
  BY DEF Turn, Fresh, Drafted

\* A rotation that moves on to retire the previous key, or is answered.
LEMMA RetireTurn ==
    ASSUME Local, NEW r \in Requests, NEW kept \in BOOLEAN, NEW ch, op[r] = "rotate",
           \/ ch = chain /\ Busy[r] = NoKey
           \/ \E k \in Keys : First(r, k) /\ ch = Unchained(chain, r, k),
           Retire(r, ch, kept), \A k \in Keys : kept /\ k = key[r] => Good(k)'
    PROVE  Turn(r)
  <1>1. /\ Others(r) /\ revoked' = revoked
        /\ \/ pc'[r] = "idle" /\ served' \subseteq served \cup (IF kept THEN {key[r]} ELSE {})
           \/ pc'[r] = "status" /\ stored'[r] = kept /\ UNCHANGED <<op, key, prev, built, served>>
    BY RetireKeeps
  <1>2. \A k \in Keys : Claims(r)' /\ k = key'[r] => Claimed(k) \/ Good(k)'
    BY <1>1 DEF Claims
  <1>3. key[r] \in Keys
    BY DEF Local, Slots, SlotType
  <1>4. \A k \in served' : Claimed(k) \/ Good(k)'
    BY <1>1, <1>3 DEF Claimed
  <1>5. pc'[r] \in {"idle", "status"}
    BY <1>1
  <1> QED BY <1>1, <1>2, <1>4, <1>5, PlainTurn

LEMMA FailTurn ==
    ASSUME Local, NEW r \in Requests, Fail(r),
           \/ chain' = chain /\ Busy[r] = NoKey
           \/ \E k \in Keys : First(r, k) /\ chain' = Unchained(chain, r, k)
    PROVE  Turn(r)
  <1>1. Others(r) /\ pc'[r] = "idle" /\ UNCHANGED <<served, revoked>>
    BY FailKeeps DEF history
  <1> QED BY <1>1, PlainTurn DEF Claims, Claimed

LEMMA BeginTurn ==
    ASSUME NEW r \in Requests, Others(r), pc'[r] \in {"save", "status"},
           op'[r] = "rotate" => pc'[r] = "save", UNCHANGED history
    PROVE  Turn(r)
  <1>1. UNCHANGED <<served, revoked>>
    BY DEF history
  <1> QED BY <1>1, PlainTurn DEF Claims, Claimed

LEMMA StartTurn ==
    ASSUME IInv, NEW r \in Requests,
           \/ \E k \in Keys, hosting \in BOOLEAN : PublishKey(r, k, hosting)
           \/ \E n \in Keys, p \in Keys \cup {NoKey}, current \in Provided \cup {Projection}, hosting \in BOOLEAN :
                 Rotate(r, n, p, current, hosting)
           \/ \E k \in Keys : Revoke(r, k)
    PROVE  Effect(r) /\ Turn(r)
  <1>1. ASSUME NEW k \in Keys, NEW hosting \in BOOLEAN, PublishKey(r, k, hosting)
        PROVE  Effect(r) /\ Turn(r)
    <2>1. PICK d \in DidDocs : d = Snapshot({k}, {k}) /\ d.usable = {k} /\ d.listed = {k}
      BY Constants
    <2>2. Begin(r, "publish", k, NoKey, d, hosting, "save") /\ chain' = chain
      BY <1>1, <2>1 DEF PublishKey
    <2> DEFINE o == "publish"
               place == "save"
    <2>0. /\ o \in {"publish", "rotate", "revoke"} /\ place \in {"save", "status"}
          /\ NoKey \in Keys \cup {NoKey} /\ d.usable \subseteq d.listed /\ k \in d.usable
          /\ place = "save" /\ o \in {"publish", "rotate"} /\ o # "rotate"
      BY <2>1
    <2> HIDE DEF o, place
    <2>3. Others(r) /\ pc'[r] = place /\ op'[r] = o /\ UNCHANGED <<registry, late, history>>
      BY <2>0, <2>2, BeginKeeps DEF o, place
    <2> QED BY <2>0, <2>3, NoEffect, BeginTurn
  <1>2. ASSUME NEW n \in Keys, NEW p \in Keys \cup {NoKey}, NEW current \in Provided \cup {Projection},
               NEW hosting \in BOOLEAN, Rotate(r, n, p, current, hosting)
        PROVE  Effect(r) /\ Turn(r)
    <2>1. current \in DidDocs
      BY ProjectionType, ProvidedAssumption DEF IInv, DidDocs, Keys
    <2>2. Begin(r, "rotate", n, p, WithKey(current, n), hosting, "save") /\ chain' = chain
      BY <1>2 DEF Rotate
    <2>3. Others(r) /\ pc'[r] = "save" /\ UNCHANGED <<registry, late, history>>
      BY <2>1, <2>2, WithKeyType, BeginKeeps
    <2> QED BY <2>3, NoEffect, BeginTurn
  <1>3. ASSUME NEW k \in Keys, Revoke(r, k)
        PROVE  Effect(r) /\ Turn(r)
    <2>1. Begin(r, "revoke", 0, k, NoDoc, FALSE, "status") /\ chain' = Chained(chain, r, k)
      BY <1>3 DEF Revoke
    <2>2. Others(r) /\ pc'[r] = "status" /\ op'[r] = "revoke" /\ UNCHANGED <<registry, late, history>>
      BY <2>1, Constants, BeginKeeps
    <2> QED BY <2>2, NoEffect, BeginTurn
  <1> QED BY <1>1, <1>2, <1>3

LEMMA SaveTurn ==
    ASSUME IInv, NEW r \in Requests, Save(r)
    PROVE  Effect(r) /\ Turn(r)
  <1> DEFINE w == Draft(key[r], IF stored[r] THEN built[r] ELSE NoDoc)
  <1>1. /\ pc[r] = "save" /\ Busy[r] = NoKey /\ Local /\ RegistryType
        /\ key[r] \in Keys /\ stored[r] \in BOOLEAN /\ seen \in [Requests -> Reads]
        /\ op[r] \in {"publish", "rotate"} /\ key[r] \in built[r].usable
    BY DEF Save, Busy, IInv, Local, Slots, SlotType, Placed
  <1>2. w \in Writes /\ w.kind = "draft" /\ w.key = key[r] /\ (stored[r] => w.doc = built[r])
    BY <1>1, WriteTypes, Constants DEF IInv, Slots, SlotType, Draft
  <1> HIDE DEF w
  <1>3. CASE Answered(w) /\ Move(r, "publish", stored[r]) /\ UNCHANGED <<seen, chain>>
    <2>1. Effect(r)
      BY <1>1, <1>2, <1>3, WriteEffect
    <2>2. /\ Others(r) /\ pc'[r] = "publish" /\ stored'[r] = stored[r]
          /\ UNCHANGED <<op, key, prev, built, served, revoked>>
      BY <1>1, <1>3, MoveKeeps DEF Local, Places
    <2>3. at'[key[r]] = "draft" /\ doc'[key[r]] = w.doc
      BY <1>1, <1>2, <1>3, AppliedEffect DEF Answered
    <2>4. Drafted(r)'
      BY <1>1, <1>2, <2>2, <2>3 DEF Drafted
    <2> QED BY <2>1, <2>2, <2>4 DEF Turn, Fresh, Claims, Claimed
  <1>4. CASE Exists(r) /\ UNCHANGED <<registry, late>>
    <2>1. CASE op[r] = "publish"
      BY <1>1, <1>4, <2>1, FailTurn, NoEffect DEF Exists
    <2>2. CASE op[r] = "rotate" /\ stored[r]
      <3>1. Move(r, "attach", stored[r]) /\ UNCHANGED seen
        BY <1>4, <2>2 DEF Exists
      <3>2. /\ Others(r) /\ pc'[r] = "attach" /\ UNCHANGED <<served, revoked>>
        BY <1>1, <2>2, <3>1, MoveKeeps DEF Local, Places
      <3> QED BY <1>4, <3>2, PlainTurn, NoEffect DEF Claims, Claimed
    <2>3. CASE op[r] = "rotate" /\ ~stored[r]
      <3>1. Retire(r, chain, stored[r])
        BY <1>4, <2>3 DEF Exists
      <3> QED BY <1>1, <1>4, <2>3, <3>1, RetireTurn, NoEffect
    <2> QED BY <1>1, <2>1, <2>2, <2>3
  <1>5. CASE Lost(w) /\ Fail(r) /\ UNCHANGED chain
    BY <1>1, <1>2, <1>5, WriteEffect, FailTurn
  <1> QED BY <1>3, <1>4, <1>5 DEF Save, w

LEMMA GoTurn ==
    ASSUME IInv, NEW r \in Requests, Drafted(r), Go(r)
    PROVE  Effect(r) /\ Turn(r)
  <1> DEFINE w == Publish(key[r])
  <1>1. /\ pc[r] = "publish" /\ Busy[r] = NoKey /\ Local /\ RegistryType
        /\ key[r] \in Keys /\ stored[r] \in BOOLEAN
        /\ op[r] \in {"publish", "rotate"}
    BY DEF Go, Busy, IInv, Local, Slots, SlotType, Placed
  <1>2. w \in Writes /\ w.kind = "publish" /\ w.key = key[r]
    BY <1>1, WriteTypes DEF Publish
  <1> HIDE DEF w
  <1>3. CASE Answered(w) /\ op[r] = "rotate" /\ Retire(r, chain, stored[r])
    <2>1. Effect(r) /\ at[key[r]] = "draft" /\ at'[key[r]] = "live"
      BY <1>1, <1>2, <1>3, WriteEffect, AppliedEffect DEF Answered
    <2>2. doc'[key[r]] = doc[key[r]]
      BY <1>1, <2>1 DEF Effect
    <2>3. \A k \in Keys : stored[r] /\ k = key[r] => Good(k)'
      BY <1>1, <1>3, <2>1, <2>2 DEF Drafted, Good
    <2> QED BY <1>1, <1>3, <2>1, <2>3, RetireTurn
  <1>4. CASE Answered(w) /\ op[r] # "rotate" /\ Answer(r, FALSE) /\ UNCHANGED chain
    <2>1. Others(r) /\ pc'[r] = "idle" /\ served' = served /\ revoked' = revoked
      BY <1>1, <1>4, AnswerKeeps
    <2>2. Turn(r)
      BY <2>1, PlainTurn DEF Claims, Claimed
    <2> QED BY <1>1, <1>2, <1>4, <2>2, WriteEffect
  <1>5. CASE Lost(w) /\ Fail(r) /\ UNCHANGED chain
    BY <1>1, <1>2, <1>5, WriteEffect, FailTurn
  <1> QED BY <1>3, <1>4, <1>5 DEF Go, w

LEMMA AttachTurn ==
    ASSUME IInv, NEW r \in Requests, Attach(r)
    PROVE  Effect(r) /\ Turn(r)
  <1>1. /\ pc[r] = "attach" /\ First(r, key[r]) /\ key[r] \in Keys /\ op[r] = "rotate" /\ Local
    BY DEF Attach, IInv, Local, Slots, SlotType, Placed
  <1>2. CASE Read(r, key[r], "attaching")
    <2>1. PICK k \in Keys : k = key[r]
      BY <1>1
    <2>2. /\ Others(r) /\ pc'[r] = "attaching" /\ seen'[r] = [status |-> status[k], doc |-> doc[k]]
          /\ at[k] = "live" /\ UNCHANGED <<registry, late, key, history>>
      BY <1>1, <1>2, <2>1, ReadKeeps
    <2>3. \A n \in Keys : Fresh(r, n)'
      BY <2>1, <2>2 DEF Fresh, registry
    <2>4. Drafted(r)' /\ ~Claims(r)' /\ UNCHANGED <<served, revoked>>
      BY <2>2 DEF Drafted, Claims, history
    <2> QED BY <2>2, <2>3, <2>4, NoEffect DEF Turn, Claimed
  <1>3. CASE Retire(r, Unchained(chain, r, key[r]), FALSE) /\ UNCHANGED <<registry, late>>
    BY <1>1, <1>3, RetireTurn, NoEffect
  <1> QED BY <1>2, <1>3 DEF Attach

LEMMA AttachWriteTurn ==
    ASSUME IInv, NEW r \in Requests, AttachWrite(r)
    PROVE  Effect(r) /\ Turn(r)
  <1> DEFINE w == Update(key[r], seen[r].status, built[r])
  <1>1. /\ pc[r] = "attaching" /\ First(r, key[r]) /\ key[r] \in Keys /\ op[r] = "rotate" /\ Local
        /\ RegistryType /\ key[r] \in built[r].usable
    BY DEF AttachWrite, IInv, Local, Slots, SlotType, Placed, Working
  <1>2. /\ w \in Writes /\ w.kind = "update" /\ w.key = key[r]
        /\ w.status = seen[r].status /\ w.doc = built[r]
    BY WriteTypes DEF IInv, Slots, SlotType, Reads, Update
  <1> HIDE DEF w
  <1>3. CASE Answered(w) /\ Retire(r, Unchained(chain, r, key[r]), TRUE)
    <2>1. \A k \in Keys : k = key[r] => Good(k)'
      BY <1>1, <1>2, <1>3, AppliedEffect DEF Answered, Good
    <2> QED BY <1>1, <1>2, <1>3, <2>1, WriteEffect, RetireTurn
  <1>4. CASE Lost(w) /\ Retire(r, Unchained(chain, r, key[r]), FALSE)
    BY <1>1, <1>2, <1>4, WriteEffect, RetireTurn
  <1> QED BY <1>3, <1>4 DEF AttachWrite, w

\* A status change that is answered.
LEMMA DoneTurn ==
    ASSUME IInv, NEW r \in Requests, pc[r] \in {"status", "changing"}, First(r, prev[r]), StatusDone(r),
           \A k \in Keys : op[r] = "revoke" /\ k = prev[r] => Dead(k)'
    PROVE  Turn(r)
  <1>1. Local /\ prev[r] \in Keys /\ stored[r] \in BOOLEAN /\ key[r] \in Keys
    BY DEF IInv, Local, Slots, SlotType, Placed
  <1>2. /\ Others(r) /\ pc'[r] = "idle"
        /\ served' = IF op[r] = "rotate" /\ stored[r] THEN served \cup {key[r]} ELSE served
        /\ revoked' = IF op[r] = "revoke" THEN revoked \cup {prev[r]} ELSE revoked
    BY <1>1, AnswerKeeps DEF StatusDone
  <1>3. \A k \in served' : Claimed(k)
    BY <1>2 DEF Claimed, Claims
  <1> QED BY <1>1, <1>2, <1>3, PlainTurn DEF Claims

LEMMA ReadStatusTurn ==
    ASSUME IInv, NEW r \in Requests, ReadStatus(r)
    PROVE  Effect(r) /\ Turn(r)
  <1>1. /\ pc[r] = "status" /\ First(r, prev[r]) /\ prev[r] \in Keys /\ Local /\ stored[r] \in BOOLEAN
        /\ key[r] \in Keys
    BY DEF ReadStatus, IInv, Local, Slots, SlotType, Placed
  <1>2. CASE Advances(status[prev[r]], Wanted(r)) /\ Read(r, prev[r], "changing")
    <2>1. PICK k \in Keys : k = prev[r]
      BY <1>1
    <2>2. /\ Others(r) /\ pc'[r] = "changing" /\ seen'[r] = [status |-> status[k], doc |-> doc[k]]
          /\ at[k] = "live" /\ stored'[r] = stored[r]
          /\ UNCHANGED <<registry, late, op, key, prev, history>>
      BY <1>1, <1>2, <2>1, ReadKeeps
    <2>3. UNCHANGED <<at, status, doc, served, revoked>> /\ Wanted(r)' = Wanted(r)
      BY <2>2 DEF registry, history, Wanted
    <2>4. Advances(status[k], Wanted(r))'
      BY <1>2, <2>1, <2>3 DEF Advances
    <2>5. \A n \in Keys : Fresh(r, n)'
      BY <2>1, <2>2, <2>3, <2>4 DEF Fresh
    <2>6. Drafted(r)' /\ (Claims(r)' => Claims(r))
      BY <1>1, <2>2 DEF Drafted, Claims
    <2> QED BY <2>2, <2>3, <2>5, <2>6, NoEffect DEF Turn, Claimed
  <1>3. CASE /\ prev[r] \in Live /\ ~Advances(status[prev[r]], Wanted(r))
             /\ StatusDone(r) /\ UNCHANGED <<registry, late>>
    <2>1. \A k \in Keys : op[r] = "revoke" /\ k = prev[r] => Dead(k)'
      <3>1. status[prev[r]] \in Statuses
        BY <1>1 DEF IInv, RegistryType
      <3> QED BY <1>3, <3>1, AdvanceFacts DEF Dead, Live, Wanted, registry
    <2> QED BY <1>1, <1>3, <2>1, DoneTurn, NoEffect
  <1>4. CASE StatusThrows(r) /\ UNCHANGED <<registry, late>>
    BY <1>1, <1>4, FailTurn, NoEffect DEF StatusThrows
  <1> QED BY <1>2, <1>3, <1>4 DEF ReadStatus

LEMMA WriteStatusTurn ==
    ASSUME IInv, NEW r \in Requests, WriteStatus(r)
    PROVE  Effect(r) /\ Turn(r)
  <1> DEFINE w == Update(prev[r], Wanted(r), seen[r].doc)
  <1>1. /\ pc[r] = "changing" /\ First(r, prev[r]) /\ prev[r] \in Keys /\ Local /\ RegistryType
    BY DEF WriteStatus, IInv, Local, Slots, SlotType, Placed, Working
  <1>2. /\ w \in Writes /\ w.kind = "update" /\ w.key = prev[r]
        /\ w.status = Wanted(r) /\ w.doc = seen[r].doc
    BY <1>1, WriteTypes DEF IInv, Slots, SlotType, Reads, Wanted, Statuses, Update
  <1> HIDE DEF w
  <1>3. CASE Answered(w) /\ StatusDone(r)
    <2>1. \A k \in Keys : op[r] = "revoke" /\ k = prev[r] => Dead(k)'
      BY <1>1, <1>2, <1>3, AppliedEffect DEF Answered, Dead, Wanted
    <2> QED BY <1>1, <1>2, <1>3, <2>1, WriteEffect, DoneTurn
  <1>4. CASE Lost(w) /\ StatusThrows(r)
    BY <1>1, <1>2, <1>4, WriteEffect, FailTurn DEF StatusThrows
  <1> QED BY <1>3, <1>4 DEF WriteStatus, w

\* A write that was lost on the way: nothing it can do but to a draft.
LEMMA LateSame ==
    ASSUME IInv, LateWrite, NEW k \in Keys, Untroubled(k)
    PROVE  /\ late' = late
           /\ at[k] = "live" => Same(k)
           /\ at[k] = "draft" => at'[k] \in {"draft", "live"} /\ doc'[k] = doc[k]
  <1>1. PICK w \in late : Applied(w) /\ late' = late
    BY DEF LateWrite
  <1>2. w \in Writes /\ RegistryType /\ (w.kind = "update" => w.key # k)
    BY DEF IInv, RegistryType, Untroubled
  <1> QED BY <1>1, <1>2, AppliedEffect

LEMMA StepTurn ==
    ASSUME IInv, \A q \in Requests : Drafted(q), Next, ~LateWrite
    PROVE  \E r \in Requests : Effect(r) /\ Turn(r)
  <1>1. PICK r \in Requests :
           \/ \E k \in Keys, hosting \in BOOLEAN : PublishKey(r, k, hosting)
           \/ \E n \in Keys, p \in Keys \cup {NoKey}, current \in Provided \cup {Projection}, hosting \in BOOLEAN :
                 Rotate(r, n, p, current, hosting)
           \/ \E k \in Keys : Revoke(r, k)
           \/ Step(r)
    BY DEF Next
  <1>2. CASE Step(r)
    BY <1>2, SaveTurn, GoTurn, AttachTurn, AttachWriteTurn, ReadStatusTurn, WriteStatusTurn DEF Step
  <1> QED BY <1>1, <1>2, StartTurn

LEMMA KeptLate ==
    ASSUME NEW k \in Keys, IInv, Kept(k), LateWrite
    PROVE  Kept(k)'
  <1>1. UNCHANGED <<late, pc, op, key, prev, built, stored, seen, served, revoked>>
    BY DEF LateWrite, slot, history
  <1>2. /\ Untroubled(k)' <=> Untroubled(k)
        /\ Claimed(k)' <=> Claimed(k)
    BY <1>1 DEF Untroubled, Claimed, Claims
  <1>3. ASSUME NEW r \in Requests
        PROVE  Fresh(r, k)'
    <2>1. Fresh(r, k) /\ Wanted(r)' = Wanted(r)
      BY <1>1 DEF Kept, Wanted
    <2> QED BY <1>1, <1>2, <2>1, LateSame DEF Fresh, Same, Advances
  <1>4. ASSUME NEW r \in Requests
        PROVE  Drafted(r)'
    <2>1. PICK w \in late : Applied(w)
      BY DEF LateWrite
    <2>2. PICK n \in Keys : n = key[r]
      BY DEF IInv, Slots, SlotType
    <2>3. w \in Writes /\ RegistryType /\ Drafted(r) /\ at[n] \in {"absent", "draft", "live"}
      BY <2>2 DEF IInv, RegistryType, Kept
    <2>4. at[n] = "live" => at'[n] = "live"
      BY <2>1, <2>3, AppliedEffect DEF Same
    <2>5. at[n] = "draft" => at'[n] \in {"draft", "live"} /\ doc'[n] = doc[n]
      BY <2>1, <2>3, AppliedEffect
    <2> QED BY <1>1, <2>2, <2>3, <2>4, <2>5 DEF Drafted
  <1>5. ASSUME Untroubled(k)'
        PROVE  (Claimed(k)' => Good(k)') /\ (k \in revoked' => Dead(k)')
    <2>1. Untroubled(k) /\ (Claimed(k) => Good(k)) /\ (k \in revoked => Dead(k))
      BY <1>2, <1>5 DEF Kept
    <2>2. at[k] = "live" => Same(k)
      BY <2>1, LateSame
    <2> QED BY <1>1, <1>2, <2>1, <2>2 DEF Good, Dead, Same
  <1> QED BY <1>3, <1>4, <1>5 DEF Kept

LEMMA KeptStep ==
    ASSUME NEW k \in Keys, Apart(k), IInv, Kept(k), [Next]_vars
    PROVE  Kept(k)'
  <1>1. CASE UNCHANGED vars
    BY <1>1 DEF vars, registry, slot, history, Kept, Fresh, Drafted, Claimed, Claims, Good, Dead,
                Untroubled, Advances, Wanted
  <1>2. CASE LateWrite
    BY <1>2, KeptLate
  <1>3. CASE Next /\ ~LateWrite
    <2>1. IInv'
      BY NextIInv
    <2>2. \A q \in Requests : Drafted(q)
      BY DEF Kept
    <2> QED BY <1>3, <2>1, <2>2, StepTurn, KeptNext
  <1> QED BY <1>1, <1>2, <1>3

LEMMA KeptInit ==
    ASSUME Init, NEW k \in Keys
    PROVE  Kept(k)
  BY DEF Init, Kept, Fresh, Drafted, Claimed, Claims

LEMMA KeptHolds ==
    ASSUME NEW k \in Keys
    PROVE  Spec /\ []Apart(k) => []Kept(k)
  <1>1. Init => Kept(k)
    BY KeptInit
  <1>2. IInv /\ Apart(k) /\ Kept(k) /\ [Next]_vars => Kept(k)'
    BY KeptStep
  <1> QED BY Invariant, <1>1, <1>2, PTL DEF Spec

(* Any number of replicas, requests and keys: an answered revocation of a   *)
(* key is what verifiers find as long as no two replicas are between their  *)
(* look-up of its record and their write of it at once, and no lost update  *)
(* of it is on its way.  What is left to chance is that overlap alone       *)
(* (setKeyStatus, client.ts:484-493; keyStatusWrites, client.ts:27-33).     *)
THEOREM RevokedApart ==
    ASSUME NEW k \in Keys
    PROVE  Spec /\ []Apart(k) => [](k \in revoked /\ Untroubled(k) => KeyCheck(k) = "REVOKED")
  <1>1. IInv /\ Kept(k) => (k \in revoked /\ Untroubled(k) => KeyCheck(k) = "REVOKED")
    BY DEF Kept, Dead, KeyCheck
  <1> QED BY Invariant, KeptHolds, <1>1, PTL

(* The same of a document a rotation reported as stored (keys.ts:708-754).  *)
THEOREM StoredApart ==
    ASSUME NEW k \in Keys
    PROVE  Spec /\ []Apart(k) => [](k \in served /\ Untroubled(k) => at[k] = "live" /\ k \in doc[k].usable)
  <1>1. Kept(k) => (k \in served /\ Untroubled(k) => at[k] = "live" /\ k \in doc[k].usable)
    BY DEF Kept, Claimed, Good
  <1> QED BY KeptHolds, <1>1, PTL

\* What a step does to a published record of k.
Keeps(k) ==
    /\ at'[k] = "live"
    /\ KEY_STATUS_RANK[status'[k]] >= KEY_STATUS_RANK[status[k]]
    /\ doc[k] # NoDoc => doc'[k] # NoDoc

LEMMA KeepsStep ==
    ASSUME NEW k \in Keys, IInv, Kept(k), [Next]_vars, k \in Live, Untroubled(k)
    PROVE  Keeps(k)
  <1>1. at[k] = "live" /\ status[k] \in Statuses /\ KEY_STATUS_RANK[status[k]] \in Nat
    BY AdvanceFacts DEF Live, IInv, RegistryType
  <1>2. CASE at'[k] = "live" /\ Same(k)
    BY <1>1, <1>2 DEF Same, Keeps
  <1>3. CASE UNCHANGED vars \/ LateWrite
    <2>1. Same(k) /\ at'[k] = "live"
      BY <1>1, <1>3, LateSame DEF vars, registry, Same
    <2> QED BY <1>2, <2>1
  <1>4. CASE Next /\ ~LateWrite
    <2>1. PICK r \in Requests : Effect(r) /\ Turn(r)
      BY <1>4, StepTurn DEF Kept
    <2>2. Fresh(r, k) /\ Placed(r)
      BY DEF Kept, IInv, Slots
    <2>3. at'[k] = "live"
      BY <1>1, <2>1 DEF Effect
    <2>4. ASSUME pc[r] = "attaching", k = key[r], status'[k] = seen[r].status, doc'[k] = built[r]
          PROVE  Keeps(k)
      <3>1. status'[k] = status[k] /\ k \in doc'[k].usable
        BY <1>1, <2>2, <2>4 DEF Fresh, Placed
      <3> QED BY <1>1, <2>3, <3>1, Constants DEF Keeps
    <2>5. ASSUME pc[r] = "changing", k = prev[r], status'[k] = Wanted(r), doc'[k] = seen[r].doc
          PROVE  Keeps(k)
      <3>1. doc'[k] = doc[k] /\ Advances(status[k], status'[k]) /\ status'[k] \in Statuses
        BY <1>1, <2>2, <2>5 DEF Fresh, Wanted, Statuses
      <3>2. KEY_STATUS_RANK[status'[k]] \in Nat
        BY <3>1, AdvanceFacts
      <3> QED BY <1>1, <2>3, <3>1, <3>2 DEF Advances, Keeps
    <2> QED BY <1>1, <1>2, <2>1, <2>3, <2>4, <2>5 DEF Effect
  <1> QED BY <1>3, <1>4

(* And no step takes the status of such a record back, removes it or drops  *)
(* a document from it (setKeyStatus, setKeyDocument, client.ts:484-619).    *)
THEOREM NothingLostApart ==
    ASSUME NEW k \in Keys
    PROVE  Spec /\ []Apart(k) => [][Untroubled(k) /\ k \in Live => Keeps(k)]_registry
  <1>1. IInv /\ Kept(k) /\ [Next]_vars => [Untroubled(k) /\ k \in Live => Keeps(k)]_registry
    BY KeepsStep
  <1> QED BY Invariant, KeptHolds, <1>1, PTL DEF Spec

-----------------------------------------------------------------------------
(* One server                                                               *)

AllKept == \A k \in Keys : Kept(k)

LEMMA AllKeptHolds ==
    ASSUME OneHost
    PROVE  Spec => []AllKept
  <1>1. Init => AllKept
    BY KeptInit DEF AllKept
  <1>2. IInv /\ AllKept /\ [Next]_vars => AllKept'
    <2>1. \A k \in Keys : Apart(k)
      BY DEF OneHost, Apart
    <2> QED BY <2>1, KeptStep DEF AllKept
  <1> QED BY Invariant, <1>1, <1>2, PTL DEF Spec

(* The requests of one server, however many, and however many keys: once a  *)
(* revocation was answered, verifiers reject what the key signed, unless an *)
(* update of its record is still on its way (setKeyStatus, client.ts:484-   *)
(* 493).                                                                    *)
THEOREM RevokedHolds ==
    ASSUME OneHost
    PROVE  Spec => []RevokedRejected
  <1>1. IInv /\ AllKept => RevokedRejected
    BY DEF IInv, AllKept, Kept, Dead, RevokedRejected, KeyCheck
  <1> QED BY Invariant, AllKeptHolds, <1>1, PTL

(* A rotation that reports its document as stored has it where lookups find *)
(* it (keys.ts:708-754).                                                    *)
THEOREM StoredHolds ==
    ASSUME OneHost
    PROVE  Spec => []StoredIsServed
  <1>1. IInv /\ AllKept => StoredIsServed
    BY DEF IInv, AllKept, Kept, Claimed, Good, StoredIsServed
  <1> QED BY Invariant, AllKeptHolds, <1>1, PTL

(* No step takes a status back, removes a published record or drops an      *)
(* attached document (setKeyStatus and setKeyDocument, client.ts:484-619).  *)
THEOREM NothingLostHolds ==
    ASSUME OneHost
    PROVE  Spec => NothingLost
  <1>1. IInv /\ AllKept /\ [Next]_vars =>
          [\A k \in Live : Untroubled(k) =>
              /\ at'[k] = "live"
              /\ KEY_STATUS_RANK[status'[k]] >= KEY_STATUS_RANK[status[k]]
              /\ doc[k] # NoDoc => doc'[k] # NoDoc]_registry
    <2>1. Live \subseteq Keys
      BY DEF Live
    <2> QED BY <2>1, KeepsStep DEF AllKept, Keeps
  <1> QED BY Invariant, AllKeptHolds, <1>1, PTL DEF Spec, NothingLost
=============================================================================
