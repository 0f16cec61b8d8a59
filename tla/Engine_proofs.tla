---------------------------- MODULE Engine_proofs ----------------------------
(***************************************************************************)
(* Proofs about Engine, for every number of servers, jobs, tables and      *)
(* types, every batch size, load and number of failures.                   *)
(***************************************************************************)
EXTENDS Engine, FiniteSetTheorems, SequenceTheorems, TLAPS

(***************************************************************************)
(* Capabilities: bitmaps lose nothing, whatever the number of types is.    *)
(***************************************************************************)

(* The bit of a type lies in the buffer, and no two types share one.       *)
LEMMA Positions ==
  ASSUME NEW n \in Nat
  PROVE  /\ BytesFor(n) \in Nat
         /\ \A k \in 1..n : ByteIdx(k) \in 1..BytesFor(n) /\ BitIdx(k) \in 0..7
         /\ \A i, k \in 1..n : ByteIdx(i) = ByteIdx(k) /\ BitIdx(i) = BitIdx(k) => i = k
  BY DEF BytesFor, ByteIdx, BitIdx

(* capabilitiesToBuffer returns a buffer with a byte for every 8 types.    *)
LEMMA EncodingIsBuffer ==
  ASSUME NEW T, NEW allSorted \in Seq(T), NEW C
  PROVE  /\ capabilitiesToBuffer(C, allSorted) \in Buffer
         /\ Len(capabilitiesToBuffer(C, allSorted)) = BytesFor(Len(allSorted))
<1> DEFINE n == Len(allSorted)
           byte(b) == {BitIdx(k) : k \in {i \in 1..n : ByteIdx(i) = b /\ allSorted[i] \in C}}
<1>1. n \in Nat
  OBVIOUS
<1>2. BytesFor(n) \in Nat
  BY <1>1, Positions
<1>3. ASSUME NEW b
      PROVE  byte(b) \in Byte
  BY <1>1, Positions DEF Byte
<1>4. capabilitiesToBuffer(C, allSorted) = [b \in 1..BytesFor(n) |-> byte(b)]
  BY DEF capabilitiesToBuffer
<1> HIDE DEF n, byte
<1>5. [b \in 1..BytesFor(n) |-> byte(b)] \in Seq(Byte)
  BY <1>2, <1>3
<1>6. Len([b \in 1..BytesFor(n) |-> byte(b)]) = BytesFor(n)
  BY <1>2, <1>5
<1> QED
  BY <1>4, <1>5, <1>6 DEF Buffer, n

(* bufferToCapabilities undoes capabilitiesToBuffer: a server that decodes *)
(* a bitmap finds the types that were encoded, all of them and no others.  *)
THEOREM RoundTrip ==
  ASSUME NEW T, NEW allSorted \in Seq(T), NEW C,
         C \subseteq {allSorted[k] : k \in 1..Len(allSorted)}
  PROVE  bufferToCapabilities(capabilitiesToBuffer(C, allSorted), allSorted) = C
<1> DEFINE n == Len(allSorted)
           buffer == capabilitiesToBuffer(C, allSorted)
<1>1. n \in Nat
  OBVIOUS
<1>2. Len(buffer) = BytesFor(n)
  BY EncodingIsBuffer
<1>3. ASSUME NEW k \in 1..n
      PROVE  (ByteIdx(k) <= Len(buffer) /\ BitIdx(k) \in buffer[ByteIdx(k)])
               <=> allSorted[k] \in C
  <2>1. /\ ByteIdx(k) \in 1..BytesFor(n)
        /\ BytesFor(n) \in Nat
    BY <1>1, Positions
  <2>2. buffer[ByteIdx(k)] = {BitIdx(i) : i \in {m \in 1..n : ByteIdx(m) = ByteIdx(k) /\ allSorted[m] \in C}}
    BY <2>1 DEF capabilitiesToBuffer
  <2>3. ASSUME NEW i \in 1..n, ByteIdx(i) = ByteIdx(k), BitIdx(i) = BitIdx(k)
        PROVE  i = k
    BY <1>1, <2>3, Positions
  <2>4. BitIdx(k) \in buffer[ByteIdx(k)] <=> allSorted[k] \in C
    BY <2>2, <2>3
  <2> QED
    BY <1>2, <2>1, <2>4
<1> HIDE DEF buffer
<1> QED
  BY <1>3 DEF bufferToCapabilities, buffer

(* mergeCapabilityBuffers: the merged bitmap names what either one names,  *)
(* also when the two differ in length.                                     *)
THEOREM MergeIsUnion ==
  ASSUME NEW T, NEW allSorted \in Seq(T), NEW target \in Buffer, NEW source \in Buffer
  PROVE  bufferToCapabilities(mergeCapabilityBuffers(target, source), allSorted)
           = bufferToCapabilities(target, allSorted) \cup bufferToCapabilities(source, allSorted)
<1> DEFINE n == Len(allSorted)
           merged == mergeCapabilityBuffers(target, source)
           bits(buffer) == {i \in 1..n : ByteIdx(i) <= Len(buffer) /\ BitIdx(i) \in buffer[ByteIdx(i)]}
<1>1. n \in Nat /\ Len(target) \in Nat /\ Len(source) \in Nat
  BY DEF Buffer
<1>2. Len(merged) = IF Len(target) < Len(source) THEN Len(source) ELSE Len(target)
  BY <1>1 DEF mergeCapabilityBuffers
<1>3. ASSUME NEW b \in 1..Len(merged)
      PROVE  merged[b] = ByteAt(target, b) \cup ByteAt(source, b)
  BY <1>2 DEF mergeCapabilityBuffers
<1> HIDE DEF merged
<1>4. ASSUME NEW i \in 1..n
      PROVE  i \in bits(merged) <=> i \in bits(target) \/ i \in bits(source)
  <2>1. ByteIdx(i) \in Nat \ {0}
    BY <1>1 DEF ByteIdx
  <2> QED
    BY <1>1, <1>2, <1>3, <2>1 DEF ByteAt
<1>5. bits(merged) = bits(target) \cup bits(source)
  BY <1>4
<1>6. ASSUME NEW buffer
      PROVE  bufferToCapabilities(buffer, allSorted) = {allSorted[k] : k \in bits(buffer)}
  BY DEF bufferToCapabilities
<1> HIDE DEF bits
<1> QED
  BY <1>5, <1>6 DEF merged

(***************************************************************************)
(* Data                                                                    *)
(***************************************************************************)

(* A pick asks for at least one job and for at most two batches, whatever  *)
(* the server and the ring have running (workflowPicker.ts, targetJobs).   *)
THEOREM TargetInRange ==
  ASSUME NEW running \in Nat, NEW average \in Nat
  PROVE  TargetJobs(running, average) \in 1..(2 * BatchSize)
<1> DEFINE num == 10000 * running + 1
           den == 10000 * average + 1
<1>0. /\ num \in Nat \ {0} /\ den \in Nat \ {0} /\ BatchSize \in Nat \ {0}
  BY EngineAssumption
<1> HIDE DEF num, den
<1>1. 2 * BatchSize \in 1..(2 * BatchSize)
  BY <1>0
<1>2. (BatchSize + 5) \div 6 \in 1..(2 * BatchSize)
  BY <1>0
<1>3. ASSUME ~(2 * num <= den)
      PROVE  (BatchSize * den + num - 1) \div num \in 1..(2 * BatchSize)
  <2> DEFINE a == BatchSize * den + num - 1
  <2>1. \A m, n, k \in Nat : m <= n => k * m <= k * n
    OBVIOUS
  <2>2. BatchSize * den \in Nat /\ BatchSize * den >= 1
    <3>1. \A m, n \in Nat \ {0} : m * n \in Nat /\ m * n >= 1
      OBVIOUS
    <3>2. QED
      BY <1>0, <3>1
  <2>3. BatchSize * den <= BatchSize * (2 * num - 1)
    BY <1>0, <1>3, <2>1
  <2>4. BatchSize * (2 * num - 1) = 2 * BatchSize * num - BatchSize
    BY <1>0
  <2>5. a \in Nat /\ a >= num /\ a < 2 * BatchSize * num + num
    <3>1. 2 * BatchSize * num \in Nat
      BY <1>0
    <3>2. QED
      BY <1>0, <2>2, <2>3, <2>4, <3>1
  <2>6. a \in Nat /\ num * 1 <= a /\ a < num * (2 * BatchSize + 1)
    <3>1. num * (2 * BatchSize + 1) = 2 * BatchSize * num + num
      BY <1>0
    <3>2. QED
      BY <1>0, <2>5, <3>1
  <2> HIDE DEF a
  <2>7. \A q \in Int, r \in Int : a = num * q + r /\ 0 <= r /\ r < num => q >= 1 /\ q <= 2 * BatchSize
    <3> SUFFICES ASSUME NEW q \in Int, NEW r \in Int, a = num * q + r, 0 <= r, r < num
                 PROVE  q >= 1 /\ q <= 2 * BatchSize
      OBVIOUS
    <3>1. ASSUME q <= 0 PROVE FALSE
      <4>1. num * q <= 0
        BY <1>0, <3>1
      <4>2. QED
        BY <1>0, <2>6, <4>1
    <3>2. ASSUME q >= 2 * BatchSize + 1 PROVE FALSE
      <4>1. num * q >= num * (2 * BatchSize + 1)
        BY <1>0, <3>2
      <4>2. QED
        BY <1>0, <2>6, <4>1
    <3>3. QED
      BY <1>0, <3>1, <3>2
  <2>8. a \div num \in Int /\ a = num * (a \div num) + (a % num) /\ a % num \in 0..(num - 1)
    <3>1. \A m \in Int, n \in Nat \ {0} :
            m \div n \in Int /\ m = n * (m \div n) + (m % n) /\ m % n \in 0..(n - 1)
      OBVIOUS
    <3>2. QED
      BY <1>0, <2>6, <3>1
  <2>9. a \div num >= 1 /\ a \div num <= 2 * BatchSize
    <3> DEFINE q == a \div num
               r == a % num
    <3>1. q \in Int /\ a = num * q + r /\ r \in Int /\ 0 <= r /\ r < num
      BY <1>0, <2>8
    <3> HIDE DEF q, r
    <3>2. q >= 1 /\ q <= 2 * BatchSize
      BY <2>7, <3>1
    <3>3. QED
      BY <3>2 DEF q
  <2>10. a \div num \in 1..(2 * BatchSize)
    BY <1>0, <2>8, <2>9
  <2>11. QED
    BY <2>10 DEF a
<1>4. QED
  BY <1>1, <1>2, <1>3 DEF TargetJobs, num, den

(* What the bitmaps are: buffers that name types.                          *)
LEMMA BuffersTyped ==
  /\ AllSorted \in Seq(Types)
  /\ \A types : capabilitiesToBuffer(types, AllSorted) \in Buffer
  /\ \A types \in SUBSET Types :
       bufferToCapabilities(capabilitiesToBuffer(types, AllSorted), AllSorted) = types
  /\ \A a, b \in Buffer : mergeCapabilityBuffers(a, b) \in Buffer
  /\ \A a, b \in Buffer :
       bufferToCapabilities(mergeCapabilityBuffers(a, b), AllSorted)
         = bufferToCapabilities(a, AllSorted) \cup bufferToCapabilities(b, AllSorted)
  /\ \A a \in Buffer : bufferToCapabilities(a, AllSorted) \in SUBSET Types
  /\ bufferToCapabilities(<<>>, AllSorted) = {}
  /\ <<>> \in Buffer
<1>1. AllSorted \in Seq(Types)
  BY EngineAssumption
<1>2. \A types : capabilitiesToBuffer(types, AllSorted) \in Buffer
  BY <1>1, EncodingIsBuffer
<1>3. \A types \in SUBSET Types :
        bufferToCapabilities(capabilitiesToBuffer(types, AllSorted), AllSorted) = types
  BY <1>1, RoundTrip DEF Types
<1>4. ASSUME NEW a \in Buffer, NEW b \in Buffer
      PROVE  mergeCapabilityBuffers(a, b) \in Buffer
  <2> DEFINE n == IF Len(a) < Len(b) THEN Len(b) ELSE Len(a)
             byte(i) == ByteAt(a, i) \cup ByteAt(b, i)
  <2>1. n \in Nat
    BY DEF Buffer
  <2>2. \A i \in 1..n : byte(i) \in Byte
    <3>1. \A i \in 1..n : ByteAt(a, i) \in Byte /\ ByteAt(b, i) \in Byte
      BY <2>1 DEF ByteAt, Buffer, Byte
    <3>2. QED
      BY <3>1 DEF Byte
  <2> HIDE DEF n, byte
  <2>3. [i \in 1..n |-> byte(i)] \in Seq(Byte)
    BY <2>1, <2>2, IsASeq
  <2>4. QED
    BY <2>3 DEF mergeCapabilityBuffers, Buffer, n, byte
<1>5. \A a, b \in Buffer :
        bufferToCapabilities(mergeCapabilityBuffers(a, b), AllSorted)
          = bufferToCapabilities(a, AllSorted) \cup bufferToCapabilities(b, AllSorted)
  BY <1>1, MergeIsUnion
<1>6. \A a \in Buffer : bufferToCapabilities(a, AllSorted) \in SUBSET Types
  BY DEF bufferToCapabilities, Types
<1>7. bufferToCapabilities(<<>>, AllSorted) = {}
  <2>1. \A i \in 1..Len(AllSorted) : ~(ByteIdx(i) <= Len(<<>>))
    <3>1. Len(AllSorted) \in Nat
      BY <1>1
    <3>2. QED
      BY <3>1 DEF ByteIdx
  <2>2. QED
    BY <2>1 DEF bufferToCapabilities
<1>8. <<>> \in Buffer
  BY DEF Buffer
<1>9. QED
  BY <1>1, <1>2, <1>3, <1>4, <1>5, <1>6, <1>7, <1>8

(* The pickers.                                                            *)
LEMMA TablesTyped ==
  /\ Tables \in Seq(TableSet)
  /\ Tables # <<>>
  /\ \A j \in Jobs : TableOf[j] \in TableSet
<1>1. Tables \in Seq(TableSet) /\ Len(Tables) >= 1
  BY EngineAssumption
<1>2. Tables # <<>>
  BY <1>1
<1>3. \A j \in Jobs : TableOf[j] \in TableSet
  BY EngineAssumption DEF TableSet
<1>4. QED
  BY <1>1, <1>2, <1>3

(***************************************************************************)
(* Types                                                                   *)
(***************************************************************************)

(* The cycles of a scan and of a reset never run below zero.               *)
Scanning == \A s \in Servers : \A t \in TableSet : pick[s].ctl[t] = "scan" => pick[s].cycles[t] >= 1

Budget ==
  /\ Scanning
  /\ \A d \in Servers : reset[d] # NoReset => reset[d].cycles >= 1 /\ reset[d].left # <<>>

Typed == TypeOK /\ Budget

LEMMA NoPickTyped == NoPick \in PickState
BY EngineAssumption DEF NoPick, PickState

LEMMA RemadeTyped ==
  ASSUME NEW members \in SUBSET Servers
  PROVE  Remade(members) \in TokenState
BY BuffersTyped DEF Remade, TokenState

LEMMA InitTyped == Init => Typed
<1> SUFFICES ASSUME Init PROVE Typed
  OBVIOUS
<1>1. job \in [Jobs -> JobState]
  BY EngineAssumption DEF Init, JobState
<1>2. runners \in [Servers -> SUBSET Types] /\ caps \in [Servers -> Buffer]
  BY EngineAssumption, BuffersTyped DEF Init
<1>3. token \in TokenState
  BY BuffersTyped, EngineAssumption DEF Init, TokenState
<1>4. pick \in [Servers -> PickState]
  BY NoPickTyped DEF Init
<1>5. reset \in [Servers -> ResetState]
  BY EngineAssumption, EmptySeq DEF Init, NoReset, ResetState
<1>6. /\ up \in [Servers -> {"up", "destroyed", "down"}] /\ ring \in SUBSET Servers
      /\ cands \in [Servers -> SUBSET Jobs] /\ fresh \in [Servers -> SUBSET Jobs]
      /\ late \in [Servers -> SUBSET Jobs]
      /\ runs \in SUBSET RunState /\ orphans \in SUBSET Jobs
  BY EngineAssumption DEF Init
<1>7. reported \in BOOLEAN
  BY Zenon DEF Init
<1>8. events \in Nat
  BY DEF Init
<1>9. Budget
  BY DEF Init, Budget, Scanning, NoPick
<1>10. QED
  BY <1>1, <1>2, <1>3, <1>4, <1>5, <1>6, <1>7, <1>8, <1>9 DEF Typed, TypeOK

(* A header that is written.                                               *)
LEMMA WriteTyped ==
  ASSUME TypeOK, NEW j \in Jobs,
         NEW h \in JobState,
         Write(j, h)
  PROVE  /\ job' \in [Jobs -> JobState]
         /\ fresh' \in [Servers -> SUBSET Jobs]
         /\ late' \in [Servers -> SUBSET Jobs]
BY DEF TypeOK, Write

LEMMA EventTyped ==
  ASSUME TypeOK, Event
  PROVE  events' \in Nat
BY DEF TypeOK, Event

(* The steps of a pick.                                                    *)
LEMMA OnTokenTyped ==
  ASSUME Typed, NEW s \in Servers, OnToken(s)
  PROVE  Typed'
<1>0. TypeOK /\ Budget
  BY DEF Typed
<1>1. Passed \in TokenState
  BY <1>0, BuffersTyped DEF Passed, TypeOK, TokenState
<1>2. token' \in TokenState
  <2>1. /\ caps[s] \in Buffer /\ runners[s] \in SUBSET Types
        /\ mergeCapabilityBuffers(Passed.nextCaps, caps[s]) \in Buffer
    BY <1>0, <1>1, BuffersTyped DEF TypeOK, TokenState
  <2>2. Passed.left \ {s} \in SUBSET Servers /\ Passed.nextShown \cup runners[s] \in SUBSET Types
    BY <1>1, <2>1 DEF TokenState
  <2>3. QED
    BY <1>1, <2>1, <2>2 DEF OnToken, TokenState
<1>3. PICK running \in Loads, average \in Loads : pick' = [pick EXCEPT ![s] =
         [on |-> TRUE, provisional |-> Passed.provisional,
          supported |-> bufferToCapabilities(Passed.caps, AllSorted), shown |-> Passed.shown,
          target |-> TargetJobs(running, average),
          ctl |-> [t \in TableSet |-> IF up[s] = "destroyed" THEN "failed" ELSE "scan"],
          cycles |-> [t \in TableSet |-> Cycles], got |-> {}]]
  BY DEF OnToken
<1>4. /\ TargetJobs(running, average) \in 1..(2 * BatchSize)
      /\ bufferToCapabilities(Passed.caps, AllSorted) \in SUBSET Types
      /\ Cycles \in 0..Cycles /\ Cycles >= 1
  <2>1. running \in Nat /\ average \in Nat
    BY EngineAssumption
  <2>2. TargetJobs(running, average) \in 1..(2 * BatchSize)
    BY <2>1, TargetInRange
  <2>3. Passed.caps \in Buffer
    BY <1>1 DEF TokenState
  <2>4. bufferToCapabilities(Passed.caps, AllSorted) \in SUBSET Types
    BY <2>3, BuffersTyped
  <2>5. Cycles \in Nat \ {0}
    BY EngineAssumption
  <2>6. QED
    BY <2>2, <2>4, <2>5
<1>5. [on |-> TRUE, provisional |-> Passed.provisional,
       supported |-> bufferToCapabilities(Passed.caps, AllSorted), shown |-> Passed.shown,
       target |-> TargetJobs(running, average),
       ctl |-> [t \in TableSet |-> IF up[s] = "destroyed" THEN "failed" ELSE "scan"],
       cycles |-> [t \in TableSet |-> Cycles], got |-> {}] \in PickState
  <2>1. Passed.provisional \in BOOLEAN /\ Passed.shown \in SUBSET Types
    BY <1>1 DEF TokenState
  <2>2. [t \in TableSet |-> IF up[s] = "destroyed" THEN "failed" ELSE "scan"]
          \in [TableSet -> {"scan", "adopt", "failed"}]
    OBVIOUS
  <2>3. [t \in TableSet |-> Cycles] \in [TableSet -> 0..Cycles]
    BY <1>4
  <2>4. QED
    BY <1>4, <2>1, <2>2, <2>3 DEF PickState
<1>6. pick' \in [Servers -> PickState]
  BY <1>0, <1>3, <1>5 DEF TypeOK
<1>7. UNCHANGED <<job, fresh, late, runners, caps, up, ring, cands, runs, reset, reported, orphans, events>>
  BY DEF OnToken, jobVars
<1>8. TypeOK'
  BY <1>0, <1>2, <1>6, <1>7 DEF TypeOK
<1>9. Budget'
  BY <1>0, <1>3, <1>4, <1>7 DEF Budget, Scanning, TypeOK
<1>10. QED
  BY <1>8, <1>9 DEF Typed

(* What a pick becomes when one of its pickers goes on.                    *)
LEMMA PickerTyped ==
  ASSUME Typed, NEW s \in Servers, NEW p \in PickState,
         \A v \in TableSet : p.ctl[v] = "scan" => p.cycles[v] >= 1,
         pick' = [pick EXCEPT ![s] = p]
  PROVE  pick' \in [Servers -> PickState] /\ Scanning'
BY DEF Typed, TypeOK, Budget, Scanning

LEMMA CtlTyped ==
  ASSUME NEW p \in PickState, NEW t \in TableSet, NEW c \in {"scan", "adopt", "failed"}
  PROVE  LET q == [p EXCEPT !.ctl[t] = c] IN
         /\ q \in PickState /\ q.got = p.got /\ q.cycles = p.cycles
         /\ q.ctl = [p.ctl EXCEPT ![t] = c]
BY DEF PickState

LEMMA CyclesTyped ==
  ASSUME NEW p \in PickState, NEW t \in TableSet, NEW n \in 0..Cycles
  PROVE  LET q == [p EXCEPT !.cycles[t] = n] IN
         /\ q \in PickState /\ q.got = p.got /\ q.ctl = p.ctl
         /\ q.cycles = [p.cycles EXCEPT ![t] = n]
BY DEF PickState

LEMMA GotTyped ==
  ASSUME NEW p \in PickState, NEW S \in SUBSET Jobs
  PROVE  LET q == [p EXCEPT !.got = S] IN
         /\ q \in PickState /\ q.got = S /\ q.ctl = p.ctl /\ q.cycles = p.cycles
BY DEF PickState

(* The steps of a pick.                                                    *)
LEMMA PickStepTyped ==
  ASSUME Typed, NEW s \in Servers, PickStep(s)
  PROVE  Typed'
<1>0. TypeOK /\ Budget /\ Scanning /\ pick \in [Servers -> PickState]
  BY DEF Typed, TypeOK, Budget
<1>1. ASSUME pick' \in [Servers -> PickState], Scanning',
             UNCHANGED <<runners, caps, up, ring, reset, reported>>,
             job' \in [Jobs -> JobState], token' \in TokenState,
             cands' \in [Servers -> SUBSET Jobs], fresh' \in [Servers -> SUBSET Jobs],
             late' \in [Servers -> SUBSET Jobs],
             runs' \in SUBSET RunState, orphans' \in SUBSET Jobs, events' \in Nat
      PROVE  Typed'
  BY <1>0, <1>1 DEF Typed, TypeOK, Budget
<1>2. ASSUME UNCHANGED pick
      PROVE  pick' \in [Servers -> PickState] /\ Scanning'
  BY <1>0, <1>2 DEF Scanning
<1>3. /\ job \in [Jobs -> JobState] /\ token \in TokenState
      /\ cands \in [Servers -> SUBSET Jobs] /\ fresh \in [Servers -> SUBSET Jobs]
      /\ late \in [Servers -> SUBSET Jobs]
      /\ runs \in SUBSET RunState /\ orphans \in SUBSET Jobs /\ events \in Nat
  BY <1>0 DEF TypeOK
<1> DEFINE p == pick[s]
<1>4. /\ p \in PickState /\ p.got \in SUBSET Jobs
      /\ p.cycles \in [TableSet -> 0..Cycles] /\ p.ctl \in [TableSet -> {"scan", "adopt", "failed"}]
  BY <1>0 DEF PickState
<1>5. ASSUME NEW t \in TableSet, NEW c \in {"adopt", "failed"}, pick' = [pick EXCEPT ![s].ctl[t] = c]
      PROVE  pick' \in [Servers -> PickState] /\ Scanning'
  <2> DEFINE q == [p EXCEPT !.ctl[t] = c]
  <2>0. c \in {"scan", "adopt", "failed"}
    BY <1>5
  <2>1. q \in PickState /\ q.cycles = p.cycles /\ q.ctl = [p.ctl EXCEPT ![t] = c]
    <3>1. p \in PickState
      BY <1>4
    <3> HIDE DEF p
    <3>2. QED
      BY <2>0, <3>1, CtlTyped
  <2>2. pick' = [pick EXCEPT ![s] = q]
    BY <1>5
  <2>3. \A v \in TableSet : q.ctl[v] = "scan" => q.cycles[v] >= 1
    BY <1>0, <1>4, <2>1 DEF Scanning
  <2> HIDE DEF q
  <2>4. QED
    BY <2>1, <2>2, <2>3, PickerTyped
<1>6. ASSUME NEW t \in TableSet, Scan(s, t) PROVE Typed'
  <2>1. PICK S \in SUBSET Jobs : cands' = [cands EXCEPT ![s] = @ \cup S]
                              /\ fresh' = [fresh EXCEPT ![s] = @ \cup S]
    BY <1>6 DEF Scan
  <2>2. cands' \in [Servers -> SUBSET Jobs] /\ fresh' \in [Servers -> SUBSET Jobs]
    BY <1>3, <2>1
  <2>3. pick' = [pick EXCEPT ![s].ctl[t] = "adopt"]
    BY <1>6 DEF Scan
  <2>4. pick' \in [Servers -> PickState] /\ Scanning'
    BY <1>5, <2>3
  <2>5. UNCHANGED <<job, late, runners, caps, up, ring, token, runs, reset, reported, orphans, events>>
    BY <1>6 DEF Scan, ringVars
  <2>6. QED
    BY <1>1, <1>3, <2>2, <2>4, <2>5
<1>7. ASSUME NEW t \in TableSet, ScanConflict(s, t) PROVE Typed'
  <2> DEFINE n == p.cycles[t] - 1
             c == IF p.cycles[t] = 1 THEN "failed" ELSE "scan"
  <2>1. p.cycles[t] >= 1 /\ p.cycles[t] \in 0..Cycles
    BY <1>0, <1>4, <1>7 DEF Scanning, ScanConflict
  <2>2. n \in 0..Cycles /\ c \in {"scan", "adopt", "failed"} /\ (c = "scan" => n >= 1)
    <3>1. \A m, k \in Nat : m >= 1 /\ m <= k => m - 1 \in 0..k /\ (m # 1 => m - 1 >= 1)
      OBVIOUS
    <3>2. p.cycles[t] \in Nat /\ p.cycles[t] <= Cycles /\ Cycles \in Nat
      BY <2>1, EngineAssumption
    <3>3. n \in 0..Cycles /\ (p.cycles[t] # 1 => n >= 1)
      BY <2>1, <3>1, <3>2
    <3>4. QED
      BY <3>3
  <2>3. pick' = [pick EXCEPT ![s].cycles[t] = n, ![s].ctl[t] = c]
    BY <1>7 DEF ScanConflict
  <2> HIDE DEF n, c
  <2> DEFINE q == [p EXCEPT !.cycles[t] = n]
             y == [q EXCEPT !.ctl[t] = c]
  <2>4. q \in PickState /\ q.ctl = p.ctl /\ q.cycles = [p.cycles EXCEPT ![t] = n]
    BY <1>4, <2>2, CyclesTyped
  <2>4a. pick' = [pick EXCEPT ![s] = y]
    BY <1>0, <2>3
  <2> HIDE DEF q
  <2>4b. y \in PickState /\ y.cycles = q.cycles /\ y.ctl = [q.ctl EXCEPT ![t] = c]
    BY <2>2, <2>4, CtlTyped
  <2> HIDE DEF y
  <2>4c. \A v \in TableSet : y.ctl[v] = "scan" => y.cycles[v] >= 1
    BY <1>0, <1>4, <2>2, <2>4, <2>4b DEF Scanning
  <2>5. pick' \in [Servers -> PickState] /\ Scanning'
    BY <2>4a, <2>4b, <2>4c, PickerTyped
  <2>6. UNCHANGED <<job, fresh, late, runners, caps, up, ring, token, cands, runs, reset, reported, orphans>>
        /\ events' \in Nat
    BY <1>0, <1>3, <1>7, EventTyped DEF ScanConflict, jobVars, ringVars
  <2>7. QED
    BY <1>1, <1>3, <2>5, <2>6
<1>8. ASSUME NEW t \in TableSet, ScanFails(s, t) PROVE Typed'
  <2>1. pick' = [pick EXCEPT ![s].ctl[t] = "failed"]
    BY <1>8 DEF ScanFails
  <2>2. pick' \in [Servers -> PickState] /\ Scanning'
    BY <1>5, <2>1
  <2>3. UNCHANGED <<job, fresh, late, runners, caps, up, ring, token, cands, runs, reset, reported, orphans>>
        /\ events' \in Nat
    BY <1>0, <1>8, EventTyped DEF ScanFails, jobVars, ringVars
  <2>4. QED
    BY <1>1, <1>3, <2>2, <2>3
<1>9. ASSUME NEW j \in cands[s], Adopt(s, j) PROVE Typed'
  <2>1. j \in Jobs /\ job[j] \in JobState
    BY <1>3
  <2>2. [job[j] EXCEPT !.due = "later", !.exec = s] \in JobState
    BY <2>1 DEF JobState
  <2>3. job' \in [Jobs -> JobState] /\ fresh' \in [Servers -> SUBSET Jobs]
        /\ late' \in [Servers -> SUBSET Jobs]
    BY <1>0, <1>9, <2>1, <2>2, WriteTyped DEF Adopt
  <2>4. cands' \in [Servers -> SUBSET Jobs] /\ orphans' \in SUBSET Jobs
    BY <1>3, <1>9, <2>1 DEF Adopt
  <2>5. pick' \in [Servers -> PickState] /\ Scanning'
    <3>1. p.got \cup {j} \in SUBSET Jobs
      BY <1>4, <2>1
    <3>2. [p EXCEPT !.got = p.got \cup {j}] \in PickState
      BY <1>4, <3>1 DEF PickState
    <3>3. pick' = [pick EXCEPT ![s] = [p EXCEPT !.got = p.got \cup {j}]]
      BY <1>9 DEF Adopt
    <3>4. /\ [p EXCEPT !.got = p.got \cup {j}].ctl = p.ctl
          /\ [p EXCEPT !.got = p.got \cup {j}].cycles = p.cycles
      BY <1>4 DEF PickState
    <3>5. QED
      BY <1>0, <3>2, <3>3, <3>4 DEF Scanning
  <2>6. UNCHANGED <<runners, caps, up, ring, token, runs, reset, reported, events>>
    BY <1>9 DEF Adopt, ringVars
  <2>7. QED
    BY <1>1, <1>3, <2>3, <2>4, <2>5, <2>6
<1>10. ASSUME NEW j \in cands[s], RefuseOwn(s, j) PROVE Typed'
  <2>1. j \in Jobs /\ job[j] \in JobState
    BY <1>3
  <2>2. [job[j] EXCEPT !.due = "later"] \in JobState
    BY <2>1 DEF JobState
  <2>3. job' \in [Jobs -> JobState] /\ fresh' \in [Servers -> SUBSET Jobs]
        /\ late' \in [Servers -> SUBSET Jobs]
    BY <1>0, <1>10, <2>1, <2>2, WriteTyped DEF RefuseOwn
  <2>4. cands' \in [Servers -> SUBSET Jobs]
    BY <1>3, <1>10 DEF RefuseOwn
  <2>5. UNCHANGED <<runners, caps, up, ring, token, pick, runs, reset, reported, orphans, events>>
    BY <1>10 DEF RefuseOwn, ringVars
  <2>6. QED
    BY <1>1, <1>2, <1>3, <2>3, <2>4, <2>5
<1>11. ASSUME NEW j \in cands[s], Skip(s, j) PROVE Typed'
  <2>1. cands' \in [Servers -> SUBSET Jobs]
    BY <1>3, <1>11 DEF Skip
  <2>2. UNCHANGED <<job, fresh, late, runners, caps, up, ring, token, pick, runs, reset, reported, orphans, events>>
    BY <1>11 DEF Skip, jobVars, ringVars
  <2>3. QED
    BY <1>1, <1>2, <1>3, <2>1, <2>2
<1>12. ASSUME NEW j \in cands[s], AdoptConflict(s, j) PROVE Typed'
  <2>1. cands' \in [Servers -> SUBSET Jobs]
    BY <1>3, <1>12 DEF AdoptConflict
  <2>2. UNCHANGED <<job, fresh, late, runners, caps, up, ring, token, pick, runs, reset, reported, orphans>>
        /\ events' \in Nat
    BY <1>0, <1>12, EventTyped DEF AdoptConflict, jobVars, ringVars
  <2>3. QED
    BY <1>1, <1>2, <1>3, <2>1, <2>2
<1>13. ASSUME NEW j \in cands[s], AdoptFails(s, j) PROVE Typed'
  <2> DEFINE t == TableOf[j]
             lost == {i \in p.got : TableOf[i] = t}
  <2>1. j \in Jobs /\ t \in TableSet /\ lost \in SUBSET Jobs
    BY <1>3, <1>4, TablesTyped
  <2>2. pick' = [pick EXCEPT ![s].ctl[t] = "failed", ![s].got = @ \ lost]
        /\ orphans' = orphans \cup {i \in lost : job[i].exec = s}
    BY <1>13 DEF AdoptFails
  <2> HIDE DEF lost, t
  <2>3. cands' \in [Servers -> SUBSET Jobs] /\ orphans' \in SUBSET Jobs
    BY <1>3, <1>13, <2>1, <2>2 DEF AdoptFails
  <2>3a. late' \in [Servers -> SUBSET Jobs]
    <3>1. late' = [late EXCEPT ![s] = @ \cup StillUnderWay(s, TableOf[j], j)]
      BY <1>13 DEF AdoptFails
    <3>2. StillUnderWay(s, TableOf[j], j) \in SUBSET Jobs
      BY <1>3 DEF StillUnderWay
    <3>3. QED
      BY <1>3, <3>1, <3>2
  <2> DEFINE q == [p EXCEPT !.ctl[t] = "failed"]
             y == [q EXCEPT !.got = p.got \ lost]
  <2>4. q \in PickState /\ q.got = p.got /\ q.cycles = p.cycles
        /\ q.ctl = [p.ctl EXCEPT ![t] = "failed"]
    BY <1>4, <2>1, CtlTyped
  <2>4a. pick' = [pick EXCEPT ![s] = y]
    BY <1>0, <1>4, <2>2, <2>4
  <2> HIDE DEF q
  <2>4b. y \in PickState /\ y.cycles = q.cycles /\ y.ctl = q.ctl
    BY <1>4, <2>4, GotTyped
  <2> HIDE DEF y
  <2>4c. \A v \in TableSet : y.ctl[v] = "scan" => y.cycles[v] >= 1
    BY <1>0, <1>4, <2>1, <2>4, <2>4b DEF Scanning
  <2>6. pick' \in [Servers -> PickState] /\ Scanning'
    BY <2>4a, <2>4b, <2>4c, PickerTyped
  <2>7. UNCHANGED <<job, fresh, runners, caps, up, ring, token, runs, reset, reported>> /\ events' \in Nat
    BY <1>0, <1>13, EventTyped DEF AdoptFails, jobVars, ringVars
  <2>8. QED
    BY <1>1, <1>3, <2>3, <2>3a, <2>6, <2>7
<1>14. ASSUME StartJobs(s) PROVE Typed'
  <2>1. pick' \in [Servers -> PickState]
    BY <1>0, <1>14, NoPickTyped DEF StartJobs
  <2>2. Scanning'
    BY <1>0, <1>14 DEF StartJobs, Scanning, NoPick
  <2>3. token' \in TokenState
    BY <1>3, <1>14 DEF StartJobs, TokenState
  <2>4. runs' \in SUBSET RunState
    <3>1. \A j \in pick[s].got : [job |-> j, by |-> s, able |-> TypeOf[j] \in runners[s],
                                 ctl |-> "starting"] \in RunState
      BY <1>4 DEF RunState
    <3>2. QED
      BY <1>3, <1>14, <3>1 DEF StartJobs
  <2>5. UNCHANGED <<job, fresh, late, runners, caps, up, ring, cands, reset, reported, orphans, events>>
    BY <1>14 DEF StartJobs, jobVars
  <2>6. QED
    BY <1>1, <1>3, <2>1, <2>2, <2>3, <2>4, <2>5
<1>15. ASSUME NEW j \in late[s], AdoptLate(s, j) PROVE Typed'
  <2>1. j \in Jobs /\ job[j] \in JobState
    BY <1>3
  <2>2. [job[j] EXCEPT !.due = "later", !.exec = s] \in JobState
    BY <2>1 DEF JobState
  <2>3. job' \in [Jobs -> JobState] /\ fresh' \in [Servers -> SUBSET Jobs]
        /\ late' \in [Servers -> SUBSET Jobs]
    BY <1>0, <1>15, <2>1, <2>2, WriteTyped DEF AdoptLate
  <2>4. orphans' \in SUBSET Jobs
    BY <1>3, <1>15, <2>1 DEF AdoptLate
  <2>5. UNCHANGED <<runners, caps, up, ring, token, pick, cands, runs, reset, reported, events>>
    BY <1>15 DEF AdoptLate, ringVars
  <2>6. QED
    BY <1>1, <1>2, <1>3, <2>3, <2>4, <2>5
<1>16. QED
  BY <1>6, <1>7, <1>8, <1>9, <1>10, <1>11, <1>12, <1>13, <1>14, <1>15 DEF PickStep

(* What an outcome leaves of a header is a header without an owner.        *)
LEMMA OutcomesTyped ==
  ASSUME NEW j \in Jobs, NEW h \in JobState
  PROVE  /\ \A g \in Succeeded(j, h) : g \in JobState /\ g.exec = None
         /\ \A able : \A g \in Failed(j, h, able) : g \in JobState /\ g.exec = None
<1>1. /\ h.retries \in 0..MaxRetries /\ MaxRetries \in 0..MaxRetries
      /\ h.retries > 0 => h.retries - 1 \in 0..MaxRetries
  BY EngineAssumption DEF JobState
<1>2. Never(h) \in JobState /\ Never(h).exec = None
  BY DEF Never, JobState
<1>3. ASSUME NEW n \in 0..MaxRetries
      PROVE  Later(h, n) \in JobState /\ Later(h, n).exec = None
  BY DEF Later, JobState
<1>4. ASSUME NEW n \in 0..MaxRetries, NEW g \in RepeatOrFinish(j, h, n)
      PROVE  g \in JobState /\ g.exec = None
  BY <1>2, <1>3, <1>4 DEF RepeatOrFinish
<1>5. ASSUME NEW g \in Succeeded(j, h) PROVE g \in JobState /\ g.exec = None
  BY <1>1, <1>3, <1>4, <1>5 DEF Succeeded
<1>6. ASSUME NEW able, NEW g \in Failed(j, h, able) PROVE g \in JobState /\ g.exec = None
  <2>1. \/ h.retries > 0 /\ g = Later(h, h.retries - 1)
        \/ g = Never(h)
        \/ g \in RepeatOrFinish(j, h, h.retries)
    BY <1>6 DEF Failed
  <2>2. QED
    BY <1>1, <1>2, <1>3, <1>4, <2>1
<1>7. QED
  BY <1>5, <1>6

(* The steps of a run.                                                     *)
LEMMA RunStepTyped ==
  ASSUME Typed, NEW r \in runs, RunStep(r)
  PROVE  Typed'
<1>0. TypeOK /\ Budget /\ Scanning
  BY DEF Typed, Budget
<1>1. ASSUME UNCHANGED <<runners, caps, up, ring, token, pick, cands, reset, reported>>,
             job' \in [Jobs -> JobState], fresh' \in [Servers -> SUBSET Jobs],
             late' \in [Servers -> SUBSET Jobs],
             runs' \in SUBSET RunState, orphans' \in SUBSET Jobs, events' \in Nat
      PROVE  Typed'
  BY <1>0, <1>1 DEF Typed, TypeOK, Budget, Scanning
<1>2. /\ job \in [Jobs -> JobState] /\ fresh \in [Servers -> SUBSET Jobs]
      /\ late \in [Servers -> SUBSET Jobs]
      /\ runs \in SUBSET RunState /\ orphans \in SUBSET Jobs /\ events \in Nat
  BY <1>0 DEF TypeOK
<1>3. r \in RunState /\ r.job \in Jobs /\ job[r.job] \in JobState
  BY <1>2 DEF RunState
<1>4. CASE Read(r)
  <2>1. [r EXCEPT !.ctl = "running"] \in RunState
    BY <1>3 DEF RunState
  <2>2. runs' \in SUBSET RunState
    BY <1>2, <1>4, <2>1 DEF Read
  <2>3. QED
    BY <1>1, <1>2, <1>4, <2>2 DEF Read, jobVars, ringVars
<1>5. CASE RunRejects(r)
  <2>1. events' \in Nat
    BY <1>0, <1>5, EventTyped DEF RunRejects
  <2>2. runs' \in SUBSET RunState /\ orphans' \in SUBSET Jobs
    BY <1>2, <1>3, <1>5 DEF RunRejects
  <2>3. QED
    BY <1>1, <1>2, <1>5, <2>1, <2>2 DEF RunRejects, jobVars, ringVars
<1>6. CASE Succeed(r)
  <2>1. job' \in [Jobs -> JobState] /\ fresh' \in [Servers -> SUBSET Jobs]
        /\ late' \in [Servers -> SUBSET Jobs] /\ orphans' \in SUBSET Jobs
    <3>1. CASE Owned(r)
      <4>1. PICK h \in Succeeded(r.job, job[r.job]) : Write(r.job, h)
        BY <1>6, <3>1 DEF Succeed
      <4>2. h \in JobState
        BY <1>3, OutcomesTyped
      <4>3. orphans' \in SUBSET Jobs
        BY <1>2, <1>6, <3>1 DEF Succeed
      <4>4. QED
        BY <1>0, <1>3, <4>1, <4>2, <4>3, WriteTyped
    <3>2. CASE ~Owned(r)
      BY <1>2, <1>6, <3>2 DEF Succeed, jobVars
    <3>3. QED
      BY <3>1, <3>2
  <2>2. runs' \in SUBSET RunState
    BY <1>2, <1>6 DEF Succeed
  <2>3. QED
    BY <1>1, <1>2, <1>6, <2>1, <2>2 DEF Succeed, ringVars
<1>7. CASE Fail(r)
  <2>1. PICK h \in Failed(r.job, job[r.job], r.able) : Write(r.job, h)
    BY <1>7 DEF Fail
  <2>2. h \in JobState
    BY <1>3, OutcomesTyped
  <2>3. job' \in [Jobs -> JobState] /\ fresh' \in [Servers -> SUBSET Jobs]
        /\ late' \in [Servers -> SUBSET Jobs]
    BY <1>0, <1>3, <2>1, <2>2, WriteTyped
  <2>4. runs' \in SUBSET RunState /\ orphans' \in SUBSET Jobs
    BY <1>2, <1>7 DEF Fail
  <2>5. QED
    BY <1>1, <1>2, <1>7, <2>3, <2>4 DEF Fail, ringVars
<1>8. CASE Readopted(r)
  BY <1>1, <1>2, <1>8 DEF Readopted, jobVars, ringVars
<1>9. QED
  BY <1>4, <1>5, <1>6, <1>7, <1>8 DEF RunStep

(* The steps of a reset.                                                   *)
LEMMA ResetTyped ==
  ASSUME Typed, NEW d \in Servers, NEW x \in ResetState,
         x # NoReset => x.cycles >= 1 /\ x.left # <<>>,
         reset' = [reset EXCEPT ![d] = x],
         UNCHANGED <<runners, caps, up, pick, cands, runs, events>>, orphans' \in SUBSET Jobs,
         job' \in [Jobs -> JobState], fresh' \in [Servers -> SUBSET Jobs],
         late' \in [Servers -> SUBSET Jobs],
         ring' \in SUBSET Servers, token' \in TokenState, reported' \in BOOLEAN
  PROVE  Typed'
<1>0. TypeOK /\ Budget /\ Scanning /\ reset \in [Servers -> ResetState]
  BY DEF Typed, TypeOK, Budget, ResetState
<1>1. reset' \in [Servers -> ResetState]
  BY <1>0
<1>2. Budget'
  BY <1>0, <1>1 DEF Budget, Scanning
<1>3. TypeOK'
  BY <1>0, <1>1 DEF TypeOK, ResetState
<1>4. QED
  BY <1>2, <1>3 DEF Typed

LEMMA NoResetTyped == NoReset \in ResetState
BY EngineAssumption, EmptySeq DEF NoReset, ResetState

(* What is left of a reset after a transaction.                            *)
LEMMA ResetGoesOn ==
  ASSUME NEW x \in ResetState, x.cycles >= 1, x.left # <<>>, NEW n \in Int, n = x.cycles - 1
  PROVE  /\ n # 0 => /\ [x EXCEPT !.cycles = n] \in ResetState
                     /\ [x EXCEPT !.cycles = n].cycles >= 1
                     /\ [x EXCEPT !.cycles = n].left # <<>>
         /\ Len(x.left) # 1 =>
              /\ [x EXCEPT !.left = Tail(x.left), !.cycles = ResetCycles] \in ResetState
              /\ [x EXCEPT !.left = Tail(x.left), !.cycles = ResetCycles].cycles >= 1
              /\ [x EXCEPT !.left = Tail(x.left), !.cycles = ResetCycles].left # <<>>
<1>1. x.left \in Seq(TableSet) /\ x.cycles \in 0..ResetCycles /\ ResetCycles \in Nat \ {0}
  BY EngineAssumption DEF ResetState
<1>2. n # 0 => n \in 0..ResetCycles /\ n >= 1
  BY <1>1
<1>3. Tail(x.left) \in Seq(TableSet)
  BY <1>1
<1>4. Len(x.left) # 1 => Tail(x.left) # <<>>
  <2>1. \A q \in Seq(TableSet) : q # <<>> => Len(Tail(q)) = Len(q) - 1 /\ Len(q) \in Nat
    BY HeadTailProperties
  <2>2. Len(x.left) # 1 => Len(Tail(x.left)) # 0
    BY <1>1, <2>1
  <2>3. QED
    BY <2>2
<1>5. ResetCycles \in 0..ResetCycles /\ ResetCycles >= 1
  BY <1>1
<1>6. QED
  BY <1>2, <1>3, <1>4, <1>5 DEF ResetState

LEMMA ResetTxnTyped ==
  ASSUME Typed, NEW d \in Servers, ResetTxn(d)
  PROVE  Typed'
<1>0. TypeOK /\ Budget /\ reset \in [Servers -> ResetState]
  BY DEF Typed, TypeOK, ResetState
<1> DEFINE x == reset[d]
           n == x.cycles - 1
<1>1. x \in ResetState /\ x # NoReset /\ x.cycles >= 1 /\ x.left # <<>> /\ n \in Int
  <2>1. x \in ResetState /\ x # NoReset
    BY <1>0 DEF ResetTxn
  <2>2. x.cycles >= 1 /\ x.left # <<>>
    BY <1>0, <2>1 DEF Budget
  <2>3. x.cycles \in Nat
    BY <2>1, EngineAssumption DEF ResetState
  <2>4. QED
    BY <2>1, <2>2, <2>3
<1>2. PICK S \in SUBSET Jobs :
        /\ job' = [j \in Jobs |-> IF j \in S THEN [job[j] EXCEPT !.due = "due", !.exec = None]
                                  ELSE job[j]]
        /\ fresh' = [s \in Servers |-> fresh[s] \ S]
        /\ late' = [s \in Servers |-> late[s] \ S]
        /\ orphans' = orphans \ S
        /\ reported' = (reported \/ n = 0)
        /\ reset' = [reset EXCEPT ![d] =
               IF S # {} /\ n # 0 THEN [x EXCEPT !.cycles = n]
               ELSE IF Len(x.left) = 1 THEN NoReset
               ELSE [x EXCEPT !.left = Tail(x.left), !.cycles = ResetCycles]]
  BY DEF ResetTxn, JobsIn, Alarm
<1> DEFINE y == IF S # {} /\ n # 0 THEN [x EXCEPT !.cycles = n]
                ELSE IF Len(x.left) = 1 THEN NoReset
                ELSE [x EXCEPT !.left = Tail(x.left), !.cycles = ResetCycles]
<1>3. reset' = [reset EXCEPT ![d] = y]
  BY <1>2
<1>4. job' \in [Jobs -> JobState]
  <2>1. job \in [Jobs -> JobState]
    BY <1>0 DEF TypeOK
  <2>2. \A j \in Jobs : [job[j] EXCEPT !.due = "due", !.exec = None] \in JobState
    BY <2>1 DEF JobState
  <2>3. QED
    BY <1>2, <2>1, <2>2
<1>5. fresh' \in [Servers -> SUBSET Jobs] /\ late' \in [Servers -> SUBSET Jobs] /\ orphans' \in SUBSET Jobs
  BY <1>0, <1>2 DEF TypeOK
<1>6. reported' \in BOOLEAN
  BY <1>2, Zenon
<1>7. y \in ResetState /\ (y # NoReset => y.cycles >= 1 /\ y.left # <<>>)
  <2> HIDE DEF x, n
  <2>1. n = x.cycles - 1
    BY DEF n
  <2>2. QED
    BY <1>1, <2>1, NoResetTyped, ResetGoesOn
<1>8. UNCHANGED <<runners, caps, up, ring, token, pick, cands, runs, events>>
  BY DEF ResetTxn, ringVars
<1>9. ring' \in SUBSET Servers /\ token' \in TokenState
  BY <1>0, <1>8 DEF TypeOK
<1> HIDE DEF y
<1>10. QED
  BY <1>3, <1>4, <1>5, <1>6, <1>7, <1>8, <1>9, ResetTyped

LEMMA ResetFailsTyped ==
  ASSUME Typed, NEW d \in Servers, ResetFails(d)
  PROVE  Typed'
<1>1. reported' \in BOOLEAN
  BY Zenon DEF ResetFails
<1>2. /\ UNCHANGED <<job, fresh, late, runners, caps, up, ring, token, pick, cands, runs, orphans, events>>
      /\ reset' = [reset EXCEPT ![d] = NoReset]
  BY DEF ResetFails, jobVars, ringVars
<1>3. job' \in [Jobs -> JobState] /\ fresh' \in [Servers -> SUBSET Jobs]
      /\ late' \in [Servers -> SUBSET Jobs] /\ orphans' \in SUBSET Jobs
      /\ ring' \in SUBSET Servers /\ token' \in TokenState
  BY <1>2 DEF Typed, TypeOK
<1>4. QED
  BY <1>1, <1>2, <1>3, NoResetTyped, ResetTyped

LEMMA UnresponsiveTyped ==
  ASSUME Typed, NEW d \in Servers, NEW e \in Servers, Unresponsive(d, e)
  PROVE  Typed'
<1> DEFINE x == [of |-> e, left |-> Tables, cycles |-> ResetCycles, gone |-> TRUE]
<1>1. x \in ResetState /\ x.cycles >= 1 /\ x.left # <<>>
  BY EngineAssumption, TablesTyped DEF ResetState
<1>2. reset' = [reset EXCEPT ![d] = x]
  BY DEF Unresponsive, Pickers
<1>3. ring' \in SUBSET Servers
  BY DEF Typed, TypeOK, Unresponsive
<1>4. token' \in TokenState
  BY <1>3, RemadeTyped DEF Unresponsive
<1>5. UNCHANGED <<job, fresh, late, runners, caps, up, pick, cands, runs, reported, orphans, events>>
  BY DEF Unresponsive, jobVars
<1>6. /\ job' \in [Jobs -> JobState] /\ fresh' \in [Servers -> SUBSET Jobs]
      /\ late' \in [Servers -> SUBSET Jobs] /\ orphans' \in SUBSET Jobs /\ reported' \in BOOLEAN
  BY <1>5, Zenon DEF Typed, TypeOK
<1> HIDE DEF x
<1>7. QED
  BY <1>1, <1>2, <1>3, <1>4, <1>5, <1>6, ResetTyped

(* Changes.                                                                *)
LEMMA ChangeTyped ==
  ASSUME Typed, NEW s \in Servers,
         \/ Destroy(s) \/ Leave(s) \/ Join(s)
         \/ \E j \in Jobs : AddRunner(s, TypeOf[j])
  PROVE  Typed'
<1>0. TypeOK /\ Budget /\ Scanning
  BY DEF Typed, Budget
<1>1. ASSUME UNCHANGED <<job, fresh, late, pick, cands, runs, reset, reported, orphans>>,
             runners' \in [Servers -> SUBSET Types], caps' \in [Servers -> Buffer],
             up' \in [Servers -> {"up", "destroyed", "down"}], ring' \in SUBSET Servers,
             token' \in TokenState, events' \in Nat
      PROVE  Typed'
  BY <1>0, <1>1 DEF Typed, TypeOK, Budget, Scanning
<1>2. /\ runners \in [Servers -> SUBSET Types] /\ caps \in [Servers -> Buffer]
      /\ up \in [Servers -> {"up", "destroyed", "down"}] /\ ring \in SUBSET Servers
      /\ token \in TokenState /\ events \in Nat
  BY <1>0 DEF TypeOK
<1>3. CASE Destroy(s)
  <2>1. up' \in [Servers -> {"up", "destroyed", "down"}] /\ events' \in Nat
    BY <1>0, <1>2, <1>3, EventTyped DEF Destroy
  <2>2. QED
    BY <1>1, <1>2, <1>3, <2>1 DEF Destroy, jobVars
<1>4. CASE Leave(s)
  <2>1. ring' \in SUBSET Servers /\ token' = Remade(ring')
    BY <1>2, <1>4 DEF Leave
  <2>2. token' \in TokenState
    BY <2>1, RemadeTyped
  <2>3. QED
    BY <1>1, <1>2, <1>4, <2>1, <2>2 DEF Leave, jobVars
<1>5. CASE Join(s)
  <2>1. ring' \in SUBSET Servers /\ token' = Remade(ring')
    BY <1>2, <1>5 DEF Join
  <2>2. token' \in TokenState
    BY <2>1, RemadeTyped
  <2>3. QED
    BY <1>1, <1>2, <1>5, <2>1, <2>2 DEF Join, jobVars
<1>6. ASSUME NEW j \in Jobs, AddRunner(s, TypeOf[j]) PROVE Typed'
  <2>1. TypeOf[j] \in Types
    BY EngineAssumption
  <2>2. PICK has \in BOOLEAN :
          runners' = [runners EXCEPT ![s] = IF has THEN @ \cup {TypeOf[j]} ELSE @ \ {TypeOf[j]}]
    BY <1>6 DEF AddRunner
  <2>3. runners' \in [Servers -> SUBSET Types]
    BY <1>2, <2>1, <2>2
  <2>4. caps' = [caps EXCEPT ![s] = capabilitiesToBuffer(runners'[s], AllSorted)]
    BY <1>6 DEF AddRunner
  <2>5. caps' \in [Servers -> Buffer]
    BY <1>2, <2>4, BuffersTyped
  <2>6. events' \in Nat
    BY <1>0, <1>6, EventTyped DEF AddRunner
  <2>7. UNCHANGED <<job, fresh, late, pick, cands, runs, reset, reported, orphans, up, ring, token>>
    BY <1>6 DEF AddRunner, jobVars, ringVars
  <2>8. QED
    BY <1>1, <1>2, <2>3, <2>5, <2>6, <2>7
<1>7. QED
  BY <1>3, <1>4, <1>5, <1>6

LEMMA CrashTyped ==
  ASSUME Typed, NEW s \in Servers, Crash(s)
  PROVE  Typed'
<1>0. TypeOK /\ Budget /\ Scanning /\ reset \in [Servers -> ResetState]
  BY DEF Typed, TypeOK, Budget, ResetState
<1>1. /\ up' \in [Servers -> {"up", "destroyed", "down"}]
      /\ cands' \in [Servers -> SUBSET Jobs] /\ fresh' \in [Servers -> SUBSET Jobs]
      /\ late' \in [Servers -> SUBSET Jobs]
      /\ runs' \in SUBSET RunState /\ events' \in Nat
  BY <1>0, EventTyped DEF Crash, TypeOK
<1>2. pick' \in [Servers -> PickState]
  BY <1>0, NoPickTyped DEF Crash, TypeOK
<1>3. reset' \in [Servers -> ResetState]
  BY <1>0, NoResetTyped DEF Crash
<1>4. UNCHANGED <<job, runners, caps, ring, token, reported, orphans>>
  BY DEF Crash
<1>5. TypeOK'
  BY <1>0, <1>1, <1>2, <1>3, <1>4 DEF TypeOK, ResetState
<1>6. Scanning'
  BY <1>0 DEF Scanning, Crash, TypeOK, NoPick
<1>7. Budget'
  BY <1>0, <1>6 DEF Budget, Crash
<1>8. QED
  BY <1>5, <1>7 DEF Typed

LEMMA RestartTyped ==
  ASSUME Typed, NEW s \in Servers, Restart(s)
  PROVE  Typed'
<1>0. TypeOK /\ Budget /\ Scanning /\ reset \in [Servers -> ResetState]
  BY DEF Typed, TypeOK, Budget
<1>1. up' \in [Servers -> {"up", "destroyed", "down"}] /\ ring' \in SUBSET Servers
      /\ orphans' \in SUBSET Jobs
  BY <1>0 DEF Restart, TypeOK
<1>2. runners' \in [Servers -> SUBSET Types] /\ caps' \in [Servers -> Buffer]
  BY <1>0, EngineAssumption, BuffersTyped DEF Restart, TypeOK
<1>3. token' \in TokenState
  BY <1>1, RemadeTyped DEF Restart
<1> DEFINE awake(x) == [x EXCEPT !.gone = FALSE]
<1>4. \A x \in ResetState : awake(x) \in ResetState /\ awake(x).cycles = x.cycles
                           /\ awake(x).left = x.left
  BY DEF ResetState
<1>5. reset' = [d \in Servers |-> IF reset[d].of = s THEN awake(reset[d]) ELSE reset[d]]
  BY DEF Restart
<1> HIDE DEF awake
<1>6. reset' \in [Servers -> ResetState]
  BY <1>0, <1>4, <1>5
<1>7. UNCHANGED <<job, fresh, late, pick, cands, runs, reported, events>>
  BY DEF Restart, jobVars
<1>8. TypeOK'
  BY <1>0, <1>1, <1>2, <1>3, <1>6, <1>7 DEF TypeOK
<1>9. \A d \in Servers : reset'[d] # NoReset => reset'[d].cycles >= 1 /\ reset'[d].left # <<>>
  <2>1. ASSUME NEW d \in Servers, reset[d].of = s PROVE reset[d] # NoReset
    BY <2>1, EngineAssumption DEF NoReset
  <2>2. QED
    BY <1>0, <1>4, <1>5, <2>1 DEF Budget
<1>10. QED
  BY <1>0, <1>7, <1>8, <1>9 DEF Typed, Budget, Scanning

LEMMA LapseTyped ==
  ASSUME Typed, NEW j \in Jobs, Lapse(j)
  PROVE  Typed'
<1>0. TypeOK /\ Budget /\ Scanning /\ job[j] \in JobState
  BY DEF Typed, TypeOK, Budget
<1>1. [job[j] EXCEPT !.due = "due"] \in JobState
  BY <1>0 DEF JobState
<1>2. job' \in [Jobs -> JobState] /\ fresh' \in [Servers -> SUBSET Jobs]
      /\ late' \in [Servers -> SUBSET Jobs]
  BY <1>0, <1>1, WriteTyped DEF Lapse
<1>3. events' \in Nat
  BY <1>0, EventTyped DEF Lapse, TypeOK
<1>4. UNCHANGED <<runners, caps, up, ring, token, pick, cands, runs, reset, reported, orphans>>
  BY DEF Lapse, ringVars
<1>5. QED
  BY <1>0, <1>2, <1>3, <1>4 DEF Typed, TypeOK, Budget, Scanning

LEMMA StepTyped == Typed /\ [Next]_vars => Typed'
<1> SUFFICES ASSUME Typed, [Next]_vars PROVE Typed'
  OBVIOUS
<1>1. ASSUME NEW s \in Servers,
             \/ OnToken(s) \/ PickStep(s) \/ ResetTxn(s) \/ ResetFails(s)
             \/ Destroy(s) \/ Leave(s) \/ Join(s) \/ Crash(s) \/ Restart(s)
             \/ \E j \in Jobs : AddRunner(s, TypeOf[j])
      PROVE  Typed'
  BY <1>1, OnTokenTyped, PickStepTyped, ResetTxnTyped, ResetFailsTyped, ChangeTyped, CrashTyped,
     RestartTyped
<1>2. ASSUME NEW d \in Servers, NEW e \in Servers, Unresponsive(d, e) PROVE Typed'
  BY <1>2, UnresponsiveTyped
<1>3. ASSUME NEW r \in runs, RunStep(r) PROVE Typed'
  BY <1>3, RunStepTyped
<1>4. ASSUME NEW j \in Jobs, Lapse(j) PROVE Typed'
  BY <1>4, LapseTyped
<1>5. CASE UNCHANGED vars
  BY <1>5 DEF vars, Typed, TypeOK, Budget, Scanning
<1>6. QED
  BY <1>1, <1>2, <1>3, <1>4, <1>5 DEF Next

(* The variables of an engine have their types, a pick asks for at least   *)
(* one job and at most two batches, and no pick or reset goes on after its *)
(* last cycle (workflowEngine.ts, workflowPicker.ts).                      *)
THEOREM EngineTypes == Spec => []TypeOK
<1>1. Typed => TypeOK
  BY DEF Typed
<1>2. QED
  BY <1>1, InitTyped, StepTyped, PTL DEF Spec

(***************************************************************************)
(* Routing                                                                 *)
(***************************************************************************)

(* Every bitmap on its way says what was shown when it was made.           *)
Says(buffer) == bufferToCapabilities(buffer, AllSorted)

Routed ==
  /\ \A s \in Servers : caps[s] = capabilitiesToBuffer(runners[s], AllSorted)
  /\ Says(token.caps) = token.shown
  /\ Says(token.nextCaps) = token.nextShown
  /\ \A s \in Servers : pick[s].supported = pick[s].shown

LEMMA RemadeRouted ==
  ASSUME NEW members
  PROVE  LET new == Remade(members) IN
         Says(new.caps) = new.shown /\ Says(new.nextCaps) = new.nextShown
BY BuffersTyped DEF Remade, Says

LEMMA InitRouted == Init => Routed
<1> SUFFICES ASSUME Init PROVE Routed
  OBVIOUS
<1>1. \A s \in Servers : caps[s] = capabilitiesToBuffer(runners[s], AllSorted)
  BY DEF Init
<1>2. /\ token.caps = <<>> /\ token.shown = {}
      /\ token.nextCaps = <<>> /\ token.nextShown = {}
  BY DEF Init
<1>3. \A s \in Servers : pick[s].supported = pick[s].shown
  BY DEF Init, NoPick
<1>4. Says(<<>>) = {}
  BY BuffersTyped DEF Says
<1>5. QED
  BY <1>1, <1>2, <1>3, <1>4 DEF Routed

(* A pick that goes on was told nothing new.                               *)
LEMMA PickStepRouted ==
  ASSUME TypeOK, Routed, NEW s \in Servers, PickStep(s)
  PROVE  Routed'
<1>1. pick \in [Servers -> PickState] /\ token \in TokenState
  BY DEF TypeOK
<1>2. \A v \in Servers : pick'[v].supported = pick'[v].shown
  <2>0. \A v \in Servers : pick[v].supported = pick[v].shown
    BY DEF Routed
  <2> DEFINE Same == \A v \in Servers : pick'[v].supported = pick[v].supported
                                     /\ pick'[v].shown = pick[v].shown
  <2>a. ASSUME NEW t \in TableSet, NEW c, pick' = [pick EXCEPT ![s].ctl[t] = c] PROVE Same
    BY <1>1, <2>a DEF PickState
  <2>b. ASSUME NEW t \in TableSet, NEW c, NEW n,
               pick' = [pick EXCEPT ![s].cycles[t] = n, ![s].ctl[t] = c] PROVE Same
    BY <1>1, <2>b DEF PickState
  <2>c. ASSUME NEW S, pick' = [pick EXCEPT ![s].got = S] PROVE Same
    BY <1>1, <2>c DEF PickState
  <2>d. ASSUME NEW t \in TableSet, NEW c, NEW S,
               pick' = [pick EXCEPT ![s].ctl[t] = c, ![s].got = S] PROVE Same
    BY <1>1, <2>d DEF PickState
  <2>e. ASSUME UNCHANGED pick PROVE Same
    BY <2>e
  <2> HIDE DEF Same
  <2>1. ASSUME NEW t \in TableSet, Scan(s, t) \/ ScanConflict(s, t) \/ ScanFails(s, t) PROVE Same
    <3>1. CASE Scan(s, t)
      BY <2>a, <3>1 DEF Scan
    <3>2. CASE ScanConflict(s, t)
      BY <2>b, <3>2 DEF ScanConflict
    <3>3. CASE ScanFails(s, t)
      BY <2>a, <3>3 DEF ScanFails
    <3>4. QED
      BY <2>1, <3>1, <3>2, <3>3
  <2>2. ASSUME NEW j \in cands[s], \/ Adopt(s, j) \/ RefuseOwn(s, j) \/ Skip(s, j)
                                   \/ AdoptConflict(s, j) \/ AdoptFails(s, j)
        PROVE  Same
    <3>1. CASE Adopt(s, j)
      BY <2>c, <3>1 DEF Adopt
    <3>2. CASE RefuseOwn(s, j) \/ Skip(s, j) \/ AdoptConflict(s, j)
      BY <2>e, <3>2 DEF RefuseOwn, Skip, AdoptConflict
    <3>3. CASE AdoptFails(s, j)
      <4>1. TableOf[j] \in TableSet
        BY TablesTyped DEF TypeOK
      <4>2. QED
        BY <2>d, <3>3, <4>1 DEF AdoptFails
    <3>4. QED
      BY <2>2, <3>1, <3>2, <3>3
  <2>3. ASSUME StartJobs(s) PROVE \A v \in Servers : pick'[v].supported = pick'[v].shown
    BY <1>1, <2>0, <2>3 DEF StartJobs, NoPick
  <2>4. ASSUME NEW j \in late[s], AdoptLate(s, j) PROVE Same
    BY <2>e, <2>4 DEF AdoptLate
  <2>5. QED
    BY <2>0, <2>1, <2>2, <2>3, <2>4 DEF PickStep, Same
<1>3. UNCHANGED <<caps, runners>>
  BY DEF PickStep, Scan, ScanConflict, ScanFails, Adopt, RefuseOwn, Skip, AdoptConflict, AdoptFails,
         AdoptLate, StartJobs
<1>4. /\ token'.caps = token.caps /\ token'.shown = token.shown
      /\ token'.nextCaps = token.nextCaps /\ token'.nextShown = token.nextShown
  <2>1. CASE StartJobs(s)
    BY <1>1, <2>1 DEF StartJobs, TokenState
  <2>2. CASE UNCHANGED token
    BY <2>2
  <2>3. QED
    BY <2>1, <2>2 DEF PickStep, Scan, ScanConflict, ScanFails, Adopt, RefuseOwn, Skip, AdoptConflict,
                      AdoptFails, AdoptLate, ringVars
<1>5. QED
  BY <1>2, <1>3, <1>4 DEF Routed

(* The token takes the bitmap of a server in, and a pick reads the token.  *)
LEMMA OnTokenRouted ==
  ASSUME TypeOK, Routed, NEW s \in Servers, OnToken(s)
  PROVE  Routed'
<1>0. /\ token \in TokenState /\ pick \in [Servers -> PickState]
      /\ caps[s] \in Buffer /\ runners[s] \in SUBSET Types
  BY DEF TypeOK
<1>1. Passed \in TokenState /\ Says(Passed.caps) = Passed.shown /\ Says(Passed.nextCaps) = Passed.nextShown
  <2>1. CASE token.left # {}
    BY <1>0, <2>1 DEF Passed, Routed
  <2>2. CASE token.left = {}
    <3>1. /\ Passed.caps = token.nextCaps /\ Passed.shown = token.nextShown
          /\ Passed.nextCaps = <<>> /\ Passed.nextShown = {}
      BY <1>0, <2>2 DEF Passed, TokenState
    <3>2. Passed \in TokenState
      BY <1>0, <2>2, BuffersTyped DEF Passed, TokenState, TypeOK
    <3>3. QED
      BY <3>1, <3>2, BuffersTyped DEF Routed, Says
  <2>3. QED
    BY <2>1, <2>2
<1>2. Says(caps[s]) = runners[s]
  BY <1>0, BuffersTyped DEF Routed, Says
<1>3. Says(mergeCapabilityBuffers(Passed.nextCaps, caps[s])) = Passed.nextShown \cup runners[s]
  <2>1. Passed.nextCaps \in Buffer
    BY <1>1 DEF TokenState
  <2>2. \A a, b \in Buffer : Says(mergeCapabilityBuffers(a, b)) = Says(a) \cup Says(b)
    BY BuffersTyped DEF Says
  <2>3. QED
    BY <1>0, <1>1, <1>2, <2>1, <2>2
<1>4. /\ token'.caps = Passed.caps /\ token'.shown = Passed.shown
      /\ token'.nextCaps = mergeCapabilityBuffers(Passed.nextCaps, caps[s])
      /\ token'.nextShown = Passed.nextShown \cup runners[s]
  BY <1>1 DEF OnToken, TokenState
<1>5. \A v \in Servers : pick'[v].supported = pick'[v].shown
  BY <1>0, <1>1 DEF OnToken, Routed, Says
<1>6. UNCHANGED <<caps, runners>>
  BY DEF OnToken
<1>7. QED
  BY <1>1, <1>3, <1>4, <1>5, <1>6 DEF Routed

LEMMA StepRouted == TypeOK /\ Routed /\ [Next]_vars => Routed'
<1> SUFFICES ASSUME TypeOK, Routed, [Next]_vars PROVE Routed'
  OBVIOUS
<1>0. ASSUME UNCHANGED <<caps, runners, token, pick>> PROVE Routed'
  BY <1>0 DEF Routed
<1>1. ASSUME UNCHANGED <<caps, runners, pick>>, NEW members, token' = Remade(members) PROVE Routed'
  BY <1>1, RemadeRouted DEF Routed
<1>2. ASSUME NEW s \in Servers, OnToken(s) \/ PickStep(s) PROVE Routed'
  BY <1>2, OnTokenRouted, PickStepRouted
<1>3. ASSUME NEW s \in Servers, ResetTxn(s) \/ ResetFails(s) \/ Destroy(s) PROVE Routed'
  BY <1>0, <1>3 DEF ResetTxn, ResetFails, Destroy, ringVars
<1>4. ASSUME NEW s \in Servers, Leave(s) \/ Join(s) PROVE Routed'
  BY <1>1, <1>4 DEF Leave, Join
<1>5. ASSUME NEW s \in Servers, Crash(s) PROVE Routed'
  BY <1>5 DEF Crash, Routed, NoPick, TypeOK
<1>6. ASSUME NEW s \in Servers, NEW j \in Jobs, AddRunner(s, TypeOf[j]) PROVE Routed'
  <2>1. \A v \in Servers : caps'[v] = capabilitiesToBuffer(runners'[v], AllSorted)
    <3>1. /\ caps' = [caps EXCEPT ![s] = capabilitiesToBuffer(runners'[s], AllSorted)]
          /\ \A v \in Servers \ {s} : runners'[v] = runners[v]
          /\ caps \in [Servers -> Buffer]
      BY <1>6 DEF AddRunner, TypeOK
    <3>2. QED
      BY <3>1 DEF Routed
  <2>2. UNCHANGED <<token, pick>>
    BY <1>6 DEF AddRunner, ringVars
  <2>3. QED
    BY <2>1, <2>2 DEF Routed
<1>7. ASSUME NEW d \in Servers, NEW e \in Servers, Unresponsive(d, e) PROVE Routed'
  BY <1>1, <1>7 DEF Unresponsive
<1>8. ASSUME NEW r \in runs, RunStep(r) PROVE Routed'
  BY <1>0, <1>8 DEF RunStep, Read, RunRejects, Succeed, Fail, Readopted, ringVars
<1>9. ASSUME NEW j \in Jobs, Lapse(j) PROVE Routed'
  BY <1>0, <1>9 DEF Lapse, ringVars
<1>10. ASSUME NEW s \in Servers, Restart(s) PROVE Routed'
  <2>1. \A v \in Servers : caps'[v] = capabilitiesToBuffer(runners'[v], AllSorted)
    <3>1. /\ caps \in [Servers -> Buffer] /\ runners \in [Servers -> SUBSET Types]
          /\ runners' = [runners EXCEPT ![s] = Runners[s]]
          /\ caps' = [caps EXCEPT ![s] = capabilitiesToBuffer(Runners[s], AllSorted)]
      BY <1>10 DEF Restart, TypeOK
    <3>2. QED
      BY <3>1 DEF Routed
  <2>2. UNCHANGED pick /\ token' = Remade(ring')
    BY <1>10 DEF Restart
  <2>3. QED
    BY <2>1, <2>2, RemadeRouted DEF Routed
<1>11. CASE UNCHANGED vars
  BY <1>0, <1>11 DEF vars
<1>12. QED
  BY <1>2, <1>3, <1>4, <1>5, <1>6, <1>7, <1>8, <1>9, <1>10, <1>11 DEF Next

(* Only a scan adds candidates.                                            *)
Taken ==
  \A s \in Servers : \A j \in cands'[s] \ cands[s] :
    TypeOf[j] \notin runners[s] => ~pick[s].provisional /\ TypeOf[j] \notin pick[s].shown

LEMMA StepTakes == TypeOK /\ Routed /\ [Next]_vars => Taken
<1> SUFFICES ASSUME TypeOK, Routed, [Next]_vars PROVE Taken
  OBVIOUS
<1>0. cands \in [Servers -> SUBSET Jobs]
  BY DEF TypeOK
<1>1. ASSUME UNCHANGED cands PROVE Taken
  BY <1>1 DEF Taken
<1>2. ASSUME NEW s \in Servers, NEW S \in SUBSET cands[s], cands' = [cands EXCEPT ![s] = S] PROVE Taken
  BY <1>0, <1>2 DEF Taken
<1>3. ASSUME NEW s \in Servers, OnToken(s) PROVE Taken
  BY <1>1, <1>3 DEF OnToken
<1>4. ASSUME NEW s \in Servers, NEW t \in TableSet, Scan(s, t) PROVE Taken
  <2>1. PICK S \in SUBSET {j \in Jobs : TableOf[j] = t /\ job[j].due = "due" /\ Eligible(s, j)} :
          cands' = [cands EXCEPT ![s] = @ \cup S]
    BY <1>4 DEF Scan
  <2>2. \A j \in S : TypeOf[j] \notin runners[s] =>
          ~pick[s].provisional /\ TypeOf[j] \notin pick[s].shown
    BY <2>1 DEF Eligible, Routed
  <2>3. QED
    BY <1>0, <2>1, <2>2 DEF Taken
<1>5. ASSUME NEW s \in Servers, NEW t \in TableSet, ScanConflict(s, t) \/ ScanFails(s, t) PROVE Taken
  BY <1>1, <1>5 DEF ScanConflict, ScanFails
<1>6. ASSUME NEW s \in Servers, NEW j \in cands[s],
             Adopt(s, j) \/ RefuseOwn(s, j) \/ Skip(s, j) \/ AdoptConflict(s, j) \/ AdoptFails(s, j)
      PROVE  Taken
  <2>1. CASE AdoptFails(s, j)
    <3>1. cands' = [cands EXCEPT ![s] = {i \in @ : TableOf[i] # TableOf[j]}]
      BY <2>1 DEF AdoptFails
    <3>2. {i \in cands[s] : TableOf[i] # TableOf[j]} \in SUBSET cands[s]
      OBVIOUS
    <3>3. QED
      BY <1>2, <3>1, <3>2
  <2>2. CASE cands' = [cands EXCEPT ![s] = @ \ {j}]
    BY <1>2, <2>2
  <2>3. QED
    BY <1>6, <2>1, <2>2 DEF Adopt, RefuseOwn, Skip, AdoptConflict
<1>7. ASSUME NEW s \in Servers, StartJobs(s) PROVE Taken
  BY <1>1, <1>7 DEF StartJobs
<1>8. ASSUME NEW s \in Servers, ResetTxn(s) \/ ResetFails(s) \/ Destroy(s) \/ Leave(s) \/ Join(s)
      PROVE  Taken
  BY <1>1, <1>8 DEF ResetTxn, ResetFails, Destroy, Leave, Join
<1>9. ASSUME NEW s \in Servers, Crash(s) PROVE Taken
  BY <1>0, <1>9 DEF Crash, Taken
<1>10. ASSUME NEW s \in Servers, NEW j \in Jobs, AddRunner(s, TypeOf[j]) PROVE Taken
  BY <1>1, <1>10 DEF AddRunner
<1>11. ASSUME NEW d \in Servers, NEW e \in Servers, Unresponsive(d, e) PROVE Taken
  BY <1>1, <1>11 DEF Unresponsive
<1>12. ASSUME NEW r \in runs, RunStep(r) PROVE Taken
  BY <1>1, <1>12 DEF RunStep, Read, RunRejects, Succeed, Fail, Readopted
<1>13. ASSUME NEW j \in Jobs, Lapse(j) PROVE Taken
  BY <1>1, <1>13 DEF Lapse
<1>14. ASSUME NEW s \in Servers, Restart(s) PROVE Taken
  BY <1>1, <1>14 DEF Restart
<1>15. ASSUME NEW s \in Servers, NEW j \in late[s], AdoptLate(s, j) PROVE Taken
  BY <1>1, <1>15 DEF AdoptLate
<1>16. CASE UNCHANGED vars
  BY <1>1, <1>16 DEF vars
<1>17. QED
  BY <1>3, <1>4, <1>5, <1>6, <1>7, <1>8, <1>9, <1>10, <1>11, <1>12, <1>13, <1>14, <1>15, <1>16
     DEF Next, PickStep

(* A server takes a job it has no runner for only when a whole round of    *)
(* the token found no member that has one: the bitmaps of the members are  *)
(* encoded, merged in any order and decoded without a loss                 *)
(* (workflowCapabilities.ts; workflowPicker.ts, pick).                     *)
THEOREM RoutesAreRight == Spec => RoutedRight
<1>1. Init => Typed /\ Routed
  BY InitTyped, InitRouted
<1>2. Typed /\ Routed /\ [Next]_vars => (Typed /\ Routed)'
  BY StepTyped, StepRouted DEF Typed
<1>3. Typed /\ Routed /\ [Next]_vars => [Taken]_vars
  BY StepTakes DEF Typed
<1>4. Spec => [][Taken]_vars
  BY <1>1, <1>2, <1>3, PTL DEF Spec
<1>5. QED
  BY <1>4 DEF RoutedRight, Taken

(***************************************************************************)
(* Jobs in hand                                                            *)
(***************************************************************************)

(* A server that is between picks holds nothing, and one that is down does *)
(* nothing.                                                                *)
Idle ==
  \A s \in Servers :
    /\ ~pick[s].on => pick[s] = NoPick
    /\ up[s] = "down" =>
         ~pick[s].on /\ cands[s] = {} /\ late[s] = {} /\ (\A r \in runs : r.by # s)

(* Candidates are of pickers that adopt.                                   *)
Adopting == \A s \in Servers : \A j \in cands[s] : pick[s].ctl[TableOf[j]] = "adopt"

InHand(j) == Served(j) \/ j \in orphans

LEMMA InitIdle == Init => Idle /\ Adopting /\ OwnedIsServed
<1> SUFFICES ASSUME Init PROVE Idle /\ Adopting /\ OwnedIsServed
  OBVIOUS
<1>0. Adopting
  BY DEF Init, Adopting
<1>1. Idle
  BY DEF Init, Idle, NoPick
<1>2. OwnedIsServed
  BY DEF Init, OwnedIsServed
<1>3. QED
  BY <1>0, <1>1, <1>2

(* A step of a pick leaves the pick of every other server alone, and that  *)
(* of a server between picks.                                              *)
LEMMA PickStepIdle ==
  ASSUME TypeOK, Idle, Adopting, NEW s \in Servers, PickStep(s)
  PROVE  Idle'
<1>0. /\ pick \in [Servers -> PickState] /\ cands \in [Servers -> SUBSET Jobs]
      /\ late \in [Servers -> SUBSET Jobs]
      /\ up \in [Servers -> {"up", "destroyed", "down"}]
  BY DEF TypeOK
<1>1. ASSUME ~pick[s].on PROVE \A t \in TableSet : pick[s].ctl[t] = "failed"
  BY <1>1 DEF Idle, NoPick
<1>2. UNCHANGED up
  BY DEF PickStep, Scan, ScanConflict, ScanFails, Adopt, RefuseOwn, Skip, AdoptConflict, AdoptFails,
         AdoptLate, StartJobs, ringVars
<1>2a. \A v \in Servers \ {s} : late'[v] \subseteq late[v]
  <2>1. CASE UNCHANGED late
    BY <2>1
  <2>2. CASE \E j, h : Write(j, h)
    BY <2>2 DEF Write
  <2>3. CASE \E j \in cands[s] : AdoptFails(s, j)
    BY <1>0, <2>3 DEF AdoptFails
  <2>4. QED
    BY <2>1, <2>2, <2>3 DEF PickStep, Scan, ScanConflict, ScanFails, Adopt, RefuseOwn, Skip,
                            AdoptConflict, AdoptLate, StartJobs, jobVars
<1>3. ASSUME \A v \in Servers \ {s} : pick'[v] = pick[v] /\ cands'[v] = cands[v],
             \A r \in runs' : r \in runs \/ r.by = s,
             up[s] # "down", ~pick'[s].on => pick'[s] = NoPick
      PROVE  Idle'
  BY <1>2, <1>2a, <1>3 DEF Idle
<1>4. ASSUME NEW t \in TableSet, Scan(s, t) \/ ScanConflict(s, t) \/ ScanFails(s, t) PROVE Idle'
  <2>1. pick[s].on /\ up[s] # "down"
    <3>1. pick[s].ctl[t] = "scan"
      BY <1>4 DEF Scan, ScanConflict, ScanFails
    <3>2. QED
      BY <1>1, <3>1 DEF Idle
  <2>2. pick'[s].on
    <3>1. CASE Scan(s, t)
      BY <1>0, <2>1, <3>1 DEF Scan, PickState
    <3>2. CASE ScanConflict(s, t)
      BY <1>0, <2>1, <3>2 DEF ScanConflict, PickState
    <3>3. CASE ScanFails(s, t)
      BY <1>0, <2>1, <3>3 DEF ScanFails, PickState
    <3>4. QED
      BY <1>4, <3>1, <3>2, <3>3
  <2>3. \A v \in Servers \ {s} : pick'[v] = pick[v] /\ cands'[v] = cands[v]
    BY <1>0, <1>4 DEF Scan, ScanConflict, ScanFails
  <2>4. UNCHANGED runs
    BY <1>4 DEF Scan, ScanConflict, ScanFails
  <2>5. QED
    BY <1>3, <2>1, <2>2, <2>3, <2>4
<1>5. ASSUME NEW j \in cands[s], \/ Adopt(s, j) \/ RefuseOwn(s, j) \/ Skip(s, j)
                                 \/ AdoptConflict(s, j) \/ AdoptFails(s, j)
      PROVE  Idle'
  <2>1. up[s] # "down" /\ TableOf[j] \in TableSet
    BY <1>0, TablesTyped DEF Idle
  <2>2. \A v \in Servers \ {s} : pick'[v] = pick[v] /\ cands'[v] = cands[v]
    BY <1>0, <1>5 DEF Adopt, RefuseOwn, Skip, AdoptConflict, AdoptFails
  <2>3. UNCHANGED runs
    BY <1>5 DEF Adopt, RefuseOwn, Skip, AdoptConflict, AdoptFails
  <2>4. pick[s].on
    BY <1>1, <2>1 DEF Adopting
  <2>5. pick'[s].on
    <3>1. CASE Adopt(s, j)
      BY <1>0, <2>4, <3>1 DEF Adopt, PickState
    <3>2. CASE AdoptFails(s, j)
      BY <1>0, <2>4, <3>2 DEF AdoptFails, PickState
    <3>3. CASE RefuseOwn(s, j) \/ Skip(s, j) \/ AdoptConflict(s, j)
      BY <2>4, <3>3 DEF RefuseOwn, Skip, AdoptConflict
    <3>4. QED
      BY <1>5, <3>1, <3>2, <3>3
  <2>6. QED
    BY <1>3, <2>1, <2>2, <2>3, <2>5
<1>6. ASSUME StartJobs(s) PROVE Idle'
  <2>1. up[s] # "down"
    BY <1>6 DEF StartJobs, Idle
  <2>2. \A v \in Servers \ {s} : pick'[v] = pick[v] /\ cands'[v] = cands[v]
    BY <1>0, <1>6 DEF StartJobs
  <2>3. pick'[s] = NoPick
    BY <1>0, <1>6 DEF StartJobs
  <2>4. \A r \in runs' : r \in runs \/ r.by = s
    BY <1>6 DEF StartJobs
  <2>5. QED
    BY <1>3, <2>1, <2>2, <2>3, <2>4
<1>7. ASSUME NEW j \in late[s], AdoptLate(s, j) PROVE Idle'
  <2>1. up[s] # "down"
    BY <1>7 DEF Idle
  <2>2. UNCHANGED <<pick, cands, runs>>
    BY <1>7 DEF AdoptLate
  <2>3. QED
    BY <1>3, <2>1, <2>2 DEF Idle
<1>8. QED
  BY <1>4, <1>5, <1>6, <1>7 DEF PickStep

LEMMA StepIdle == TypeOK /\ Idle /\ Adopting /\ [Next]_vars => Idle'
<1> SUFFICES ASSUME TypeOK, Idle, Adopting, [Next]_vars PROVE Idle'
  OBVIOUS
<1>0. /\ pick \in [Servers -> PickState] /\ cands \in [Servers -> SUBSET Jobs]
      /\ up \in [Servers -> {"up", "destroyed", "down"}] /\ runs \in SUBSET RunState
      /\ late \in [Servers -> SUBSET Jobs]
  BY DEF TypeOK
<1>1. ASSUME UNCHANGED <<pick, cands>>, \A s \in Servers : late'[s] \subseteq late[s],
             \A r \in runs' : \E q \in runs : q.by = r.by,
             \A s \in Servers : up'[s] = "down" => up[s] = "down"
      PROVE  Idle'
  BY <1>1 DEF Idle
<1>2. ASSUME NEW s \in Servers, OnToken(s) PROVE Idle'
  <2>1. up[s] # "down" /\ UNCHANGED <<up, cands, late, runs>>
    BY <1>2 DEF OnToken, jobVars
  <2>2. pick'[s].on /\ \A v \in Servers \ {s} : pick'[v] = pick[v]
    BY <1>0, <1>2 DEF OnToken
  <2>3. QED
    BY <2>1, <2>2 DEF Idle
<1>3. ASSUME NEW s \in Servers, PickStep(s) PROVE Idle'
  BY <1>3, PickStepIdle
<1>4. ASSUME NEW s \in Servers, ResetTxn(s) \/ ResetFails(s) \/ Leave(s) \/ Join(s) PROVE Idle'
  <2>1. CASE ResetTxn(s)
    <3>1. \A v \in Servers : late'[v] \subseteq late[v]
      BY <2>1 DEF ResetTxn
    <3>2. QED
      BY <1>1, <2>1, <3>1 DEF ResetTxn, ringVars
  <2>2. CASE ResetFails(s) \/ Leave(s) \/ Join(s)
    BY <1>1, <2>2 DEF ResetFails, Leave, Join, jobVars, ringVars
  <2>3. QED
    BY <1>4, <2>1, <2>2
<1>5. ASSUME NEW s \in Servers, Destroy(s) PROVE Idle'
  BY <1>0, <1>1, <1>5 DEF Destroy, jobVars
<1>6. ASSUME NEW s \in Servers, Crash(s) PROVE Idle'
  <2>1. pick'[s] = NoPick /\ ~NoPick.on /\ cands'[s] = {} /\ late'[s] = {} /\ \A r \in runs' : r \in runs /\ r.by # s
    BY <1>0, <1>6 DEF Crash, NoPick
  <2>2. \A v \in Servers \ {s} : /\ pick'[v] = pick[v] /\ cands'[v] = cands[v]
                                 /\ late'[v] = late[v] /\ up'[v] = up[v]
    BY <1>0, <1>6 DEF Crash
  <2>3. QED
    BY <2>1, <2>2 DEF Idle
<1>7. ASSUME NEW s \in Servers, NEW j \in Jobs, AddRunner(s, TypeOf[j]) PROVE Idle'
  BY <1>1, <1>7 DEF AddRunner, jobVars, ringVars
<1>8. ASSUME NEW d \in Servers, NEW e \in Servers, Unresponsive(d, e) PROVE Idle'
  BY <1>1, <1>8 DEF Unresponsive, jobVars
<1>9. ASSUME NEW r \in runs, RunStep(r) PROVE Idle'
  <2>1. UNCHANGED <<pick, cands, up>>
    BY <1>9 DEF RunStep, Read, RunRejects, Succeed, Fail, Readopted, ringVars
  <2>2. r \in RunState /\ [r EXCEPT !.ctl = "running"].by = r.by
    BY <1>0 DEF RunState
  <2>3. \A x \in runs' : \E q \in runs : q.by = x.by
    BY <1>9, <2>2 DEF RunStep, Read, RunRejects, Succeed, Fail, Readopted
  <2>4. \A s \in Servers : late'[s] \subseteq late[s]
    BY <1>0, <1>9 DEF RunStep, Read, RunRejects, Succeed, Fail, Readopted, Write, jobVars
  <2>5. QED
    BY <1>1, <2>1, <2>3, <2>4
<1>10. ASSUME NEW j \in Jobs, Lapse(j) PROVE Idle'
  BY <1>0, <1>1, <1>10 DEF Lapse, Write, ringVars
<1>11. ASSUME NEW s \in Servers, Restart(s) PROVE Idle'
  <2>1. UNCHANGED <<pick, cands, late, runs>>
    BY <1>11 DEF Restart, jobVars
  <2>2. \A v \in Servers : up'[v] = "down" => up[v] = "down"
    BY <1>0, <1>11 DEF Restart
  <2>3. QED
    BY <1>1, <2>1, <2>2
<1>12. CASE UNCHANGED vars
  BY <1>1, <1>12 DEF vars
<1>13. QED
  BY <1>2, <1>3, <1>4, <1>5, <1>6, <1>7, <1>8, <1>9, <1>10, <1>11, <1>12 DEF Next

LEMMA StepAdopting == TypeOK /\ Idle /\ Adopting /\ [Next]_vars => Adopting'
<1> SUFFICES ASSUME TypeOK, Idle, Adopting, [Next]_vars PROVE Adopting'
  OBVIOUS
<1>0. /\ pick \in [Servers -> PickState] /\ cands \in [Servers -> SUBSET Jobs]
      /\ \A j \in Jobs : TableOf[j] \in TableSet
  BY TablesTyped DEF TypeOK
<1>1. ASSUME NEW s \in Servers,
             \A v \in Servers \ {s} : pick'[v] = pick[v] /\ cands'[v] = cands[v],
             \A j \in cands'[s] : pick'[s].ctl[TableOf[j]] = "adopt"
      PROVE  Adopting'
  BY <1>1 DEF Adopting
<1>2. ASSUME \A v \in Servers : pick'[v].ctl = pick[v].ctl,
             \A v \in Servers : cands'[v] \subseteq cands[v]
      PROVE  Adopting'
  BY <1>2 DEF Adopting
<1>3. ASSUME NEW s \in Servers, pick'[s] = NoPick \/ cands'[s] = {},
             pick'[s] = NoPick => cands'[s] = {},
             \A v \in Servers \ {s} : pick'[v] = pick[v] /\ cands'[v] = cands[v]
      PROVE  Adopting'
  BY <1>1, <1>3
<1>4. \A s \in Servers : ~pick[s].on => cands[s] = {}
  BY <1>0 DEF Idle, Adopting, NoPick
<1>5. ASSUME NEW s \in Servers, OnToken(s) PROVE Adopting'
  BY <1>0, <1>3, <1>4, <1>5 DEF OnToken
<1>6. ASSUME NEW s \in Servers, NEW t \in TableSet, Scan(s, t) PROVE Adopting'
  <2>1. PICK S : /\ \A j \in S : TableOf[j] = t
                 /\ cands' = [cands EXCEPT ![s] = @ \cup S]
    BY <1>6 DEF Scan
  <2>2. pick' = [pick EXCEPT ![s].ctl[t] = "adopt"]
    BY <1>6 DEF Scan
  <2>3. /\ pick'[s].ctl = [pick[s].ctl EXCEPT ![t] = "adopt"] /\ cands'[s] = cands[s] \cup S
        /\ \A v \in Servers \ {s} : pick'[v] = pick[v] /\ cands'[v] = cands[v]
    BY <1>0, <2>1, <2>2 DEF PickState
  <2>4. pick[s].ctl \in [TableSet -> {"scan", "adopt", "failed"}]
    BY <1>0 DEF PickState
  <2>5. QED
    BY <1>0, <1>1, <2>1, <2>3, <2>4 DEF Adopting
<1>7. ASSUME NEW s \in Servers, NEW t \in TableSet, pick[s].ctl[t] = "scan", NEW p,
             p.ctl = [pick[s].ctl EXCEPT ![t] = IF pick[s].cycles[t] = 1 THEN "failed" ELSE "scan"]
             \/ p.ctl = [pick[s].ctl EXCEPT ![t] = "failed"],
             pick' = [pick EXCEPT ![s] = p], UNCHANGED cands
      PROVE  Adopting'
  <2>1. pick[s].ctl \in [TableSet -> {"scan", "adopt", "failed"}]
    BY <1>0 DEF PickState
  <2>2. \A j \in cands[s] : TableOf[j] # t
    BY <1>7 DEF Adopting
  <2>3. \A j \in cands[s] : p.ctl[TableOf[j]] = "adopt"
    BY <1>0, <1>7, <2>1, <2>2 DEF Adopting
  <2>4. QED
    BY <1>0, <1>1, <1>7, <2>3
<1>8. ASSUME NEW s \in Servers, NEW t \in TableSet, ScanConflict(s, t) PROVE Adopting'
  <2> DEFINE n == pick[s].cycles[t] - 1
             c == IF pick[s].cycles[t] = 1 THEN "failed" ELSE "scan"
             p == [pick[s] EXCEPT !.cycles[t] = n, !.ctl[t] = c]
  <2>1. pick' = [pick EXCEPT ![s] = p] /\ UNCHANGED cands /\ pick[s].ctl[t] = "scan"
    BY <1>0, <1>8 DEF ScanConflict
  <2>2. p.ctl = [pick[s].ctl EXCEPT ![t] = c]
    BY <1>0 DEF PickState
  <2> HIDE DEF p
  <2>3. QED
    BY <1>7, <2>1, <2>2
<1>9. ASSUME NEW s \in Servers, NEW t \in TableSet, ScanFails(s, t) PROVE Adopting'
  <2> DEFINE p == [pick[s] EXCEPT !.ctl[t] = "failed"]
  <2>1. pick' = [pick EXCEPT ![s] = p] /\ UNCHANGED cands /\ pick[s].ctl[t] = "scan"
    BY <1>0, <1>9 DEF ScanFails
  <2>2. p.ctl = [pick[s].ctl EXCEPT ![t] = "failed"]
    BY <1>0 DEF PickState
  <2> HIDE DEF p
  <2>3. QED
    BY <1>7, <2>1, <2>2
<1>10. ASSUME NEW s \in Servers, NEW j \in cands[s],
              Adopt(s, j) \/ RefuseOwn(s, j) \/ Skip(s, j) \/ AdoptConflict(s, j)
       PROVE  Adopting'
  <2>1. \A v \in Servers : cands'[v] \subseteq cands[v]
    BY <1>0, <1>10 DEF Adopt, RefuseOwn, Skip, AdoptConflict
  <2>2. CASE Adopt(s, j)
    <3>1. \A v \in Servers : pick'[v].ctl = pick[v].ctl
      BY <1>0, <2>2 DEF Adopt, PickState
    <3>2. QED
      BY <1>2, <2>1, <3>1
  <2>3. CASE UNCHANGED pick
    BY <1>2, <2>1, <2>3
  <2>4. QED
    BY <1>10, <2>2, <2>3 DEF RefuseOwn, Skip, AdoptConflict
<1>11. ASSUME NEW s \in Servers, NEW j \in cands[s], AdoptFails(s, j) PROVE Adopting'
  <2> DEFINE t == TableOf[j]
             got == pick[s].got \ {i \in pick[s].got : TableOf[i] = t}
  <2>1. /\ pick' = [pick EXCEPT ![s].ctl[t] = "failed", ![s].got = got]
        /\ cands' = [cands EXCEPT ![s] = {i \in @ : TableOf[i] # t}]
    BY <1>11 DEF AdoptFails
  <2>2. t \in TableSet
    BY <1>0
  <2> HIDE DEF got, t
  <2>3. /\ pick'[s].ctl = [pick[s].ctl EXCEPT ![t] = "failed"]
        /\ cands'[s] = {i \in cands[s] : TableOf[i] # t}
        /\ \A v \in Servers \ {s} : pick'[v] = pick[v] /\ cands'[v] = cands[v]
    BY <1>0, <2>1, <2>2 DEF PickState
  <2>4. pick[s].ctl \in [TableSet -> {"scan", "adopt", "failed"}]
    BY <1>0 DEF PickState
  <2>5. QED
    BY <1>0, <1>1, <2>3, <2>4 DEF Adopting
<1>12. ASSUME NEW s \in Servers, StartJobs(s) PROVE Adopting'
  <2>1. cands[s] = {}
    <3>1. \A j \in cands[s] : ~PickerDone(s, TableOf[j])
      BY DEF PickerDone, Adopting
    <3>2. QED
      BY <1>0, <1>12, <3>1 DEF StartJobs
  <2>2. QED
    BY <1>0, <1>3, <1>12, <2>1 DEF StartJobs
<1>13. ASSUME NEW s \in Servers, NEW j \in late[s], AdoptLate(s, j) PROVE Adopting'
  BY <1>2, <1>13 DEF AdoptLate
<1>14. ASSUME NEW s \in Servers, ResetTxn(s) \/ ResetFails(s) \/ Destroy(s) \/ Leave(s) \/ Join(s)
                                 \/ Restart(s)
       PROVE  Adopting'
  BY <1>2, <1>14 DEF ResetTxn, ResetFails, Destroy, Leave, Join, Restart
<1>15. ASSUME NEW s \in Servers, Crash(s) PROVE Adopting'
  BY <1>0, <1>3, <1>15 DEF Crash
<1>16. ASSUME NEW s \in Servers, NEW j \in Jobs, AddRunner(s, TypeOf[j]) PROVE Adopting'
  BY <1>2, <1>16 DEF AddRunner
<1>17. ASSUME NEW d \in Servers, NEW e \in Servers, Unresponsive(d, e) PROVE Adopting'
  BY <1>2, <1>17 DEF Unresponsive
<1>18. ASSUME NEW r \in runs, RunStep(r) PROVE Adopting'
  BY <1>2, <1>18 DEF RunStep, Read, RunRejects, Succeed, Fail, Readopted
<1>19. ASSUME NEW j \in Jobs, Lapse(j) PROVE Adopting'
  BY <1>2, <1>19 DEF Lapse
<1>20. CASE UNCHANGED vars
  BY <1>2, <1>20 DEF vars
<1>21. QED
  BY <1>5, <1>6, <1>8, <1>9, <1>10, <1>11, <1>12, <1>13, <1>14, <1>15, <1>16, <1>17, <1>18, <1>19, <1>20
     DEF Next, PickStep

(* A job stays in hand as long as its owner, the pick that took it and the *)
(* runs of its owner stay.                                                 *)
LEMMA InHandKept ==
  ASSUME NEW j \in Jobs, InHand(j), job'[j].exec = job[j].exec,
         \A s \in Servers : job[j].exec = s /\ j \in pick[s].got => j \in pick'[s].got \/ j \in orphans',
         \A r \in runs : r.job = j /\ job[j].exec = r.by =>
           j \in orphans' \/ \E q \in runs' : q.job = j /\ q.by = r.by,
         j \in orphans => j \in orphans'
  PROVE  InHand(j)'
<1>1. CASE j \in orphans
  BY <1>1 DEF InHand
<1>2. CASE \E s \in Servers : job[j].exec = s /\ j \in pick[s].got
  BY <1>2 DEF InHand, Served
<1>3. CASE \E r \in runs : r.job = j /\ Owned(r)
  <2>1. PICK r \in runs : r.job = j /\ job[j].exec = r.by
    BY <1>3 DEF Owned
  <2>2. CASE j \in orphans'
    BY <2>2 DEF InHand
  <2>3. CASE \E q \in runs' : q.job = j /\ q.by = r.by
    BY <2>1, <2>3 DEF InHand, Served, Owned
  <2>4. QED
    BY <2>1, <2>2, <2>3
<1>4. QED
  BY <1>1, <1>2, <1>3 DEF InHand, Served

(* What a step owes every job: it has no owner, or an owner that is down,  *)
(* or is in hand.                                                          *)
LEMMA StillServed ==
  ASSUME OwnedIsServed,
         \A j \in Jobs :
           \/ job'[j].exec = None
           \/ up'[job'[j].exec] = "down"
           \/ InHand(j)'
           \/ /\ job'[j].exec = job[j].exec
              /\ up[job[j].exec] = "down" => up'[job[j].exec] = "down"
              /\ InHand(j) => InHand(j)'
  PROVE  OwnedIsServed'
BY DEF OwnedIsServed, InHand

LEMMA PickStepServed ==
  ASSUME TypeOK, Idle, OwnedIsServed, NEW s \in Servers, PickStep(s)
  PROVE  OwnedIsServed'
<1>0. /\ pick \in [Servers -> PickState] /\ job \in [Jobs -> JobState]
      /\ cands \in [Servers -> SUBSET Jobs]
  BY DEF TypeOK
<1>1. UNCHANGED up
  BY DEF PickStep, Scan, ScanConflict, ScanFails, Adopt, RefuseOwn, Skip, AdoptConflict, AdoptFails,
         AdoptLate, StartJobs, ringVars
<1>2. ASSUME \A j \in Jobs : job'[j].exec = job[j].exec,
             \A v \in Servers : pick'[v].got = pick[v].got, UNCHANGED <<runs, orphans>>
      PROVE  OwnedIsServed'
  BY <1>1, <1>2, InHandKept, StillServed
<1>3. ASSUME NEW t \in TableSet, Scan(s, t) \/ ScanConflict(s, t) \/ ScanFails(s, t)
      PROVE  OwnedIsServed'
  <2>1. \A v \in Servers : pick'[v].got = pick[v].got
    <3>1. CASE Scan(s, t)
      BY <1>0, <3>1 DEF Scan, PickState
    <3>2. CASE ScanConflict(s, t)
      BY <1>0, <3>2 DEF ScanConflict, PickState
    <3>3. CASE ScanFails(s, t)
      BY <1>0, <3>3 DEF ScanFails, PickState
    <3>4. QED
      BY <1>3, <3>1, <3>2, <3>3
  <2>2. UNCHANGED <<job, runs, orphans>>
    BY <1>3 DEF Scan, ScanConflict, ScanFails, jobVars
  <2>3. QED
    BY <1>2, <2>1, <2>2
<1>4. ASSUME NEW j \in cands[s], Adopt(s, j) PROVE OwnedIsServed'
  <2>0. j \in Jobs /\ UNCHANGED runs
    BY <1>0, <1>4 DEF Adopt
  <2>1. job'[j].exec = s /\ \A i \in Jobs \ {j} : job'[i] = job[i]
    BY <1>0, <1>4, <2>0 DEF Adopt, Write, JobState
  <2>2. pick' = [pick EXCEPT ![s].got = @ \cup {j}] /\ orphans' = orphans \ {j}
    BY <1>4 DEF Adopt
  <2>3. j \in pick'[s].got /\ \A v \in Servers : pick[v].got \subseteq pick'[v].got
    BY <1>0, <2>2 DEF PickState
  <2>4. InHand(j)'
    BY <2>1, <2>3 DEF InHand, Served
  <2>5. \A i \in Jobs \ {j} : InHand(i) => InHand(i)'
    BY <2>0, <2>1, <2>2, <2>3, InHandKept
  <2>6. QED
    BY <1>1, <2>1, <2>4, <2>5, StillServed
<1>5. ASSUME NEW j \in cands[s], RefuseOwn(s, j) PROVE OwnedIsServed'
  <2>1. \A i \in Jobs : job'[i].exec = job[i].exec
    BY <1>0, <1>5 DEF RefuseOwn, Write, JobState
  <2>2. UNCHANGED <<pick, runs, orphans>>
    BY <1>5 DEF RefuseOwn
  <2>3. QED
    BY <1>2, <2>1, <2>2
<1>6. ASSUME NEW j \in cands[s], Skip(s, j) \/ AdoptConflict(s, j) PROVE OwnedIsServed'
  BY <1>2, <1>6 DEF Skip, AdoptConflict, jobVars
<1>7. ASSUME NEW j \in cands[s], AdoptFails(s, j) PROVE OwnedIsServed'
  <2>1. UNCHANGED <<job, runs>>
    BY <1>7 DEF AdoptFails, jobVars
  <2>2. /\ \A i \in orphans : i \in orphans'
        /\ \A v \in Servers : \A i \in pick[v].got :
             job[i].exec = v => i \in pick'[v].got \/ i \in orphans'
    <3> DEFINE lost == {i \in pick[s].got : TableOf[i] = TableOf[j]}
    <3>1. /\ orphans' = orphans \cup {i \in lost : job[i].exec = s}
          /\ pick' = [pick EXCEPT ![s].ctl[TableOf[j]] = "failed", ![s].got = @ \ lost]
      BY <1>7 DEF AdoptFails
    <3> HIDE DEF lost
    <3>2. pick'[s].got = pick[s].got \ lost /\ \A v \in Servers \ {s} : pick'[v] = pick[v]
      BY <1>0, <3>1 DEF PickState
    <3>3. QED
      BY <3>1, <3>2
  <2>3. \A i \in Jobs : InHand(i) => InHand(i)'
    BY <2>1, <2>2, InHandKept
  <2>4. QED
    BY <1>1, <2>1, <2>3, StillServed
<1>8. ASSUME StartJobs(s) PROVE OwnedIsServed'
  <2>1. UNCHANGED <<job, orphans>> /\ runs \subseteq runs'
    BY <1>8 DEF StartJobs, jobVars
  <2>2. \A v \in Servers \ {s} : pick'[v] = pick[v]
    BY <1>0, <1>8 DEF StartJobs
  <2>3. \A i \in pick[s].got : \E q \in runs' : q.job = i /\ q.by = s
    <3> DEFINE new(i) == [job |-> i, by |-> s, able |-> TypeOf[i] \in runners[s], ctl |-> "starting"]
    <3>1. \A i \in pick[s].got : new(i) \in runs'
      BY <1>8 DEF StartJobs
    <3>2. \A i \in pick[s].got : new(i).job = i /\ new(i).by = s
      OBVIOUS
    <3> HIDE DEF new
    <3>3. QED
      BY <3>1, <3>2
  <2>4. ASSUME NEW i \in Jobs, InHand(i) PROVE InHand(i)'
    <3>1. CASE job[i].exec = s /\ i \in pick[s].got
      BY <2>1, <2>3, <3>1 DEF InHand, Served, Owned
    <3>2. CASE ~(job[i].exec = s /\ i \in pick[s].got)
      BY <2>1, <2>2, <2>4, <3>2, InHandKept
    <3>3. QED
      BY <3>1, <3>2
  <2>5. QED
    BY <1>1, <2>1, <2>4, StillServed
<1>9. ASSUME NEW j \in late[s], AdoptLate(s, j) PROVE OwnedIsServed'
  <2>0. j \in Jobs /\ UNCHANGED <<pick, runs>>
    BY <1>9 DEF AdoptLate, TypeOK
  <2>1. job'[j].exec = s /\ \A i \in Jobs \ {j} : job'[i] = job[i]
    BY <1>0, <1>9, <2>0 DEF AdoptLate, Write, JobState
  <2>2. orphans \subseteq orphans' /\ (job[j].exec # s => j \in orphans')
    BY <1>9 DEF AdoptLate
  <2>3. \A i \in Jobs \ {j} : InHand(i) => InHand(i)'
    BY <2>0, <2>1, <2>2, InHandKept
  <2>4. CASE job[j].exec = s
    <3>1. InHand(j) => InHand(j)'
      BY <2>0, <2>1, <2>2, <2>4, InHandKept
    <3>2. QED
      BY <1>1, <2>1, <2>3, <2>4, <3>1, StillServed
  <2>5. CASE job[j].exec # s
    <3>1. InHand(j)'
      BY <2>2, <2>5 DEF InHand
    <3>2. QED
      BY <1>1, <2>1, <2>3, <3>1, StillServed
  <2>6. QED
    BY <2>4, <2>5
<1>10. QED
  BY <1>3, <1>4, <1>5, <1>6, <1>7, <1>8, <1>9 DEF PickStep

LEMMA RunStepServed ==
  ASSUME TypeOK, OwnedIsServed, NEW r \in runs, RunStep(r)
  PROVE  OwnedIsServed'
<1>0. /\ job \in [Jobs -> JobState] /\ runs \in SUBSET RunState
      /\ r \in RunState /\ r.job \in Jobs
  BY DEF TypeOK, RunState
<1>1. UNCHANGED <<up, pick>> /\ \A i \in Jobs \ {r.job} : i \in orphans => i \in orphans'
  BY DEF RunStep, Read, RunRejects, Succeed, Fail, Readopted, ringVars
<1>2. ASSUME \A i \in Jobs \ {r.job} : job'[i] = job[i], runs \ {r} \subseteq runs',
             \/ job'[r.job].exec = None
             \/ r.job \in orphans'
             \/ job'[r.job] = job[r.job] /\ ~Owned(r) /\ UNCHANGED orphans
             \/ job'[r.job] = job[r.job] /\ UNCHANGED orphans /\ \E q \in runs' : q.job = r.job /\ q.by = r.by
      PROVE  OwnedIsServed'
  <2>1. \A i \in Jobs \ {r.job} : InHand(i) => InHand(i)'
    BY <1>1, <1>2, InHandKept
  <2>2. CASE job'[r.job] = job[r.job] /\ ~Owned(r) /\ UNCHANGED orphans
    <3>1. InHand(r.job) => InHand(r.job)'
      BY <1>0, <1>1, <1>2, <2>2, InHandKept DEF Owned
    <3>2. QED
      BY <1>1, <1>2, <2>1, <2>2, <3>1, StillServed
  <2>3. CASE job'[r.job] = job[r.job] /\ UNCHANGED orphans /\ \E q \in runs' : q.job = r.job /\ q.by = r.by
    <3>1. InHand(r.job) => InHand(r.job)'
      BY <1>0, <1>1, <1>2, <2>3, InHandKept
    <3>2. QED
      BY <1>1, <1>2, <2>1, <2>3, <3>1, StillServed
  <2>4. CASE job'[r.job].exec = None \/ r.job \in orphans'
    BY <1>1, <1>2, <2>1, <2>4, StillServed DEF InHand
  <2>5. QED
    BY <1>2, <2>2, <2>3, <2>4
<1>3. CASE Read(r)
  <2>1. UNCHANGED <<job, orphans>> /\ runs \ {r} \subseteq runs'
    BY <1>3 DEF Read, jobVars
  <2>2. Owned(r) => \E q \in runs' : q.job = r.job /\ q.by = r.by
    <3>1. Owned(r) => [r EXCEPT !.ctl = "running"] \in runs'
      BY <1>3 DEF Read
    <3>2. [r EXCEPT !.ctl = "running"].job = r.job /\ [r EXCEPT !.ctl = "running"].by = r.by
      BY <1>0 DEF RunState
    <3>3. QED
      BY <3>1, <3>2
  <2>3. QED
    BY <1>2, <2>1, <2>2
<1>4. CASE RunRejects(r)
  BY <1>2, <1>4 DEF RunRejects, jobVars
<1>5. CASE Succeed(r)
  <2>1. CASE Owned(r)
    <3>1. job'[r.job].exec = None /\ \A i \in Jobs \ {r.job} : job'[i] = job[i]
      <4>1. PICK h \in Succeeded(r.job, job[r.job]) : job' = [job EXCEPT ![r.job] = h]
        BY <1>5, <2>1 DEF Succeed, Write
      <4>2. h.exec = None
        BY <1>0, OutcomesTyped
      <4>3. QED
        BY <1>0, <4>1, <4>2
    <3>2. QED
      BY <1>2, <1>5, <3>1 DEF Succeed
  <2>2. CASE ~Owned(r)
    BY <1>2, <1>5, <2>2 DEF Succeed, jobVars
  <2>3. QED
    BY <2>1, <2>2
<1>6. CASE Fail(r)
  <2>1. PICK h \in Failed(r.job, job[r.job], r.able) : job' = [job EXCEPT ![r.job] = h]
    BY <1>6 DEF Fail, Write
  <2>1a. h.exec = None
    BY <1>0, OutcomesTyped
  <2>2. job'[r.job].exec = None /\ \A i \in Jobs \ {r.job} : job'[i] = job[i]
    BY <1>0, <2>1, <2>1a
  <2>3. QED
    BY <1>2, <1>6, <2>2 DEF Fail
<1>7. CASE Readopted(r)
  BY <1>2, <1>7 DEF Readopted, jobVars
<1>8. QED
  BY <1>3, <1>4, <1>5, <1>6, <1>7 DEF RunStep

LEMMA StepServed == TypeOK /\ Idle /\ OwnedIsServed /\ [Next]_vars => OwnedIsServed'
<1> SUFFICES ASSUME TypeOK, Idle, OwnedIsServed, [Next]_vars PROVE OwnedIsServed'
  OBVIOUS
<1>0. /\ pick \in [Servers -> PickState] /\ job \in [Jobs -> JobState]
      /\ up \in [Servers -> {"up", "destroyed", "down"}]
  BY DEF TypeOK
<1>1. ASSUME \A j \in Jobs : job'[j].exec = None \/ job'[j].exec = job[j].exec,
             \A s \in Servers : pick'[s].got = pick[s].got,
             \A s \in Servers : up[s] = "down" => up'[s] = "down", UNCHANGED runs,
             \A j \in orphans \ orphans' : j \in Jobs => job'[j].exec = None
      PROVE  OwnedIsServed'
  <2>1. ASSUME NEW j \in Jobs
        PROVE  \/ job'[j].exec = None
               \/ /\ job'[j].exec = job[j].exec
                  /\ InHand(j) => InHand(j)'
    BY <1>1, InHandKept
  <2>2. ASSUME NEW j \in Jobs, job[j].exec # None, up[job[j].exec] = "down"
        PROVE  up'[job[j].exec] = "down"
    BY <1>0, <1>1, <2>2 DEF JobState
  <2>3. QED
    BY <2>1, <2>2, StillServed
<1>2. ASSUME NEW s \in Servers, OnToken(s) PROVE OwnedIsServed'
  <2>1. \A v \in Servers : pick'[v].got = pick[v].got
    <3>1. pick[s].got = {}
      BY <1>2 DEF OnToken, Idle, NoPick
    <3>2. pick'[s].got = {} /\ \A v \in Servers \ {s} : pick'[v] = pick[v]
      BY <1>0, <1>2 DEF OnToken
    <3>3. QED
      BY <3>1, <3>2
  <2>2. QED
    BY <1>1, <1>2, <2>1 DEF OnToken, jobVars
<1>3. ASSUME NEW s \in Servers, PickStep(s) PROVE OwnedIsServed'
  BY <1>3, PickStepServed
<1>4. ASSUME NEW s \in Servers, ResetTxn(s) PROVE OwnedIsServed'
  <2>1. PICK S \in SUBSET Jobs :
          /\ job' = [j \in Jobs |-> IF j \in S THEN [job[j] EXCEPT !.due = "due", !.exec = None] ELSE job[j]]
          /\ orphans' = orphans \ S
    BY <1>4 DEF ResetTxn, JobsIn
  <2>2. \A j \in Jobs : job'[j].exec = None \/ job'[j].exec = job[j].exec
    BY <1>0, <2>1 DEF JobState
  <2>3. UNCHANGED <<pick, up, runs>>
    BY <1>4 DEF ResetTxn, ringVars
  <2>4. \A j \in orphans \ orphans' : j \in Jobs => job'[j].exec = None
    BY <1>0, <2>1 DEF JobState
  <2>5. QED
    BY <1>1, <2>2, <2>3, <2>4
<1>5. ASSUME NEW s \in Servers, ResetFails(s) \/ Leave(s) \/ Join(s) PROVE OwnedIsServed'
  BY <1>1, <1>5 DEF ResetFails, Leave, Join, jobVars, ringVars
<1>6. ASSUME NEW s \in Servers, Destroy(s) PROVE OwnedIsServed'
  BY <1>0, <1>1, <1>6 DEF Destroy, jobVars
<1>7. ASSUME NEW s \in Servers, Crash(s) PROVE OwnedIsServed'
  <2>1. /\ UNCHANGED <<job, orphans>> /\ runs' = {r \in runs : r.by # s} /\ up'[s] = "down"
        /\ \A v \in Servers \ {s} : pick'[v] = pick[v] /\ up'[v] = up[v]
    BY <1>0, <1>7 DEF Crash
  <2>2. ASSUME NEW j \in Jobs, job[j].exec # s, InHand(j) PROVE InHand(j)'
    BY <2>1, <2>2, InHandKept
  <2>3. ASSUME NEW j \in Jobs, job[j].exec # None, up[job[j].exec] = "down"
        PROVE  up'[job[j].exec] = "down"
    BY <1>0, <2>1, <2>3 DEF JobState
  <2>4. QED
    BY <2>1, <2>2, <2>3, StillServed
<1>8. ASSUME NEW s \in Servers, NEW j \in Jobs, AddRunner(s, TypeOf[j]) PROVE OwnedIsServed'
  BY <1>1, <1>8 DEF AddRunner, jobVars, ringVars
<1>9. ASSUME NEW d \in Servers, NEW e \in Servers, Unresponsive(d, e) PROVE OwnedIsServed'
  BY <1>1, <1>9 DEF Unresponsive, jobVars
<1>10. ASSUME NEW r \in runs, RunStep(r) PROVE OwnedIsServed'
  BY <1>10, RunStepServed
<1>11. ASSUME NEW j \in Jobs, Lapse(j) PROVE OwnedIsServed'
  <2>1. \A i \in Jobs : job'[i].exec = job[i].exec
    BY <1>0, <1>11 DEF Lapse, Write, JobState
  <2>2. UNCHANGED <<pick, up, runs, orphans>>
    BY <1>11 DEF Lapse, ringVars
  <2>3. QED
    BY <1>1, <2>1, <2>2
<1>12. ASSUME NEW s \in Servers, Restart(s) PROVE OwnedIsServed'
  <2>1. /\ UNCHANGED <<job, pick, runs>> /\ orphans' = orphans \cup {j \in Jobs : job[j].exec = s}
        /\ \A v \in Servers \ {s} : up'[v] = up[v]
    BY <1>0, <1>12 DEF Restart, jobVars
  <2>2. \A j \in Jobs : InHand(j) => InHand(j)'
    BY <2>1, InHandKept
  <2>3. \A j \in Jobs : job[j].exec = s => InHand(j)'
    BY <2>1 DEF InHand
  <2>4. ASSUME NEW j \in Jobs, job[j].exec # None, job[j].exec # s, up[job[j].exec] = "down"
        PROVE  up'[job[j].exec] = "down"
    BY <1>0, <2>1, <2>4 DEF JobState
  <2>5. QED
    BY <2>1, <2>2, <2>3, <2>4, StillServed
<1>13. CASE UNCHANGED vars
  BY <1>1, <1>13 DEF vars
<1>14. QED
  BY <1>2, <1>3, <1>4, <1>5, <1>6, <1>7, <1>8, <1>9, <1>10, <1>11, <1>12, <1>13 DEF Next

(* A job that carries the name of a server that is not down is in that     *)
(* server's hands, from the adoption through the other pickers to the      *)
(* outcome, or it has been an orphan since it got the name or its server   *)
(* came back (workflowPicker.ts; workflowEngine.ts, onToken and startJob;  *)
(* jobRunner.ts).                                                          *)
THEOREM OwnersServe == Spec => []OwnedIsServed
<1>1. Init => Typed /\ Idle /\ Adopting /\ OwnedIsServed
  BY InitTyped, InitIdle
<1>2. Typed /\ Idle /\ Adopting /\ OwnedIsServed /\ [Next]_vars
        => (Typed /\ Idle /\ Adopting /\ OwnedIsServed)'
  BY StepTyped, StepIdle, StepAdopting, StepServed DEF Typed
<1>3. QED
  BY <1>1, <1>2, PTL DEF Spec

(***************************************************************************)
(* Resets                                                                  *)
(***************************************************************************)

(* While the server a reset is for stays down, every job that still        *)
(* carries its name is in a table that the reset has yet to ask; unless    *)
(* the alarm was raised.                                                   *)
Ahead(j, d) == \E k \in 1..Len(reset[d].left) : reset[d].left[k] = TableOf[j]

Resetting ==
  \A d \in Servers : reset[d] # NoReset =>
    /\ reset[d].of \in Servers
    /\ reset[d].gone =>
         /\ up[reset[d].of] = "down"
         /\ reported \/ \A j \in Jobs : job[j].exec = reset[d].of => Ahead(j, d)

Complete ==
  \A d \in Servers :
    /\ reset[d] # NoReset
    /\ reset'[d] = NoReset
    /\ up'[d] # "down"
    /\ reset[d].gone
    => reported' \/ \A j \in Jobs : job'[j].exec # reset[d].of

(* A step that gives no job to a server that is down, and leaves the       *)
(* resets alone.                                                           *)
LEMMA ResettingKept ==
  ASSUME Resetting, UNCHANGED <<reset, reported>>,
         \A s \in Servers : up[s] = "down" => up'[s] = "down",
         \A j \in Jobs : \A s \in Servers : job'[j].exec = s /\ up[s] = "down" => job[j].exec = s
  PROVE  Resetting' /\ Complete
BY DEF Resetting, Ahead, Complete

LEMMA ResetTxnComplete ==
  ASSUME Typed, Resetting, NEW d \in Servers, ResetTxn(d)
  PROVE  Resetting' /\ Complete
<1> DEFINE x == reset[d]
           n == x.cycles - 1
           lost == JobsIn(x.of, Head(x.left))
<1>0. /\ reset \in [Servers -> ResetState] /\ job \in [Jobs -> JobState]
      /\ x \in ResetState /\ x # NoReset /\ x.cycles >= 1 /\ x.left # <<>>
      /\ x.of \in Servers /\ (x.gone => up[x.of] = "down") /\ UNCHANGED up
  BY DEF Typed, TypeOK, ResetState, Budget, ResetTxn, Resetting, ringVars
<1>1. PICK S \in SUBSET lost :
        /\ Cardinality(S) < ResetLimit => S = lost
        /\ job' = [j \in Jobs |-> IF j \in S THEN [job[j] EXCEPT !.due = "due", !.exec = None]
                                  ELSE job[j]]
        /\ reported' = (reported \/ n = 0)
        /\ reset' = [reset EXCEPT ![d] =
               IF S # {} /\ n # 0 THEN [x EXCEPT !.cycles = n]
               ELSE IF Len(x.left) = 1 THEN NoReset
               ELSE [x EXCEPT !.left = Tail(x.left), !.cycles = ResetCycles]]
  BY DEF ResetTxn, Alarm
<1>2. \A j \in Jobs : \A s \in Servers : job'[j].exec = s => job[j].exec = s
  <2>1. \A j \in Jobs : [job[j] EXCEPT !.due = "due", !.exec = None].exec = None
    BY <1>0 DEF JobState
  <2>2. \A j \in Jobs : job'[j].exec = None \/ job'[j] = job[j]
    <3>1. S \subseteq Jobs
      BY DEF JobsIn
    <3>2. QED
      BY <1>1, <2>1, <3>1
  <2>3. QED
    BY <2>2, EngineAssumption
<1>3. S = {} => \A j \in Jobs : job[j].exec = x.of => TableOf[j] # Head(x.left)
  <2>1. S = {} => lost = {}
    BY <1>1, FS_EmptySet, EngineAssumption
  <2>2. QED
    BY <2>1 DEF JobsIn
<1>4. \A q \in Servers \ {d} : reset'[q] = reset[q]
  BY <1>0, <1>1
<1> HIDE DEF n, lost
<1>5. CASE S # {} /\ n # 0
  <2>1. /\ reset'[d].of = x.of /\ reset'[d].left = x.left /\ reset'[d].gone = x.gone
        /\ reset'[d] = [x EXCEPT !.cycles = n]
    BY <1>0, <1>1, <1>5 DEF ResetState
  <2>2. reported => reported'
    BY <1>1
  <2>3. \A q \in Servers : reset'[q] # NoReset => reset[q] # NoReset /\ reset'[q].of = reset[q].of
                                                /\ reset'[q].left = reset[q].left
                                                /\ reset'[q].gone = reset[q].gone
    BY <1>0, <1>4, <2>1
  <2>4. Resetting'
    BY <1>0, <1>2, <2>2, <2>3 DEF Resetting, Ahead
  <2>5. reset'[d] # NoReset
    BY <1>0, <2>1, EngineAssumption DEF NoReset
  <2>6. QED
    BY <1>4, <2>4, <2>5 DEF Complete
<1>6. CASE ~(S # {} /\ n # 0) /\ Len(x.left) = 1
  <2>1. reset'[d] = NoReset
    BY <1>0, <1>1, <1>6
  <2>2. ASSUME ~reported', x.gone PROVE \A j \in Jobs : job'[j].exec # x.of
    <3>1. S = {} /\ ~reported
      BY <1>1, <1>6, <2>2
    <3>2. \A j \in Jobs : job[j].exec = x.of => Ahead(j, d)
      BY <1>0, <2>2, <3>1 DEF Resetting
    <3>3. Head(x.left) = x.left[1]
      BY <1>0 DEF ResetState
    <3>4. \A j \in Jobs : job[j].exec # x.of
      BY <1>3, <1>6, <3>1, <3>2, <3>3 DEF Ahead
    <3>5. QED
      BY <1>0, <1>2, <3>4
  <2>3. Complete
    BY <1>4, <2>2 DEF Complete
  <2>4. reported => reported'
    BY <1>1
  <2>5. Resetting'
    BY <1>0, <1>2, <1>4, <2>1, <2>4 DEF Resetting, Ahead
  <2>6. QED
    BY <2>3, <2>5
<1>7. CASE ~(S # {} /\ n # 0) /\ Len(x.left) # 1
  <2>1. reset'[d].of = x.of /\ reset'[d].left = Tail(x.left) /\ reset'[d].gone = x.gone
    BY <1>0, <1>1, <1>7 DEF ResetState
  <2>2. reset'[d] # NoReset
    BY <1>0, <2>1, EngineAssumption DEF NoReset
  <2>3. Complete
    BY <1>4, <2>2 DEF Complete
  <2>4. ASSUME ~reported', x.gone, NEW j \in Jobs, job'[j].exec = x.of
        PROVE  \E k \in 1..Len(Tail(x.left)) : Tail(x.left)[k] = TableOf[j]
    <3>1. S = {} /\ ~reported
      BY <1>1, <1>7, <2>4
    <3>2. job[j].exec = x.of
      BY <1>0, <1>2, <2>4
    <3>3. PICK k \in 1..Len(x.left) : x.left[k] = TableOf[j]
      BY <1>0, <2>4, <3>1, <3>2 DEF Resetting, Ahead
    <3>4. x.left \in Seq(TableSet) /\ Len(x.left) \in Nat /\ Head(x.left) = x.left[1]
      BY <1>0 DEF ResetState
    <3>5. k # 1
      BY <1>3, <3>1, <3>2, <3>3, <3>4
    <3>6. /\ Len(Tail(x.left)) = Len(x.left) - 1
          /\ \A i \in 1..(Len(x.left) - 1) : Tail(x.left)[i] = x.left[i + 1]
      BY <1>0, <3>4, HeadTailProperties
    <3>7. k - 1 \in 1..Len(Tail(x.left)) /\ Tail(x.left)[k - 1] = x.left[k]
      BY <3>3, <3>4, <3>5, <3>6
    <3>8. QED
      BY <3>3, <3>7
  <2>5. reported => reported'
    BY <1>1
  <2>6. Resetting'
    <3>1. ASSUME NEW q \in Servers, reset'[q] # NoReset
          PROVE  /\ reset'[q].of \in Servers
                 /\ reset'[q].gone =>
                      /\ up'[reset'[q].of] = "down"
                      /\ reported' \/ \A j \in Jobs : job'[j].exec = reset'[q].of => Ahead(j, q)'
      <4>1. CASE q = d
        <5>1. reset'[q].of = x.of /\ reset'[q].left = Tail(x.left) /\ reset'[q].gone = x.gone
          BY <2>1, <4>1
        <5>2. \A j \in Jobs : x.gone /\ job'[j].exec = x.of /\ ~reported' => Ahead(j, q)'
          BY <2>4, <5>1 DEF Ahead
        <5>3. QED
          BY <1>0, <5>1, <5>2
      <4>2. CASE q # d
        BY <1>0, <1>2, <1>4, <2>5, <3>1, <4>2 DEF Resetting, Ahead
      <4>3. QED
        BY <4>1, <4>2
    <3>2. QED
      BY <3>1 DEF Resetting
  <2>7. QED
    BY <2>3, <2>6
<1>8. QED
  BY <1>5, <1>6, <1>7

LEMMA InitResetting == Init => Resetting
BY DEF Init, Resetting

LEMMA StepComplete == Typed /\ Idle /\ Resetting /\ [Next]_vars => Resetting' /\ Complete
<1> SUFFICES ASSUME Typed, Idle, Resetting, [Next]_vars PROVE Resetting' /\ Complete
  OBVIOUS
<1>0. /\ job \in [Jobs -> JobState] /\ cands \in [Servers -> SUBSET Jobs]
      /\ up \in [Servers -> {"up", "destroyed", "down"}] /\ reset \in [Servers -> ResetState]
      /\ runs \in SUBSET RunState
  BY DEF Typed, TypeOK, ResetState
<1>1. ASSUME UNCHANGED <<reset, reported, up>>,
             \A j \in Jobs : job'[j].exec = None \/ job'[j].exec = job[j].exec
      PROVE  Resetting' /\ Complete
  BY <1>1, ResettingKept, EngineAssumption
<1>2. ASSUME NEW s \in Servers, OnToken(s) \/ StartJobs(s) PROVE Resetting' /\ Complete
  BY <1>1, <1>2 DEF OnToken, StartJobs, jobVars
<1>3. ASSUME NEW s \in Servers, NEW t \in TableSet, Scan(s, t) \/ ScanConflict(s, t) \/ ScanFails(s, t)
      PROVE  Resetting' /\ Complete
  BY <1>1, <1>3 DEF Scan, ScanConflict, ScanFails, jobVars, ringVars
<1>4. ASSUME NEW s \in Servers, NEW j \in cands[s], Adopt(s, j) PROVE Resetting' /\ Complete
  <2>1. up[s] # "down" /\ j \in Jobs
    BY <1>0 DEF Idle
  <2>2. job'[j].exec = s /\ \A i \in Jobs \ {j} : job'[i] = job[i]
    BY <1>0, <1>4, <2>1 DEF Adopt, Write, JobState
  <2>3. UNCHANGED <<reset, reported, up>>
    BY <1>4 DEF Adopt, ringVars
  <2>4. QED
    BY <2>1, <2>2, <2>3, ResettingKept
<1>5. ASSUME NEW s \in Servers, NEW j \in cands[s], RefuseOwn(s, j) PROVE Resetting' /\ Complete
  <2>1. \A i \in Jobs : job'[i].exec = job[i].exec
    BY <1>0, <1>5 DEF RefuseOwn, Write, JobState
  <2>2. QED
    BY <1>1, <1>5, <2>1 DEF RefuseOwn, ringVars
<1>6. ASSUME NEW s \in Servers, NEW j \in cands[s], Skip(s, j) \/ AdoptConflict(s, j) \/ AdoptFails(s, j)
      PROVE  Resetting' /\ Complete
  BY <1>1, <1>6 DEF Skip, AdoptConflict, AdoptFails, jobVars, ringVars
<1>7. ASSUME NEW s \in Servers, ResetTxn(s) PROVE Resetting' /\ Complete
  BY <1>7, ResetTxnComplete
<1>8. ASSUME NEW s \in Servers, ResetFails(s) PROVE Resetting' /\ Complete
  <2>1. /\ UNCHANGED <<job, up>> /\ reported' /\ reset'[s] = NoReset
        /\ \A d \in Servers \ {s} : reset'[d] = reset[d]
    BY <1>0, <1>8 DEF ResetFails, jobVars, ringVars
  <2>2. QED
    BY <2>1 DEF Resetting, Complete
<1>9. ASSUME NEW s \in Servers, Leave(s) \/ Join(s) PROVE Resetting' /\ Complete
  BY <1>1, <1>9 DEF Leave, Join, jobVars
<1>10. ASSUME NEW s \in Servers, Destroy(s) PROVE Resetting' /\ Complete
  <2>1. \A v \in Servers : up[v] = "down" => up'[v] = "down"
    BY <1>0, <1>10 DEF Destroy
  <2>2. UNCHANGED <<job, reset, reported>>
    BY <1>10 DEF Destroy, jobVars
  <2>3. QED
    BY <2>1, <2>2, ResettingKept
<1>11. ASSUME NEW s \in Servers, Crash(s) PROVE Resetting' /\ Complete
  <2>1. /\ UNCHANGED <<job, reported>> /\ reset'[s] = NoReset /\ up'[s] = "down"
        /\ \A d \in Servers \ {s} : reset'[d] = reset[d]
        /\ \A v \in Servers : up[v] = "down" => up'[v] = "down"
    BY <1>0, <1>11 DEF Crash
  <2>2. QED
    BY <2>1 DEF Resetting, Ahead, Complete
<1>12. ASSUME NEW s \in Servers, NEW j \in Jobs, AddRunner(s, TypeOf[j]) PROVE Resetting' /\ Complete
  BY <1>1, <1>12 DEF AddRunner, jobVars, ringVars
<1>13. ASSUME NEW d \in Servers, NEW e \in Servers, Unresponsive(d, e) PROVE Resetting' /\ Complete
  <2>1. /\ UNCHANGED <<job, up, reported>> /\ up[e] = "down" /\ reset[d] = NoReset
        /\ reset'[d] = [of |-> e, left |-> Tables, cycles |-> ResetCycles, gone |-> TRUE]
        /\ \A q \in Servers \ {d} : reset'[q] = reset[q]
    BY <1>0, <1>13 DEF Unresponsive, jobVars, Pickers
  <2>2. \A j \in Jobs : Ahead(j, d)'
    <3>1. reset'[d].left = Tables
      BY <2>1
    <3>2. \A j \in Jobs : \E k \in 1..Len(Tables) : Tables[k] = TableOf[j]
      BY EngineAssumption
    <3>3. QED
      BY <3>1, <3>2 DEF Ahead
  <2>3. reset'[d].of = e
    BY <2>1
  <2>4. Resetting'
    BY <2>1, <2>2, <2>3 DEF Resetting, Ahead
  <2>5. Complete
    BY <2>1 DEF Complete
  <2>6. QED
    BY <2>4, <2>5
<1>14. ASSUME NEW r \in runs, RunStep(r) PROVE Resetting' /\ Complete
  <2>0. r.job \in Jobs
    BY <1>0 DEF RunState
  <2>1. UNCHANGED <<reset, reported, up>>
    BY <1>14 DEF RunStep, Read, RunRejects, Succeed, Fail, Readopted, ringVars
  <2>2. CASE UNCHANGED job
    BY <1>1, <2>1, <2>2
  <2>3. CASE \E h \in Succeeded(r.job, job[r.job]) \cup Failed(r.job, job[r.job], r.able) : Write(r.job, h)
    <3>0. PICK h \in Succeeded(r.job, job[r.job]) \cup Failed(r.job, job[r.job], r.able) : Write(r.job, h)
      BY <2>3
    <3>0a. job[r.job] \in JobState
      BY <1>0, <2>0
    <3>1. h.exec = None /\ job' = [job EXCEPT ![r.job] = h]
      <4>1. h.exec = None
        BY <2>0, <3>0, <3>0a, OutcomesTyped
      <4>2. QED
        BY <3>0, <4>1 DEF Write
    <3>2. job'[r.job].exec = None /\ \A i \in Jobs \ {r.job} : job'[i] = job[i]
      BY <1>0, <2>0, <3>1
    <3>3. QED
      BY <1>1, <2>1, <3>2
  <2>4. QED
    BY <1>14, <2>2, <2>3 DEF RunStep, Read, RunRejects, Succeed, Fail, Readopted, jobVars
<1>15. ASSUME NEW j \in Jobs, Lapse(j) PROVE Resetting' /\ Complete
  <2>1. \A i \in Jobs : job'[i].exec = job[i].exec
    BY <1>0, <1>15 DEF Lapse, Write, JobState
  <2>2. QED
    BY <1>1, <1>15, <2>1 DEF Lapse, ringVars
<1>16. ASSUME NEW s \in Servers, NEW j \in late[s], AdoptLate(s, j) PROVE Resetting' /\ Complete
  <2>1. up[s] # "down" /\ j \in Jobs
    BY <1>16 DEF Idle, Typed, TypeOK
  <2>2. job'[j].exec = s /\ \A i \in Jobs \ {j} : job'[i] = job[i]
    BY <1>0, <1>16, <2>1 DEF AdoptLate, Write, JobState
  <2>3. UNCHANGED <<reset, reported, up>>
    BY <1>16 DEF AdoptLate, ringVars
  <2>4. QED
    BY <2>1, <2>2, <2>3, ResettingKept
<1>17. ASSUME NEW s \in Servers, Restart(s) PROVE Resetting' /\ Complete
  <2>1. /\ UNCHANGED <<job, reported>>
        /\ \A v \in Servers \ {s} : up'[v] = up[v]
        /\ \A d \in Servers : reset[d].of # s => reset'[d] = reset[d]
        /\ \A d \in Servers : reset[d].of = s => reset'[d] = [reset[d] EXCEPT !.gone = FALSE]
    BY <1>0, <1>17 DEF Restart, jobVars
  <2>2. ASSUME NEW d \in Servers, reset[d].of = s
        PROVE  ~reset'[d].gone /\ reset'[d].of = s
    <3>1. \A x \in ResetState : LET y == [x EXCEPT !.gone = FALSE] IN ~y.gone /\ y.of = x.of
      BY DEF ResetState
    <3>2. reset[d] \in ResetState /\ reset'[d] = [reset[d] EXCEPT !.gone = FALSE]
      BY <1>0, <2>1, <2>2
    <3>3. QED
      BY <2>2, <3>1, <3>2, Zenon
  <2>3. NoReset.of = None
    BY DEF NoReset
  <2>4. \A d \in Servers : reset[d] # NoReset => reset'[d] # NoReset
    <3>1. ASSUME NEW d \in Servers, reset[d] # NoReset PROVE reset'[d] # NoReset
      <4>1. CASE reset[d].of = s
        BY <2>2, <2>3, <4>1, EngineAssumption
      <4>2. CASE reset[d].of # s
        BY <2>1, <3>1, <4>2
      <4>3. QED
        BY <4>1, <4>2
    <3>2. QED
      BY <3>1
  <2>5. ASSUME NEW d \in Servers, reset'[d] # NoReset
        PROVE  /\ reset'[d].of \in Servers
               /\ reset'[d].gone =>
                    /\ up'[reset'[d].of] = "down"
                    /\ reported' \/ \A j \in Jobs : job'[j].exec = reset'[d].of => Ahead(j, d)'
    <3>1. CASE reset[d].of = s
      BY <2>2, <3>1
    <3>2. CASE reset[d].of # s
      BY <2>1, <2>5, <3>2 DEF Resetting, Ahead
    <3>3. QED
      BY <3>1, <3>2
  <2>6. Resetting'
    BY <2>5 DEF Resetting
  <2>7. QED
    BY <2>4, <2>6 DEF Complete
<1>18. CASE UNCHANGED vars
  BY <1>1, <1>18 DEF vars
<1>19. QED
  BY <1>2, <1>3, <1>4, <1>5, <1>6, <1>7, <1>8, <1>9, <1>10, <1>11, <1>12, <1>13, <1>14, <1>15, <1>16,
     <1>17, <1>18
     DEF Next, PickStep

(* A reset that has gone through its tables has left no job under the name *)
(* of the server it was for, if that stayed down, in whatever batches and  *)
(* however the jobs are spread over the tables; or it failed, or raised    *)
(* its alarm                                                               *)
(* (workflowEngine.ts, resetLostJobs; workflowPicker.ts, resetLostJobs).   *)
THEOREM ResetsAreComplete == Spec => ResetIsComplete
<1>1. Init => Typed /\ Idle /\ Adopting /\ Resetting
  BY InitTyped, InitIdle, InitResetting
<1>2. Typed /\ Idle /\ Adopting /\ Resetting /\ [Next]_vars => (Typed /\ Idle /\ Adopting /\ Resetting)'
  BY StepTyped, StepIdle, StepAdopting, StepComplete DEF Typed
<1>3. Typed /\ Idle /\ Resetting /\ [Next]_vars => [Complete]_vars
  BY StepComplete
<1>4. Spec => [][Complete]_vars
  BY <1>1, <1>2, <1>3, PTL DEF Spec
<1>5. QED
  BY <1>4 DEF ResetIsComplete, Complete

=============================================================================
