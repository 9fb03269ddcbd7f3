----------------------------- MODULE BlobProofs -----------------------------
(* The layout of the blob, for any number of partitions, any sizes and any *)
(* width of an offset.                                                     *)
EXTENDS Blob, TLAPS

(* A word holds every remainder, and leaves what fits as it is.            *)
LEMMA Remainder ==
  ASSUME NEW x \in Int
  PROVE  x % WORD \in 0..WORD - 1 /\ (0 <= x /\ x < WORD => x % WORD = x)
BY LengthAssumption DEF LengthAssumption

LEMMA PartType ==
  ASSUME NEW q \in Part
  PROVE  q.offset \in Nat /\ q.size \in Nat
<1>1. q.offset \in 0..WORD - 1 /\ q.size \in 0..WORD - 1
  BY DEF Part
<1>2. \A x \in 0..WORD - 1 : x \in Nat
  BY LengthAssumption DEF LengthAssumption
<1> QED
  BY <1>1, <1>2

LEMMA NumPartsType ==
  ASSUME TypeOK
  PROVE  /\ argc \in Nat /\ argc >= 2
         /\ NumParts = Len(args) /\ NumParts \in Nat
         /\ DataStart \in Nat
<1>1. Len(args) \in Nat
  BY DEF TypeOK
<1>2. argc \in Nat /\ argc >= 2 /\ NumParts = Len(args)
  BY <1>1 DEF TypeOK, NumParts
<1>3. ENTRY * NumParts \in Nat
  BY <1>1, <1>2, LengthAssumption DEF LengthAssumption
<1> QED
  BY <1>1, <1>2, <1>3, LengthAssumption DEF LengthAssumption, DataStart

(* The history of the first pass is long enough to speak of each entry.    *)
LEMMA AfterType ==
  ASSUME TypeOK, PassInv, NEW n \in 0..Len(parts)
  PROVE  After(n) \in Int
<1>1. CASE n = 0
  BY <1>1, NumPartsType DEF After
<1>2. CASE n # 0
  <2>1. n \in DOMAIN parts /\ n \in DOMAIN fsize
    BY <1>2 DEF TypeOK, PassInv
  <2>2. parts[n] \in Part /\ fsize[n] \in Lengths \cup {-1}
    BY <2>1 DEF TypeOK
  <2>3. parts[n].offset \in Nat /\ fsize[n] \in Int
    <3>1. parts[n].offset \in Nat
      BY <2>2, PartType
    <3>2. CASE fsize[n] \in Lengths
      <4>1. fsize[n] \in Nat
        BY <3>2, LengthAssumption DEF LengthAssumption
      <4> QED
        BY <3>1, <4>1
    <3>3. CASE fsize[n] = -1
      BY <3>1, <3>3
    <3> QED
      BY <2>2, <3>2, <3>3
  <2> QED
    BY <1>2, <2>3 DEF After
<1> QED
  BY <1>1, <1>2

LEMMA InvInit == Init => BInv
<1> SUFFICES ASSUME Init PROVE BInv
  OBVIOUS
<1> USE LengthAssumption DEF LengthAssumption, Init
<1>1. PICK n \in 0..MaxParts : args \in [1..n -> Files]
  OBVIOUS
<1>2. args \in Seq(Files) /\ Len(args) = n
  BY <1>1
<1>3. disk \in [Files -> State]
  BY DEF State
<1>4. TypeOK
  <2>1. lost \in BOOLEAN
    BY Zenon
  <2> QED
    BY <1>2, <1>3, <2>1 DEF TypeOK
<1>5. PassInv
  BY <1>4, NumPartsType DEF PassInv
<1>6. TableInv /\ DataInv
  BY DEF TableInv, DataInv
<1> QED
  BY <1>4, <1>5, <1>6 DEF BInv

LEMMA Extended ==
  ASSUME NEW S, NEW s \in Seq(S), NEW e \in S
  PROVE  /\ Append(s, e) \in Seq(S)
         /\ Len(s) \in Nat /\ Len(Append(s, e)) = Len(s) + 1
         /\ DOMAIN s = 1..Len(s)
         /\ DOMAIN Append(s, e) = 1..Len(s) + 1
         /\ \A i \in 1..Len(s) : Append(s, e)[i] = s[i]
         /\ Append(s, e)[Len(s) + 1] = e
OBVIOUS

-----------------------------------------------------------------------------
(* A write leaves the blob as long as it says, or counts as lost.          *)
LEMMA PutType ==
  ASSUME TypeOK, NEW n \in Nat, Put(n)
  PROVE  /\ end' \in Nat /\ lost' \in BOOLEAN
         /\ lost => lost'
         /\ lost' \/ end' = end + n
<1>1. end \in Nat /\ lost \in BOOLEAN
  BY DEF TypeOK
<1>2. end' \in Nat
  BY <1>1, LengthAssumption DEF LengthAssumption, Put
<1>3. lost' = lost \/ lost' = TRUE
  BY DEF Put
<1>4. lost' \in BOOLEAN /\ (lost => lost')
  BY <1>1, <1>3, Zenon
<1>5. lost' \/ end' = end + n
  BY DEF Put
<1> QED
  BY <1>2, <1>4, <1>5

(* What the steps leave alone of the invariant.                            *)
LEMMA StopKeeps ==
  ASSUME BInv, NEW p \in {"exit_ok", "exit_usage", "crashed"}, Stop(p),
         p = "exit_usage" => pc = "args"
  PROVE  BInv'
BY DEF BInv, Stop, TypeOK, PassInv, TableInv, DataInv, input, table, outfile,
       found, NumParts, ArgsOK, After, Written, DataStart

LEMMA FileChangesKeeps ==
  ASSUME BInv, NEW f \in Files, FileChanges(f)
  PROVE  BInv'
<1> USE LengthAssumption
    DEF LengthAssumption, BInv, FileChanges, input, table, outfile, found
<1>1. PICK n \in Lengths \cup {Missing} :
        disk' = [disk EXCEPT ![f] = [length |-> n, version |-> @.version + 1]]
  OBVIOUS
<1>2. disk[f] \in State /\ disk[f].version \in Nat
  BY DEF TypeOK, State
<1>3. TypeOK'
  BY <1>1, <1>2 DEF TypeOK, State
<1>4. PassInv' /\ TableInv'
  BY DEF PassInv, TableInv, NumParts, ArgsOK, After, Written, DataStart
<1>5. DataInv'
  <2>1. ASSUME NEW i \in DOMAIN parts
        PROVE  /\ seen[i] <= disk'[args[i]].version
               /\ seen[i] = disk'[args[i]].version =>
                    fsize[i] \in {disk'[args[i]].length, -1}
    <3>1. i \in DOMAIN args /\ i \in DOMAIN seen
      <4>1. /\ DOMAIN parts = 1..Len(parts) /\ DOMAIN seen = 1..Len(seen)
            /\ DOMAIN args = 1..Len(args)
            /\ Len(parts) \in Nat
        BY DEF TypeOK
      <4>2. Len(seen) = Len(parts) /\ Len(parts) <= Len(args) /\ Len(args) \in Nat
        BY NumPartsType DEF PassInv
      <4> QED
        BY <4>1, <4>2
    <3>2. args[i] \in Files /\ seen[i] \in Nat
      BY <3>1 DEF TypeOK
    <3>3. seen[i] <= disk[args[i]].version
      BY DEF DataInv
    <3>4. CASE args[i] = f
      <4>1. disk'[args[i]].version = disk[f].version + 1
        BY <1>1, <3>4 DEF TypeOK
      <4> QED
        BY <1>2, <3>2, <3>3, <3>4, <4>1
    <3>5. CASE args[i] # f
      BY <1>1, <3>2, <3>5 DEF DataInv, TypeOK
    <3> QED
      BY <3>4, <3>5
  <2>2. \A i \in DOMAIN data : Written(i - 1)' = Written(i - 1)
    BY DEF Written, DataStart, NumParts
  <2> QED
    BY <2>1, <2>2 DEF DataInv
<1> QED
  BY <1>3, <1>4, <1>5

LEMMA WriteHeaderKeeps ==
  ASSUME BInv, WriteHeader
  PROVE  BInv'
<1> USE LengthAssumption
    DEF LengthAssumption, BInv, WriteHeader, input, found
<1>1. DataStart \in Nat /\ currentOffset' = DataStart % WORD
  BY NumPartsType DEF DataStart
<1>2. TypeOK'
  <2>1. end' \in Nat /\ lost' \in BOOLEAN
    BY PutType
  <2>2. currentOffset' \in 0..WORD - 1
    BY <1>1, Remainder
  <2> QED
    BY <2>1, <2>2 DEF TypeOK
<1>3. parts = <<>> /\ data = <<>> /\ Len(parts) = 0 /\ Len(data) = 0
  BY DEF PassInv
<1>4. PassInv'
  BY <1>3 DEF PassInv, NumParts, ArgsOK, Put
<1>5. TableInv'
  BY <1>1, <1>3 DEF TableInv, After, DataStart, NumParts
<1>6. DataInv'
  BY <1>3 DEF DataInv
<1> QED
  BY <1>2, <1>4, <1>5, <1>6

(* The first pass: the new entry begins where the file before it ends.     *)
LEMMA LayoutKeeps ==
  ASSUME BInv, Layout
  PROVE  BInv'
<1> USE LengthAssumption DEF LengthAssumption, BInv, input, found, outfile
<1>0. PICK k \in Nat : k = Len(parts)
  BY DEF TypeOK
<1> DEFINE f == File(k)
<1>a. PICK len \in Told(f) :
        /\ parts' = Append(parts, [offset |-> currentOffset, size |-> len % WORD])
        /\ currentOffset' = (currentOffset + len) % WORD
        /\ fsize' = Append(fsize, len)
  BY <1>0 DEF Layout
<1> DEFINE p == [offset |-> currentOffset, size |-> len % WORD]
<1>1. /\ pc = "layout" /\ pc' = pc /\ k < NumParts /\ disk[f].length # Missing
      /\ parts' = Append(parts, p)
      /\ currentOffset' = (currentOffset + len) % WORD
      /\ fsize' = Append(fsize, len)
      /\ seen' = Append(seen, disk[f].version)
      /\ UNCHANGED <<argc, args, disk, end, lost, data>>
  BY <1>0, <1>a DEF Layout
<1>2. k = Len(parts) /\ Len(fsize) = k /\ Len(seen) = k /\ k + 1 \in DOMAIN args
  BY <1>0, <1>1, NumPartsType DEF TypeOK, PassInv
<1>3. f \in Files /\ f = args[k + 1]
  BY <1>2 DEF TypeOK, File
<1>4. disk[f] \in State /\ len \in Lengths \cup {-1} /\ len \in Int
  BY <1>1, <1>3 DEF TypeOK, State, Told
<1>5. p \in Part /\ currentOffset \in Nat /\ (currentOffset + len) % WORD \in 0..WORD - 1
  <2>1. currentOffset \in 0..WORD - 1 /\ currentOffset \in Nat
    BY DEF TypeOK
  <2>2. len % WORD \in 0..WORD - 1
    BY <1>4, Remainder
  <2>3. currentOffset + len \in Int
    BY <1>4, <2>1
  <2> QED
    BY <2>1, <2>2, <2>3, Remainder DEF Part
<1>6. /\ parts' \in Seq(Part) /\ Len(parts') = k + 1
      /\ DOMAIN parts = 1..k /\ DOMAIN parts' = 1..k + 1
      /\ \A i \in 1..k : parts'[i] = parts[i]
      /\ parts'[k + 1] = p
  BY <1>0, <1>1, <1>5, Extended DEF TypeOK
<1>7. /\ fsize' \in Seq(Lengths \cup {-1}) /\ Len(fsize') = k + 1
      /\ \A i \in 1..k : fsize'[i] = fsize[i]
      /\ fsize'[k + 1] = len
  BY <1>1, <1>2, <1>4, Extended DEF TypeOK
<1>8. /\ seen' \in Seq(0..MaxVersion) /\ Len(seen') = k + 1
      /\ \A i \in 1..k : seen'[i] = seen[i]
      /\ seen'[k + 1] = disk[f].version
  <2>1. disk[f].version \in 0..MaxVersion
    BY <1>4 DEF State
  <2> QED
    BY <1>1, <1>2, <2>1, Extended DEF TypeOK
<1> HIDE DEF f, p
<1>9. TypeOK'
  BY <1>1, <1>5, <1>6, <1>7, <1>8 DEF TypeOK
<1>10. data = <<>> /\ (lost \/ end = HEADER) /\ ArgsOK /\ parts' # <<>>
  BY <1>1, <1>2, <1>6 DEF PassInv
<1>11. PassInv'
  BY <1>1, <1>2, <1>6, <1>7, <1>8, <1>10, NumPartsType DEF PassInv, NumParts, ArgsOK
<1>12. TableInv'
  <2>1. \A n \in 0..k : After(n)' = After(n)
    BY <1>1, <1>2, <1>6, <1>7 DEF After, DataStart, NumParts
  <2>2. currentOffset = After(k) % WORD
    BY <1>0, <1>1 DEF TableInv
  <2>3. After(k + 1)' = currentOffset + len
    <3>1. After(k + 1)' = parts'[k + 1].offset + fsize'[k + 1]
      BY <1>2 DEF After
    <3> QED
      BY <1>6, <1>7, <3>1 DEF p
  <2>4. ASSUME NEW i \in 1..k + 1
        PROVE  /\ parts'[i].offset = After(i - 1)' % WORD
               /\ parts'[i].size = fsize'[i] % WORD
    <3>1. CASE i \in 1..k
      <4>1. i - 1 \in 0..k
        BY <1>2, <3>1
      <4> QED
        BY <1>6, <1>7, <2>1, <3>1, <4>1 DEF TableInv
    <3>2. CASE i = k + 1
      <4>1. i - 1 = k /\ k \in 0..k
        BY <1>2, <3>2
      <4> QED
        BY <1>6, <1>7, <2>1, <2>2, <3>2, <4>1 DEF p
    <3> QED
      BY <1>2, <3>1, <3>2
  <2> QED
    BY <1>1, <1>6, <2>3, <2>4 DEF TableInv
<1>13. DataInv'
  <2>1. ASSUME NEW i \in 1..k + 1
        PROVE  /\ seen'[i] <= disk[args[i]].version
               /\ seen'[i] = disk[args[i]].version =>
                    fsize'[i] \in {disk[args[i]].length, -1}
    <3>1. CASE i \in 1..k
      BY <1>6, <1>7, <1>8, <3>1 DEF DataInv
    <3>2. CASE i = k + 1
      BY <1>3, <1>4, <1>7, <1>8, <3>2 DEF Told, State
    <3> QED
      BY <1>2, <3>1, <3>2
  <2>2. DOMAIN data' = {} /\ disk' = disk /\ args' = args
    BY <1>1, <1>10
  <2> QED
    BY <1>6, <2>1, <2>2 DEF DataInv
<1> QED
  BY <1>9, <1>11, <1>12, <1>13

LEMMA WriteTableKeeps ==
  ASSUME BInv, WriteTable
  PROVE  BInv'
<1> USE LengthAssumption
    DEF LengthAssumption, BInv, WriteTable, input, table, found
<1>1. /\ data = <<>> /\ Len(data) = 0 /\ DataStart \in Nat
      /\ ENTRY * NumParts \in Nat
  BY NumPartsType DEF PassInv
<1>2. end' \in Nat /\ lost' \in BOOLEAN /\ (lost' \/ end' = DataStart)
  BY <1>1, PutType DEF PassInv, DataStart
<1>3. TypeOK'
  BY <1>2 DEF TypeOK
<1>4. PassInv'
  BY <1>1, <1>2 DEF PassInv, NumParts, ArgsOK, Written, DataStart
<1>5. TableInv'
  BY DEF TableInv, After, DataStart, NumParts
<1>6. DataInv'
  BY <1>1 DEF DataInv
<1> QED
  BY <1>3, <1>4, <1>5, <1>6

(* What the program leaves behind when it closes the blob.                 *)
LEMMA CloseKeeps ==
  ASSUME BInv, Close, pc \in {"layout", "copy"}
  PROVE  BInv'
<1> USE LengthAssumption
    DEF LengthAssumption, BInv, Close, input, table, found
<1>1. TypeOK'
  BY DEF TypeOK
<1>2. PassInv'
  BY DEF PassInv, NumParts, ArgsOK, Written, DataStart
<1>3. TableInv'
  BY DEF TableInv, After, DataStart, NumParts
<1>4. DataInv'
  BY DEF DataInv, Written, DataStart, NumParts
<1> QED
  BY <1>1, <1>2, <1>3, <1>4

(* The second pass: the data of a partition begins where that of the one   *)
(* before it ends, however much of it was read.                            *)
LEMMA CopyKeeps ==
  ASSUME BInv, Copy
  PROVE  BInv'
<1> USE LengthAssumption DEF LengthAssumption, BInv, input, table, found
<1>0. PICK n \in Nat : n = Len(data)
  BY DEF TypeOK
<1> DEFINE f == File(n)
           d == [at |-> end, moved |-> lost, version |-> disk[f].version,
                 read |-> Least(parts[n + 1].size, disk[f].length)]
<1>1. /\ pc = "copy" /\ n < NumParts /\ disk[f].length # Missing
      /\ data' = Append(data, d)
      /\ Put(parts[n + 1].size)
      /\ UNCHANGED <<pc, argc, args, disk, parts, currentOffset, fsize, seen>>
  BY <1>0 DEF Copy
<1>2. /\ n = Len(data) /\ Len(parts) = NumParts /\ n + 1 \in DOMAIN args
      /\ n + 1 \in DOMAIN parts
  BY <1>0, <1>1, NumPartsType DEF TypeOK, PassInv
<1>3. f \in Files /\ f = args[n + 1]
  BY <1>2 DEF TypeOK, File
<1>4. parts[n + 1] \in Part /\ parts[n + 1].size \in Nat
  BY <1>2, PartType DEF TypeOK
<1>5. disk[f] \in State /\ disk[f].length \in Nat
  BY <1>1, <1>3 DEF TypeOK, State
<1>6. d \in Datum
  <2>1. Least(parts[n + 1].size, disk[f].length) \in Nat
    BY <1>4, <1>5 DEF Least
  <2> QED
    BY <1>5, <2>1 DEF TypeOK, State, Datum
<1>7. /\ data' \in Seq(Datum)
      /\ Len(data') = n + 1
      /\ DOMAIN data = 1..n /\ DOMAIN data' = 1..n + 1
      /\ \A i \in 1..n : data'[i] = data[i]
      /\ data'[n + 1] = d
  BY <1>0, <1>1, <1>6, Extended DEF TypeOK
<1>8. TypeOK'
  <2>1. end' \in Nat /\ lost' \in BOOLEAN
    BY <1>1, <1>4, PutType
  <2> QED
    BY <1>1, <1>7, <2>1 DEF TypeOK
<1>9. /\ lost \/ end = Written(n)
      /\ lost => lost'
      /\ lost' \/ end' = end + parts[n + 1].size
  BY <1>0, <1>1, <1>4, PutType DEF PassInv
<1> HIDE DEF f, d
<1>10. lost' \/ end' = Written(n + 1)'
  <2>1. Written(n + 1)' = data'[n + 1].at + parts'[n + 1].size
    BY <1>2 DEF Written
  <2> QED
    BY <1>1, <1>7, <1>9, <2>1 DEF d
<1>11. PassInv'
  BY <1>1, <1>2, <1>7, <1>10, NumPartsType DEF PassInv, NumParts, ArgsOK
<1>12. TableInv'
  BY <1>1 DEF TableInv, After, DataStart, NumParts
<1>13. DataInv'
  <2>1. \A m \in 0..n : Written(m)' = Written(m)
    BY <1>1, <1>2, <1>7 DEF Written, DataStart, NumParts
  <2>2. ASSUME NEW i \in 1..n + 1
        PROVE  /\ data'[i].moved => lost'
               /\ ~data'[i].moved => data'[i].at = Written(i - 1)'
               /\ seen[i] = data'[i].version /\ fsize[i] # -1 =>
                    data'[i].read = Least(parts[i].size, fsize[i])
    <3>1. CASE i \in 1..n
      <4>1. i - 1 \in 0..n
        BY <1>2, <3>1
      <4> QED
        BY <1>7, <1>9, <2>1, <3>1, <4>1 DEF DataInv
    <3>2. CASE i = n + 1
      <4>1. i - 1 = n /\ n \in 0..n
        BY <1>2, <3>2
      <4>2. seen[i] = disk[f].version => fsize[i] \in {disk[f].length, -1}
        BY <1>2, <1>3, <3>2 DEF DataInv
      <4> QED
        BY <1>7, <1>9, <2>1, <3>2, <4>1, <4>2 DEF d
    <3> QED
      BY <1>2, <3>1, <3>2
  <2> QED
    BY <1>1, <1>7, <2>2 DEF DataInv
<1> QED
  BY <1>8, <1>11, <1>12, <1>13

-----------------------------------------------------------------------------
(* The loops keep table, data and file position in step.                   *)
THEOREM PassInvariance == Spec => []BInv
<1>1. BInv /\ [Next]_vars => BInv'
  <2> SUFFICES ASSUME BInv, [Next]_vars PROVE BInv'
    OBVIOUS
  <2>1. CASE Usage
    BY <2>1, StopKeeps DEF Usage
  <2>2. CASE NoOutfile \/ CopyCrashes
    BY <2>2, StopKeeps DEF NoOutfile, CopyCrashes
  <2>6. CASE LayoutMissing \/ Finish
    BY <2>6, CloseKeeps DEF LayoutMissing, Finish
  <2>3. CASE WriteHeader \/ Layout \/ WriteTable \/ Copy
    BY <2>3, WriteHeaderKeeps, LayoutKeeps, WriteTableKeeps, CopyKeeps
  <2>4. ASSUME NEW f \in Files, FileChanges(f) PROVE BInv'
    BY <2>4, FileChangesKeeps
  <2>5. CASE UNCHANGED vars
    BY <2>5 DEF vars, input, table, outfile, found, BInv, TypeOK, PassInv,
       TableInv, DataInv, NumParts, ArgsOK, After, Written, DataStart
  <2> QED
    BY <2>1, <2>2, <2>3, <2>4, <2>5, <2>6 DEF Next
<1> QED
  BY <1>1, InvInit, PTL DEF Spec

(* Sizes and offsets that fit are what the first pass found.               *)
LEMMA FittingTable ==
  ASSUME BInv, NEW m \in 0..Len(parts), Fits(m)
  PROVE  /\ DataStart \in Nat /\ DataStart < WORD
         /\ \A i \in 1..m : /\ parts[i].offset \in Nat /\ fsize[i] \in Nat
                           /\ parts[i].offset + fsize[i] < WORD
                           /\ parts[i].size = fsize[i]
<1> USE DEF BInv
<1>1. DataStart \in Nat /\ DataStart < WORD
  BY NumPartsType DEF Fits
<1>2. ASSUME NEW i \in 1..m
      PROVE  /\ parts[i].offset \in Nat /\ fsize[i] \in Nat
             /\ parts[i].offset + fsize[i] < WORD
             /\ parts[i].size = fsize[i]
  <2>1. i \in DOMAIN parts /\ i \in DOMAIN fsize
    BY DEF TypeOK, PassInv
  <2>2. parts[i] \in Part /\ fsize[i] \in Lengths \cup {-1}
    BY <2>1 DEF TypeOK
  <2>3. fsize[i] # -1 /\ parts[i].offset + fsize[i] < WORD
    BY DEF Fits
  <2>4. parts[i].offset \in Nat
    BY <2>2, PartType
  <2>5. fsize[i] \in Nat
    BY <2>2, <2>3, LengthAssumption DEF LengthAssumption
  <2>6. parts[i].size = fsize[i] % WORD
    BY <2>1 DEF TableInv
  <2>7. fsize[i] < WORD
    BY <2>3, <2>4, <2>5, LengthAssumption DEF LengthAssumption
  <2>8. fsize[i] % WORD = fsize[i]
    <3>1. fsize[i] \in Int /\ 0 <= fsize[i]
      BY <2>5
    <3> QED
      BY <2>7, <3>1, Remainder
  <2> QED
    BY <2>3, <2>4, <2>5, <2>6, <2>8
<1> QED
  BY <1>1, <1>2

(* Up to there each entry begins where the one before it ends.             *)
LEMMA NextOffset ==
  ASSUME BInv, NEW n \in Nat, n < Len(parts), Fits(n)
  PROVE  parts[n + 1].offset = After(n)
<1>1. n \in 0..Len(parts) /\ n + 1 \in DOMAIN parts
  BY DEF BInv, TypeOK
<1>2. After(n) \in Nat /\ After(n) < WORD
  BY <1>1, FittingTable DEF After
<1>3. parts[n + 1].offset = After(n + 1 - 1) % WORD /\ n + 1 - 1 = n
  BY <1>1 DEF BInv, TableInv
<1> QED
  BY <1>2, <1>3, Remainder

(* The two lemmas as properties of a state.                                *)
TableFits ==
  \A m \in 0..Len(parts) :
    Fits(m) => /\ DataStart \in Nat
               /\ \A i \in 1..m : /\ parts[i].offset \in Nat /\ fsize[i] \in Nat
                                 /\ parts[i].size = fsize[i]
               /\ m < Len(parts) => parts[m + 1].offset = After(m)

LEMMA TableFitsInv == BInv => TableFits
<1> SUFFICES ASSUME BInv, NEW m \in 0..Len(parts), Fits(m)
             PROVE  /\ DataStart \in Nat
                    /\ \A i \in 1..m : /\ parts[i].offset \in Nat /\ fsize[i] \in Nat
                                      /\ parts[i].size = fsize[i]
                    /\ m < Len(parts) => parts[m + 1].offset = After(m)
  BY DEF TableFits
<1>1. m \in Nat
  OBVIOUS
<1> QED
  BY <1>1, FittingTable, NextOffset

(* The data of the next partition goes where its entry points, as long as  *)
(* that of the one before it did and no write fell short.                  *)
LEMMA NextEntry ==
  ASSUME BInv, EntryPointsAtFile, pc = "copy", ~lost,
         NEW n \in Nat, n = Len(data), n < NumParts, Fits(n)
  PROVE  end = parts[n + 1].offset
<1>1. /\ DOMAIN data = 1..n /\ Len(parts) = NumParts /\ n \in 0..Len(parts)
  BY NumPartsType DEF BInv, TypeOK, PassInv
<1>2. end = Written(n)
  BY DEF BInv, PassInv
<1>3. Written(n) = After(n)
  <2>1. CASE n = 0
    BY <2>1 DEF Written, After
  <2>2. CASE n # 0
    <3>1. n \in DOMAIN data /\ ~data[n].moved
      BY <1>1, <2>2 DEF BInv, DataInv
    <3>2. data[n].at = parts[n].offset
      BY <3>1 DEF EntryPointsAtFile
    <3>3. parts[n].size = fsize[n]
      BY <1>1, <2>2, FittingTable
    <3> QED
      BY <2>2, <3>2, <3>3 DEF Written, After
  <2> QED
    BY <2>1, <2>2
<1>4. parts[n + 1].offset = After(n)
  BY <1>1, NextOffset
<1> QED
  BY <1>2, <1>3, <1>4

(* A file that changes between the two passes damages its own partition    *)
(* and no other: every entry points at the data of its own file, up to a   *)
(* write that falls short.                                                 *)
THEOREM EntriesPoint == Spec => []EntryPointsAtFile
<1>1. Init => EntryPointsAtFile
  BY DEF Init, EntryPointsAtFile
<1>2. BInv /\ EntryPointsAtFile /\ [Next]_vars => EntryPointsAtFile'
  <2> SUFFICES ASSUME BInv, EntryPointsAtFile, [Next]_vars
               PROVE EntryPointsAtFile'
    OBVIOUS
  <2>1. CASE data = <<>> /\ data' = <<>>
    BY <2>1 DEF EntryPointsAtFile
  <2>2. CASE UNCHANGED <<argc, table, data>>
    BY <2>2 DEF EntryPointsAtFile, Fits, DataStart, NumParts, table, found
  <2>3. CASE Copy
    <3>0. PICK n \in Nat : n = Len(data)
      BY DEF BInv, TypeOK
    <3> DEFINE d == [at |-> end, moved |-> lost, version |-> disk[File(n)].version,
                     read |-> Least(parts[n + 1].size, disk[File(n)].length)]
    <3>1. /\ pc = "copy" /\ n < NumParts
          /\ data' = Append(data, d)
          /\ UNCHANGED <<argc, parts, fsize, seen>>
      BY <2>3, <3>0 DEF Copy, input, table, found
    <3>2. \A i \in 1..n + 1 : Fits(i)' <=> Fits(i)
      BY <3>1 DEF Fits, DataStart, NumParts
    <3>3. /\ DOMAIN data = 1..n /\ DOMAIN data' = 1..n + 1
          /\ \A i \in 1..n : data'[i] = data[i]
          /\ data'[n + 1] = d
      BY <3>0, <3>1 DEF BInv, TypeOK
    <3>4. seen[n + 1] = d.version /\ fsize[n + 1] # -1 =>
            d.read = Least(parts[n + 1].size, fsize[n + 1])
      <4>1. BInv'
        BY <2>3, CopyKeeps
      <4>2. n + 1 \in DOMAIN data'
        BY <3>3
      <4> QED
        BY <3>1, <3>3, <4>1, <4>2 DEF BInv, DataInv
    <3>5. ASSUME NEW i \in 1..n + 1, Fits(i)
          PROVE  /\ data'[i].moved \/ data'[i].at = parts[i].offset
                 /\ seen[i] = data'[i].version =>
                      data'[i].read = fsize[i] /\ parts[i].size = fsize[i]
      <4>1. CASE i \in 1..n
        BY <3>3, <3>5, <4>1 DEF EntryPointsAtFile
      <4>2. CASE i = n + 1
        <5>1. n + 1 \in 0..Len(parts) /\ Fits(n + 1) /\ n + 1 \in 1..n + 1
          BY <3>0, <3>1, <3>5, <4>2, NumPartsType DEF BInv, PassInv
        <5>2. parts[n + 1].size = fsize[n + 1] /\ fsize[n + 1] \in Nat
          BY <5>1, FittingTable
        <5>3. Fits(n)
          BY <5>1 DEF Fits
        <5>4. d.moved \/ d.at = parts[n + 1].offset
          BY <3>0, <3>1, <5>3, NextEntry
        <5>5. Least(parts[n + 1].size, fsize[n + 1]) = fsize[n + 1]
          BY <5>2 DEF Least
        <5>6. fsize[n + 1] # -1
          BY <5>2
        <5> HIDE DEF d
        <5> QED
          BY <3>3, <3>4, <4>2, <5>2, <5>4, <5>5, <5>6
      <4> QED
        BY <4>1, <4>2
    <3> QED
      BY <3>1, <3>2, <3>3, <3>5 DEF EntryPointsAtFile
  <2>4. CASE Usage \/ NoOutfile \/ LayoutMissing \/ CopyCrashes \/ Finish
    <3>1. UNCHANGED <<argc, table, data>>
      BY <2>4 DEF Usage, NoOutfile, LayoutMissing, CopyCrashes, Finish, Stop,
                  Close, input, outfile
    <3> QED
      BY <2>2, <3>1
  <2>5. CASE WriteHeader \/ Layout \/ WriteTable
    <3>1. data = <<>> /\ data' = <<>>
      BY <2>5 DEF WriteHeader, Layout, WriteTable, BInv, PassInv, outfile
    <3> QED
      BY <2>1, <3>1
  <2>6. CASE UNCHANGED vars \/ \E f \in Files : FileChanges(f)
    <3>1. UNCHANGED <<argc, table, data>>
      BY <2>6 DEF vars, FileChanges, input, outfile
    <3> QED
      BY <2>2, <3>1
  <2> QED
    BY <2>3, <2>4, <2>5, <2>6 DEF Next
<1> QED
  BY <1>1, <1>2, PassInvariance, PTL DEF Spec

-----------------------------------------------------------------------------
(* Partitions do not overlap.  The table is extended entry by entry, so    *)
(* what holds of any two entries is kept with what bounds them all: the    *)
(* offset of the entry to come.                                            *)
FitsAll == Fits(Len(parts))

EntriesBelow ==
  FitsAll =>
    \A i \in DOMAIN parts :
      /\ DataStart <= parts[i].offset
      /\ parts[i].offset + fsize[i] <= After(Len(parts))

OrderInv == BInv /\ EntriesInOrder /\ EntriesBelow

LEMMA LayoutKeepsOrder ==
  ASSUME OrderInv, Layout
  PROVE  EntriesInOrder' /\ EntriesBelow'
<1> USE DEF OrderInv
<1>0. PICK k \in Nat : k = Len(parts)
  BY DEF BInv, TypeOK
<1> DEFINE f == File(k)
<1>1. PICK len \in Told(f) :
        /\ parts' = Append(parts, [offset |-> currentOffset, size |-> len % WORD])
        /\ fsize' = Append(fsize, len)
  BY <1>0 DEF Layout
<1>2. /\ DOMAIN parts = 1..k /\ DOMAIN parts' = 1..k + 1 /\ Len(parts') = k + 1
      /\ Len(fsize) = k
      /\ \A i \in 1..k : parts'[i] = parts[i] /\ fsize'[i] = fsize[i]
  BY <1>0, <1>1 DEF BInv, TypeOK, PassInv
<1>3. BInv' /\ DataStart' = DataStart
  BY LayoutKeeps DEF Layout, DataStart, NumParts, input
<1>4. \A i \in 1..k : Fits(i)' <=> Fits(i)
  BY <1>2, <1>3 DEF Fits
<1>5. ASSUME Fits(k + 1)'
      PROVE  /\ \A i \in 1..k + 1 : /\ parts'[i].offset \in Nat /\ fsize'[i] \in Nat
                                    /\ parts'[i].size = fsize'[i]
             /\ DataStart \in Nat /\ DataStart <= parts'[k + 1].offset
             /\ \A i \in 1..k : /\ DataStart <= parts'[i].offset
                               /\ parts'[i].offset + fsize'[i] <= parts'[k + 1].offset
  <2>a. TableFits'
    BY <1>3, TableFitsInv, PTL
  <2>1. k + 1 \in 0..Len(parts') /\ k \in 0..Len(parts') /\ k < Len(parts')
    BY <1>2
  <2>2. /\ DataStart' \in Nat
        /\ \A i \in 1..k + 1 : /\ parts'[i].offset \in Nat /\ fsize'[i] \in Nat
                              /\ parts'[i].size = fsize'[i]
    BY <1>5, <2>1, <2>a DEF TableFits
  <2>3. Fits(k)' /\ Fits(k)
    BY <1>2, <1>3, <1>5 DEF Fits
  <2>4. parts'[k + 1].offset = After(k)'
    BY <2>1, <2>3, <2>a DEF TableFits
  <2>5. After(k)' = After(k)
    BY <1>2, <1>3 DEF After
  <2>6. \A i \in 1..k : /\ DataStart <= parts[i].offset
                       /\ parts[i].offset + fsize[i] <= After(k)
    BY <1>0, <1>2, <2>3 DEF EntriesBelow, FitsAll
  <2>7. DataStart <= After(k)
    <3>1. CASE k = 0
      BY <1>3, <2>2, <3>1 DEF After
    <3>2. CASE k # 0
      <4>1. k \in 1..k /\ k \in 1..k + 1 /\ After(k) = parts[k].offset + fsize[k]
        BY <3>2 DEF After
      <4>2. parts[k].offset \in Nat /\ fsize[k] \in Nat
        BY <1>2, <2>2, <4>1
      <4> QED
        BY <1>3, <2>2, <2>6, <4>1, <4>2
    <3> QED
      BY <3>1, <3>2
  <2> QED
    BY <1>2, <1>3, <2>2, <2>4, <2>5, <2>6, <2>7
<1>6. EntriesInOrder'
  <2> SUFFICES ASSUME NEW i \in 1..k + 1, NEW j \in 1..k + 1, i < j, Fits(j)'
               PROVE  /\ DataStart <= parts'[i].offset
                      /\ parts'[i].offset + parts'[i].size <= parts'[j].offset
    BY <1>2, <1>3 DEF EntriesInOrder
  <2>1. CASE j \in 1..k
    BY <1>2, <1>4, <2>1 DEF EntriesInOrder
  <2>2. CASE j = k + 1
    BY <1>5, <2>2
  <2> QED
    BY <2>1, <2>2
<1>7. EntriesBelow'
  <2> SUFFICES ASSUME Fits(k + 1)', NEW i \in 1..k + 1
               PROVE  /\ DataStart <= parts'[i].offset
                      /\ parts'[i].offset + fsize'[i] <=
                           parts'[k + 1].offset + fsize'[k + 1]
    BY <1>2, <1>3 DEF EntriesBelow, FitsAll, After
  <2>1. parts'[k + 1].offset \in Nat /\ fsize'[k + 1] \in Nat
    BY <1>5
  <2>2. CASE i \in 1..k
    BY <1>5, <2>1, <2>2
  <2>3. CASE i = k + 1
    BY <1>5, <2>1, <2>3
  <2> QED
    BY <2>2, <2>3
<1> QED
  BY <1>6, <1>7

(* No entry of a table whose offsets and sizes fit reaches into the table  *)
(* or into the partition of another entry, whatever the files are and do   *)
(* (86-105).                                                               *)
THEOREM EntriesApart == Spec => []EntriesInOrder
<1>1. Init => OrderInv
  BY InvInit DEF Init, OrderInv, EntriesInOrder, EntriesBelow
<1>2. BInv' /\ OrderInv /\ [Next]_vars => OrderInv'
  <2> SUFFICES ASSUME BInv', OrderInv, [Next]_vars
               PROVE  EntriesInOrder' /\ EntriesBelow'
    BY DEF OrderInv
  <2>1. CASE Layout
    BY <2>1, LayoutKeepsOrder
  <2>2. CASE UNCHANGED <<argc, parts, fsize>>
    BY <2>2 DEF OrderInv, EntriesInOrder, EntriesBelow, FitsAll, Fits, After,
                DataStart, NumParts
  <2> QED
    BY <2>1, <2>2
       DEF Next, vars, Usage, NoOutfile, WriteHeader, LayoutMissing, WriteTable,
           Copy, CopyCrashes, Finish, FileChanges, Stop, Close, input, table, found
<1>3. OrderInv => EntriesInOrder
  BY DEF OrderInv
<1> QED
  BY <1>1, <1>2, <1>3, PassInvariance, PTL DEF Spec
=============================================================================
