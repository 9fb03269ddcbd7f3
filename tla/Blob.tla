-------------------------------- MODULE Blob --------------------------------
(***************************************************************************)
(* The blob packer (src/blobpack/blobpack.cpp): main lays out a header, a  *)
(* table of partitions and their data.  It goes over the files twice: the  *)
(* first pass asks each for its size and fills the table, the second reads *)
(* and writes them.  Other processes may change or remove a file at any    *)
(* moment, and any write to the blob may fall short: main checks neither   *)
(* fwrite nor ftell nor fclose.                                            *)
(*                                                                         *)
(* Bytes are not in the model: data[i] says where in the blob the data of  *)
(* partition i begins, whether a write before it fell short, and how many  *)
(* of its bytes came from which version of the file; the rest of them is   *)
(* what malloc left in the buffer.                                         *)
(***************************************************************************)
EXTENDS Integers, Sequences

CONSTANTS
  Files,         \* names of partition files
  Lengths,       \* lengths a file may have
  Missing,       \* the length of a file that cannot be opened
  HEADER, ENTRY, \* sizeof (header_type), sizeof (part_type)
  WORD,          \* 2^32: an unsigned int, and an int converted to one
  Faults,        \* whether calls of the C library fail
  Shorts,        \* bytes that get out of a write that falls short
  MaxParts,      \* bound on the partitions given
  MaxVersion     \* bound on the changes of a file

ASSUME LengthAssumption ==
  /\ Lengths \subseteq Nat /\ Missing \notin Nat
  /\ HEADER \in Nat /\ ENTRY \in Nat /\ WORD \in Nat \ {0}
  /\ Shorts \subseteq Nat
  /\ MaxParts \in Nat /\ MaxVersion \in Nat
ASSUME FaultsAssumption == Faults \in BOOLEAN

VARIABLES
  pc,            \* args, layout, copy; exit_ok (0), exit_usage (-1), crashed
  argc,          \* number of arguments, the program included
  args,          \* the partition files among them
  disk,          \* length and version of each file
  parts,         \* part_type: offset and size
  currentOffset,
  fsize, seen,   \* history: what the first pass found of each file
  end,           \* bytes in outfile
  lost,          \* history: whether a write fell short
  data           \* history: what the second pass wrote of each file

input == <<argc, args>>
found == <<fsize, seen>>
table == <<parts, currentOffset, found>>
outfile == <<end, lost, data>>
vars == <<pc, input, disk, table, outfile>>

NumParts == (argc - 2) \div 2

State == [length : Lengths \cup {Missing}, version : 0..MaxVersion]

Init ==
  /\ pc = "args"
  /\ \E n \in 0..MaxParts : args \in [1..n -> Files]
  /\ argc \in {2 + 2 * Len(args), 3 + 2 * Len(args)}
  /\ disk \in [Files -> [length : Lengths \cup {Missing}, version : {0}]]
  /\ parts = <<>> /\ currentOffset = 0
  /\ fsize = <<>> /\ seen = <<>>
  /\ end = 0 /\ lost = FALSE /\ data = <<>>

(* Another process writes the file, or removes it.                         *)
FileChanges(f) ==
  /\ disk[f].version < MaxVersion
  /\ \E n \in Lengths \cup {Missing} :
       disk' = [disk EXCEPT ![f] = [length |-> n, version |-> @.version + 1]]
  /\ UNCHANGED <<pc, input, table, outfile>>

Stop(p) == pc' = p /\ UNCHANGED <<input, disk, table, outfile>>

(* At least one pair of name and file, and nothing besides pairs.          *)
ArgsOK == argc >= 4 /\ (argc - 2) % 2 = 0

Usage == pc = "args" /\ ~ArgsOK /\ Stop("exit_usage")

(* fopen of the blob is not checked: its NULL is written to.               *)
NoOutfile == Faults /\ pc = "args" /\ ArgsOK /\ Stop("crashed")

(* A write of n bytes to the blob: the rest goes on behind what of them    *)
(* got there.                                                              *)
Put(n) ==
  \/ end' = end + n /\ UNCHANGED lost
  \/ /\ Faults /\ lost' = TRUE
     /\ \E k \in Shorts : k < n /\ end' = end + k

WriteHeader ==
  /\ pc = "args" /\ ArgsOK
  /\ Put(HEADER)
  /\ currentOffset' = (HEADER + ENTRY * NumParts) % WORD
  /\ pc' = "layout"
  /\ UNCHANGED <<input, disk, parts, found, data>>

(* The next partition of a pass whose first n are done.                    *)
File(n) == args[n + 1]

(* What ftell may say of a file.                                           *)
Told(f) == {disk[f].length} \cup (IF Faults THEN {-1} ELSE {})

MutantLayout ==                      \* the offset of the one before
  LET f == File(Len(parts)) IN
  /\ pc = "layout" /\ Len(parts) < NumParts
  /\ disk[f].length # Missing
  /\ \E n \in Told(f) :
       /\ parts' = Append(parts, [offset |-> currentOffset, size |-> n % WORD])
       /\ currentOffset' = IF parts = <<>> THEN currentOffset ELSE
            (currentOffset + fsize[Len(parts)]) % WORD
       /\ fsize' = Append(fsize, n)
  /\ seen' = Append(seen, disk[f].version)
  /\ UNCHANGED <<pc, input, disk, outfile>>

(* The first pass over a file.  A size of -1 is taken like any other.      *)
Layout ==
  LET f == File(Len(parts)) IN
  /\ pc = "layout" /\ Len(parts) < NumParts
  /\ disk[f].length # Missing
  /\ \E n \in Told(f) :
       /\ parts' = Append(parts, [offset |-> currentOffset, size |-> n % WORD])
       /\ currentOffset' = (currentOffset + n) % WORD
       /\ fsize' = Append(fsize, n)
  /\ seen' = Append(seen, disk[f].version)
  /\ UNCHANGED <<pc, input, disk, outfile>>

(* The blob is closed, by fclose or by the exit of the program: stdio may  *)
(* not get out the last of what it holds.  The status is 0.                *)
Close ==
  /\ pc' = "exit_ok"
  /\ \/ UNCHANGED <<end, lost>>
     \/ /\ Faults /\ lost' = TRUE
        /\ \E k \in Shorts : k < end /\ end' = k
  /\ UNCHANGED <<input, disk, table, data>>

(* A file that does not open ends the program, with 0 and a blob that is   *)
(* its header.                                                             *)
LayoutMissing ==
  /\ pc = "layout" /\ Len(parts) < NumParts
  /\ disk[File(Len(parts))].length = Missing
  /\ Close

WriteTable ==
  /\ pc = "layout" /\ Len(parts) = NumParts
  /\ Put(ENTRY * NumParts)
  /\ pc' = "copy"
  /\ UNCHANGED <<input, disk, table, data>>

Least(m, n) == IF m < n THEN m ELSE n

MutantCopy ==                        \* writes what fread returned
  LET n == Len(data) f == File(n) IN
  /\ pc = "copy" /\ n < NumParts
  /\ disk[f].length # Missing
  /\ data' = Append(data, [at |-> end, moved |-> lost, version |-> disk[f].version,
                           read |-> Least(parts[n + 1].size, disk[f].length)])
  /\ Put(Least(parts[n + 1].size, disk[f].length))
  /\ UNCHANGED <<pc, input, disk, table>>

(* The second pass: the recorded size is read and written, whatever fread  *)
(* returned.                                                               *)
Copy ==
  LET n == Len(data) f == File(n) IN
  /\ pc = "copy" /\ n < NumParts
  /\ disk[f].length # Missing
  /\ data' = Append(data, [at |-> end, moved |-> lost, version |-> disk[f].version,
                           read |-> Least(parts[n + 1].size, disk[f].length)])
  /\ Put(parts[n + 1].size)
  /\ UNCHANGED <<pc, input, disk, table>>

(* Neither the second fopen nor malloc is checked.                         *)
CopyCrashes ==
  LET n == Len(data) IN
  /\ pc = "copy" /\ n < NumParts
  /\ disk[File(n)].length = Missing \/ (Faults /\ parts[n + 1].size > 0)
  /\ Stop("crashed")

Finish ==
  /\ pc = "copy" /\ Len(data) = NumParts
  /\ Close

Next ==
  \/ Usage \/ NoOutfile \/ WriteHeader \/ Layout \/ LayoutMissing
  \/ WriteTable \/ Copy \/ CopyCrashes \/ Finish
  \/ \E f \in Files : FileChanges(f)

Spec == Init /\ [][Next]_vars

-----------------------------------------------------------------------------
(* Properties.                                                             *)

Part == [offset : 0..WORD - 1, size : 0..WORD - 1]

Datum == [at : Nat, moved : BOOLEAN, version : 0..MaxVersion, read : Nat]

TypeOK ==
  /\ pc \in {"args", "layout", "copy", "exit_ok", "exit_usage", "crashed"}
  /\ args \in Seq(Files)
  /\ argc \in {2 + 2 * Len(args), 3 + 2 * Len(args)}
  /\ disk \in [Files -> State]
  /\ parts \in Seq(Part) /\ currentOffset \in 0..WORD - 1
  /\ fsize \in Seq(Lengths \cup {-1}) /\ seen \in Seq(0..MaxVersion)
  /\ end \in Nat /\ lost \in BOOLEAN
  /\ data \in Seq(Datum)

DataStart == HEADER + ENTRY * NumParts

(* Where the data of partition n + 1 begins, by the table and, if no write *)
(* fell short, by what was written.                                        *)
After(n) == IF n = 0 THEN DataStart ELSE parts[n].offset + fsize[n]
Written(n) == IF n = 0 THEN DataStart ELSE data[n].at + parts[n].size

(* How far the two passes are, and where the blob ends if all was written. *)
PassInv ==
  /\ Len(fsize) = Len(parts) /\ Len(seen) = Len(parts)
  /\ Len(parts) <= NumParts /\ Len(data) <= Len(parts)
  /\ parts # <<>> => ArgsOK
  /\ pc \in {"args", "exit_usage"} => parts = <<>> /\ end = 0 /\ ~lost
  /\ pc = "layout" => ArgsOK /\ (lost \/ end = HEADER)
  /\ pc \in {"args", "layout"} => data = <<>>
  /\ pc = "copy" => Len(parts) = NumParts /\ (lost \/ end = Written(Len(data)))
  /\ data # <<>> => Len(parts) = NumParts

(* Each entry of the table begins where the file before it ends, modulo    *)
(* the width of an offset.                                                 *)
TableInv ==
  /\ pc \in {"layout", "copy"} => currentOffset = After(Len(parts)) % WORD
  /\ \A i \in DOMAIN parts : /\ parts[i].offset = After(i - 1) % WORD
                            /\ parts[i].size = fsize[i] % WORD

(* Up to a write that falls short, the data of each partition is written   *)
(* where the one before it ends; if its file is the one that was measured, *)
(* all of it is read.                                                      *)
DataInv ==
  /\ \A i \in DOMAIN parts :
       LET f == disk[args[i]] IN
       /\ seen[i] <= f.version
       /\ seen[i] = f.version => fsize[i] \in {f.length, -1}
  /\ \A i \in DOMAIN data :
       /\ data[i].moved => lost
       /\ ~data[i].moved => data[i].at = Written(i - 1)
       /\ seen[i] = data[i].version /\ fsize[i] # -1 =>
            data[i].read = Least(parts[i].size, fsize[i])

(* The inductive invariant of the two passes.                              *)
BInv == TypeOK /\ PassInv /\ TableInv /\ DataInv

(* The sizes up to partition i are known, and fit in their words with the  *)
(* offsets.                                                                *)
Fits(i) ==
  /\ DataStart < WORD
  /\ \A j \in 1..i : fsize[j] # -1 /\ parts[j].offset + fsize[j] < WORD

(* Each entry points at the data of its own file: the offset recorded in   *)
(* the first pass is where the second one writes, and the recorded size is *)
(* read, for each file that did not change in between, whatever the others *)
(* did (lines 84-117).  A write that falls short, unnoticed, displaces the *)
(* data behind it and none before it.                                      *)
EntryPointsAtFile ==
  \A i \in DOMAIN data :
    Fits(i) =>
      /\ data[i].moved \/ data[i].at = parts[i].offset
      /\ seen[i] = data[i].version =>
           data[i].read = fsize[i] /\ parts[i].size = fsize[i]

(* The entries of the table name ranges behind the table that do not       *)
(* overlap, in the order of the arguments, as far as offsets and sizes fit *)
(* (86-105).                                                               *)
EntriesInOrder ==
  \A i, j \in DOMAIN parts :
    i < j /\ Fits(j) =>
      /\ DataStart <= parts[i].offset
      /\ parts[i].offset + parts[i].size <= parts[j].offset
=============================================================================
