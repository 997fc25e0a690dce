---------------------------- MODULE SharedFiles ----------------------------
(***************************************************************************)
(* The two files that every process reads whole and replaces whole: the    *)
(* record of copies and the index of identities.  history.rs and cache.rs  *)
(* of apps/crossload/src.                                                  *)
(***************************************************************************)
EXTENDS Naturals, Sequences, SequencesExt

CONSTANTS
    MaxLines,       \* of the record
    MaxEntries      \* of the index

ASSUME SharedAssumption == MaxLines \in Nat \ {0} /\ MaxEntries \in Nat

LastOf(seq, n) == SubSeq(seq, 1 + (IF Len(seq) > n THEN Len(seq) - n ELSE 0), Len(seq))

(* A record that cannot be read is taken for an empty one. *)
ReadLines(record) == {record, <<>>}

(* Mutant: the line that is added is not counted. *)
MutantRecorded(lines, line) == Append(LastOf(lines, MaxLines), line)

(* The record with one more line: the oldest ones make room for it. *)
Recorded(lines, line) == Append(LastOf(lines, MaxLines - 1), line)

-----------------------------------------------------------------------------
(* A stored index that cannot be read, or not by this version, is empty.   *)
OpenIndex(stored) == {stored, <<>>}

(* The index is kept in the order in which its entries were last used.     *)

(* Mutant: the evidence is left out of the key. *)
MutantSourceKey(item, fingerprint) == <<item, 0>>

(* An identity's key: which book, and the evidence that it is unchanged.   *)
SourceKey(item, fingerprint) == <<item, fingerprint>>

Hits(index, key) == {i \in DOMAIN index : index[i].key = key}

Known(index, key) == index[CHOOSE i \in Hits(index, key) : TRUE].sha

(* What the index has for a key is replaced. *)
Put(index, key, sha) ==
    LET others == IF Hits(index, key) = {} THEN index
                  ELSE RemoveAt(index, CHOOSE i \in Hits(index, key) : TRUE)
    IN  Append(others, [key |-> key, sha |-> sha])

(* Using an entry makes it the newest. *)
Touch(index, key) == Put(index, key, Known(index, key))

(* What is written back: without the `aged` oldest entries, which were not *)
(* used for months, and no more than fit.                                  *)
Trimmed(index, aged) == LastOf(SubSeq(index, aged + 1, Len(index)), MaxEntries)

=============================================================================
