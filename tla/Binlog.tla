------------------------------- MODULE Binlog -------------------------------
(***************************************************************************)
(* The binary log of crates/elyra-storage/src/binlog.rs: a directory of    *)
(* segment files, kept here as the sequence of the segments that are still *)
(* there, oldest first.  A segment is the sequence of its records; a       *)
(* record is a committed write-set with its LSN.  Torn stands for a record *)
(* cut off by a crash in the middle of its write: no reader gets past it.  *)
(***************************************************************************)
EXTENDS Integers, Sequences

CONSTANTS Torn, SegmentMax    \* records at which a segment is full

ASSUME SegmentAssumption == SegmentMax \in Nat \ {0}

\* BinlogWriter::open: always a fresh segment, after the last one.
OpenSegment(b) == Append(b, << >>)

\* BinlogWriter::append and rotate: the record goes to the last segment, and a
\* full segment is followed by a new, empty one.
AppendRecord(b, rec) ==
  LET seg == Append(b[Len(b)], rec)
      b1  == [b EXCEPT ![Len(b)] = seg]
  IN  IF Len(seg) >= SegmentMax THEN OpenSegment(b1) ELSE b1

\* A crash in the middle of append.
TearRecord(b) == [b EXCEPT ![Len(b)] = Append(@, Torn)]

\* read_segment_records fails on a segment that ends in a torn record.
Readable(seg) == \A n \in 1..Len(seg) : seg[n] # Torn
AllReadable(b) == \A n \in 1..Len(b) : Readable(b[n])

\* max_lsn, with its caller's unwrap_or(0): the last record of the last segment.
MaxLsn(b) ==
  IF b = << >> \/ b[Len(b)] = << >> \/ ~Readable(b[Len(b)]) THEN 0
  ELSE b[Len(b)][Len(b[Len(b)])].lsn

\* All records, in the order replay and read_since go through them.
Records(b) ==
  LET f[n \in 0..Len(b)] == IF n = 0 THEN << >> ELSE f[n - 1] \o b[n]
  IN  f[Len(b)]

\* earliest_lsn: the first record of the first segment that has one; -1 is None.
EarliestLsn(b) == IF Records(b) = << >> THEN -1 ELSE Records(b)[1].lsn

\* read_since
ReadSince(b, after, upTo) ==
  SelectSeq(Records(b), LAMBDA rec : after < rec.lsn /\ rec.lsn <= upTo)
=============================================================================
