------------------------------- MODULE LogFile -------------------------------
(***************************************************************************)
(* The write-ahead log: log::Writer (db/log_writer.cc) on a memory-mapped  *)
(* file (PosixMmapFile, util/env_posix.cc), and log::Reader                *)
(* (db/log_reader.cc) on whatever a crash left of it.  A file is a         *)
(* sequence of cells, one for a byte; the first cell of a header carries   *)
(* the length, the type and the payload its checksum stands for.           *)
(***************************************************************************)
EXTENDS Naturals, Sequences, SequencesExt, FiniteSets

CONSTANTS
  kBlockSize, kHeaderSize,
  PageSize, MapSize, MaxMapSize    \* the first and the largest mapped region

ASSUME LogAssumption ==
  /\ kHeaderSize < kBlockSize /\ kBlockSize % PageSize = 0
  /\ MapSize % PageSize = 0 /\ MapSize <= MaxMapSize

kZeroType == 0
kFullType == 1
kFirstType == 2
kMiddleType == 3
kLastType == 4
kEof == 5
kBadRecord == 6

Zero == <<0>>
Header(type, payload) ==
  <<<<1, type, payload>>>> \o [i \in 1 .. kHeaderSize - 1 |-> <<2>>]
Payload(id, size) == [i \in 1 .. size |-> <<3, id, i>>]
Zeros(n) == [i \in 1 .. n |-> Zero]

-----------------------------------------------------------------------------
(* log::Writer::AddRecord: the pieces it appends to the file, in order, and  *)
(* the block offset after them                                               *)

FragmentType(begin, end) ==
  CASE begin /\ end -> kFullType
    [] begin /\ ~end -> kFirstType
    [] ~begin /\ end -> kLastType
    [] OTHER -> kMiddleType

\* A piece is [cells, after]: after is block_offset_ once the piece is appended
\* or has failed.  The failure of a trailer is not looked at.
Piece(cells, after, trailer) == [cells |-> cells, after |-> after, trailer |-> trailer]

RECURSIVE Fragments(_, _, _)
Fragments(offset, left, begin) ==
  LET leftover == kBlockSize - offset
      start == IF leftover < kHeaderSize THEN 0 ELSE offset
      avail == kBlockSize - start - kHeaderSize
      n == IF Len(left) < avail THEN Len(left) ELSE avail
      fragment == SubSeq(left, 1, n)
      after == start + kHeaderSize + n
      pieces == <<Piece(IF leftover < kHeaderSize THEN Zeros(leftover) ELSE << >>, 0, TRUE),
                  Piece(Header(FragmentType(begin, n = Len(left)), fragment), after, FALSE),
                  Piece(fragment, after, FALSE)>>
  IN  IF n = Len(left) THEN pieces
      ELSE pieces \o Fragments(after, SubSeq(left, n + 1, Len(left)), FALSE)

AddRecord(log, payload) ==
  [log EXCEPT !.todo = SelectSeq(Fragments(log.block, payload, TRUE), LAMBDA p : p.cells # << >>)]

-----------------------------------------------------------------------------
(* PosixMmapFile.  Offsets are absolute; base is file_offset_.               *)

NewLog == [cells |-> << >>, durable |-> << >>, mapped |-> FALSE, base |-> 0, limit |-> 0,
           dst |-> 0, synced |-> 0, map |-> MapSize, pending |-> FALSE, block |-> 0,
           todo |-> << >>]

\* The unsynced end of a region is forgotten with the region.
UnmapForgetsUnsynced(log) ==
  IF ~log.mapped THEN log
  ELSE [log EXCEPT !.mapped = FALSE, !.base = log.limit, !.dst = log.limit,
                   !.synced = log.limit, !.map = IF @ < MaxMapSize THEN 2 * @ ELSE @]

UnmapCurrentRegion(log) ==
  IF ~log.mapped THEN log
  ELSE [log EXCEPT !.mapped = FALSE, !.pending = @ \/ log.synced < log.limit,
                   !.base = log.limit, !.dst = log.limit, !.synced = log.limit,
                   !.map = IF @ < MaxMapSize THEN 2 * @ ELSE @]

MapNewRegion(log) ==
  [log EXCEPT !.mapped = TRUE, !.limit = log.base + log.map,
              !.cells = @ \o Zeros(log.map), !.durable = @ \o Zeros(log.map)]

NeedsRegion(log) == log.limit = log.dst

\* PosixMmapFile::Append, one memcpy of the next piece
CopyPiece(log) ==
  LET piece == Head(log.todo)
      avail == log.limit - log.dst
      n == IF Len(piece.cells) <= avail THEN Len(piece.cells) ELSE avail
      rest == [piece EXCEPT !.cells = SubSeq(@, n + 1, Len(@))]
      done == rest.cells = << >>
  IN  [log EXCEPT !.cells = [i \in DOMAIN @ |-> IF i \in log.dst + 1 .. log.dst + n
                                                THEN piece.cells[i - log.dst] ELSE @[i]],
                  !.dst = @ + n,
                  !.block = IF done THEN piece.after ELSE @,
                  !.todo = IF done THEN Tail(@) ELSE <<rest>> \o Tail(@)]

\* The region cannot be mapped: the record ends here, unless this was a trailer.
AppendFails(log) ==
  LET piece == Head(log.todo)
      unmapped == UnmapCurrentRegion(log)
  IN  [unmapped EXCEPT !.block = piece.after, !.todo = IF piece.trailer THEN Tail(@) ELSE << >>]

TruncateToPageBoundary(offset) == (offset \div PageSize) * PageSize

\* PosixMmapFile::Sync: the whole file when unmapped data is pending, then the
\* pages between the last sync and the end
MakeDurable(log, from, to) ==
  [log EXCEPT !.durable = [i \in DOMAIN @ |-> IF i > from /\ i <= to THEN log.cells[i] ELSE @[i]]]

SyncedPages(log) ==
  IF log.dst > log.synced
  THEN MakeDurable([log EXCEPT !.synced = log.dst],
                   log.base + TruncateToPageBoundary(log.synced - log.base),
                   log.base + TruncateToPageBoundary(log.dst - log.base - 1) + PageSize)
  ELSE log

Sync(log) ==
  LET whole == IF log.pending THEN MakeDurable([log EXCEPT !.pending = FALSE], 0, log.base) ELSE log
  IN  SyncedPages(whole)

\* The flags are reset although nothing became durable.
SyncFails(log) == [log EXCEPT !.pending = FALSE, !.synced = log.dst]

Closed(log) == SubSeq(log.cells, 1, log.dst)

\* A machine crash: every page is the one last synced or a later one.
PagesOf(log) == 0 .. (Len(log.cells) \div PageSize) - 1
Page(i) == (i - 1) \div PageSize
DirtyPages(log) == {p \in PagesOf(log) :
                      \E i \in p * PageSize + 1 .. (p + 1) * PageSize : log.cells[i] # log.durable[i]}
AfterCrash(log, written) ==
  [i \in DOMAIN log.cells |-> IF Page(i) \in written THEN log.cells[i] ELSE log.durable[i]]

-----------------------------------------------------------------------------
(* log::Reader.  The buffer is the part at+1 .. end of the file.             *)

NewReader == [at |-> 0, end |-> 0, eof |-> FALSE]

ReadBlock(file, r) ==
  LET n == IF Len(file) - r.end < kBlockSize THEN Len(file) - r.end ELSE kBlockSize
  IN  [at |-> r.end, end |-> r.end + n, eof |-> n < kBlockSize]

Drop(r) == [r EXCEPT !.at = r.end]

\* The checksum matches: header and payload are one record as it was written.
Intact(file, at) ==
  /\ file[at + 1][1] = 1
  /\ \A i \in 2 .. kHeaderSize : file[at + i] = <<2>>
  /\ \A i \in 1 .. Len(file[at + 1][3]) : file[at + kHeaderSize + i] = file[at + 1][3][i]

RECURSIVE ReadPhysicalRecord(_, _)
ReadPhysicalRecord(file, r) ==
  LET header == file[r.at + 1]
      length == IF header[1] = 1 THEN Len(header[3]) ELSE 0
      end == r.at + kHeaderSize + length
  IN  CASE r.end - r.at < kHeaderSize /\ ~r.eof -> ReadPhysicalRecord(file, ReadBlock(file, r))
        [] r.end - r.at < kHeaderSize /\ r.eof -> [type |-> kEof, data |-> << >>, r |-> Drop(r)]
        [] r.end - r.at >= kHeaderSize /\ (end > r.end \/ ~Intact(file, r.at))
             -> [type |-> kBadRecord, data |-> << >>, r |-> Drop(r)]
        [] OTHER -> [type |-> header[2], data |-> SubSeq(file, r.at + kHeaderSize + 1, end),
                     r |-> [r EXCEPT !.at = end]]

\* ReadRecord until the end of the file: the records it returns
RECURSIVE ReadRecords(_, _, _, _)
ReadRecords(file, r, fragmented, scratch) ==
  LET p == ReadPhysicalRecord(file, r)
  IN  CASE p.type = kFullType -> <<p.data>> \o ReadRecords(file, p.r, FALSE, << >>)
        [] p.type = kFirstType -> ReadRecords(file, p.r, TRUE, p.data)
        [] p.type = kMiddleType ->
             ReadRecords(file, p.r, fragmented, IF fragmented THEN scratch \o p.data ELSE scratch)
        [] p.type = kLastType /\ fragmented
             -> <<scratch \o p.data>> \o ReadRecords(file, p.r, FALSE, << >>)
        [] p.type = kLastType /\ ~fragmented -> ReadRecords(file, p.r, FALSE, scratch)
        [] p.type = kBadRecord -> ReadRecords(file, p.r, FALSE, << >>)
        [] p.type = kEof -> << >>

ReadLog(file) == ReadRecords(file, NewReader, FALSE, << >>)
=============================================================================
