--------------------------- MODULE DatabaseProof ---------------------------
(***************************************************************************)
(* Proofs about Database and DatabaseIterator: what the database recovers  *)
(* after a crash, what snapshots hold, that it implements the durable map, *)
(* what a batch does to it and what a scan of it meets, for any number of  *)
(* fibers, keys, batches, records and parts of a record.                   *)
(*                                                                         *)
(* Facts about a fold are proved by its least counterexample: a set of     *)
(* numbers has a first element (LeastElement), which says of data what an  *)
(* induction would.                                                        *)
(***************************************************************************)
EXTENDS DatabaseIterator, SequenceTheorems, WellFoundedInduction, TLAPS

\* A longer history is a sequence as well.
LEMMA LongerHistory ==
  ASSUME NEW h, h \in Seq(Range(h)), NEW m
  PROVE  /\ Append(h, m) \in Seq(Range(Append(h, m)))
         /\ Len(Append(h, m)) = Len(h) + 1
         /\ \A i \in 1 .. Len(h) : Append(h, m)[i] = h[i]
         /\ Append(h, m)[Len(h) + 1] = m
<1> DEFINE S == Range(h) \cup {m}
<1>1. h \in Seq(S)
  BY SeqDef
<1>2. Append(h, m) \in Seq(S) /\ Len(Append(h, m)) = Len(h) + 1
  BY <1>1
<1>3. /\ \A i \in 1 .. Len(h) : Append(h, m)[i] = h[i]
      /\ Append(h, m)[Len(h) + 1] = m
  BY <1>1
<1>4. Range(Append(h, m)) = S
  BY <1>1, <1>2, <1>3 DEF Range
<1> QED BY <1>2, <1>3, <1>4

----------------------------------------------------------------------------
(* The invariant holds in the first state and is kept by every action *)

\* A new database has an empty log and nothing before it.
LEMMA InitInv == Init => DatabaseInv
<1> SUFFICES ASSUME Init PROVE DatabaseInv
  OBVIOUS
<1> USE DatabaseAssumption DEF Init
<1>1. history \in Seq(Range(history)) /\ Len(history) = 1 /\ history[1] = NoEntries
  BY DEF Range
<1>2. ShapeOK
  <2>1. calls \in [Fiber -> Call]
    BY DEF Call
  <2>2. wal \in Seq(Record)
    OBVIOUS
  <2> QED BY <1>1, <2>1, <2>2 DEF ShapeOK
<1>3. TornRecordIsLast /\ Chained
  BY <1>1 DEF TornRecordIsLast, Chained, HasTornRecord
<1>4. Recovered /\ SnapshotIsPast /\ Replayed /\ OneWriter /\ Quiet
  BY DEF Recovered, SnapshotIsPast, Replayed, OneWriter, Quiet, HasTornRecord, NoCall
<1> QED BY <1>2, <1>3, <1>4 DEF DatabaseInv

\* Open keeps the invariant.
LEMMA OpenInv == DatabaseInv /\ Open => DatabaseInv'
<1> SUFFICES ASSUME DatabaseInv, Open PROVE DatabaseInv'
  OBVIOUS
<1> USE DatabaseAssumption DEF DatabaseInv, Open, disk
<1>1. ShapeOK'
  BY DEF ShapeOK
<1>2. TornRecordIsLast' /\ Chained'
  BY DEF TornRecordIsLast, Chained, HasTornRecord
<1>3. Len(history) \in Nat \ {0}
  BY DEF ShapeOK, Chained
<1>4. Recovered' /\ SnapshotIsPast' /\ OneWriter' /\ Quiet'
  BY DEF Recovered, SnapshotIsPast, OneWriter, Quiet, HasTornRecord
<1>5. Replayed'
  BY <1>3 DEF Replayed, Chained
<1> QED BY <1>1, <1>2, <1>4, <1>5

\* The records that replay finds are those of the history.
LEMMA ReplayFindsHistory ==
  ASSUME DatabaseInv, phase = "Replaying"
  PROVE  HasNextRecord <=> offset + 1 < Len(history)
<1> USE DatabaseAssumption DEF DatabaseInv
<1>1. Len(wal) \in Nat /\ Len(history) \in Nat /\ offset \in Nat
  BY DEF ShapeOK
<1>2. offset < Len(history)
  BY DEF Replayed
<1>3. CASE HasTornRecord
  <2>1. Len(history) = Len(wal) /\ Len(wal) > 0 /\ ~IsWhole(wal[Len(wal)])
    BY <1>1, <1>3 DEF TornRecordIsLast, HasTornRecord, Last, ShapeOK
  <2> QED BY <1>1, <1>2, <2>1 DEF TornRecordIsLast, HasNextRecord
<1>4. CASE ~HasTornRecord
  <2>1. Len(history) = Len(wal) + 1 /\ (Len(wal) > 0 => IsWhole(wal[Len(wal)]))
    BY <1>1, <1>4 DEF TornRecordIsLast, HasTornRecord, Last, ShapeOK
  <2> QED BY <1>1, <1>2, <2>1 DEF TornRecordIsLast, HasNextRecord
<1> QED BY <1>3, <1>4

\* ReplayRecord keeps the invariant.
LEMMA ReplayRecordInv == DatabaseInv /\ ReplayRecord => DatabaseInv'
<1> SUFFICES ASSUME DatabaseInv, ReplayRecord PROVE DatabaseInv'
  OBVIOUS
<1>0. offset + 1 < Len(history)
  BY ReplayFindsHistory DEF ReplayRecord
<1> USE DatabaseAssumption DEF DatabaseInv, ReplayRecord, disk
<1>1. ShapeOK'
  BY DEF ShapeOK
<1>2. TornRecordIsLast' /\ Chained'
  BY DEF TornRecordIsLast, Chained, HasTornRecord
<1>3. Len(history) \in Nat /\ offset \in Nat
  BY DEF ShapeOK
<1>4. Recovered' /\ SnapshotIsPast' /\ OneWriter' /\ Quiet'
  BY DEF Recovered, SnapshotIsPast, OneWriter, Quiet, HasTornRecord
<1>5. history[offset + 2] = Apply(history[offset + 1], wal[offset + 1].batch)
  BY <1>0, <1>3 DEF Chained
<1>6. Replayed'
  BY <1>0, <1>3, <1>5 DEF Replayed
<1> QED BY <1>1, <1>2, <1>4, <1>6

\* FinishReplay keeps the invariant.
LEMMA FinishReplayInv == DatabaseInv /\ FinishReplay => DatabaseInv'
<1> SUFFICES ASSUME DatabaseInv, FinishReplay PROVE DatabaseInv'
  OBVIOUS
<1>0. ~(offset + 1 < Len(history))
  BY ReplayFindsHistory DEF FinishReplay
<1> USE DatabaseAssumption DEF DatabaseInv
<1>1. /\ Len(history) \in Nat /\ offset \in Nat /\ Len(wal) \in Nat
      /\ wal \in Seq(Record)
  BY DEF ShapeOK
<1>2. offset = Len(history) - 1 /\ offset <= Len(wal)
  BY <1>0, <1>1 DEF Replayed, FinishReplay, TornRecordIsLast
<1>3. /\ wal' \in Seq(Record)
      /\ Len(wal') = offset
      /\ \A i \in 1 .. offset : wal'[i] = wal[i]
  BY <1>1, <1>2 DEF FinishReplay
<1>4. \A i \in 1 .. offset : IsWhole(wal[i])
  BY <1>1, <1>2 DEF TornRecordIsLast, HasTornRecord, Last
<1>5. ~HasTornRecord'
  BY <1>1, <1>3, <1>4 DEF HasTornRecord, Last, IsWhole
<1>6. ShapeOK'
  BY <1>3 DEF ShapeOK, FinishReplay
<1>7. TornRecordIsLast'
  BY <1>1, <1>2, <1>3, <1>4, <1>5 DEF TornRecordIsLast, FinishReplay, IsWhole
<1>8. Chained'
  BY <1>1, <1>2, <1>3 DEF Chained, FinishReplay
<1>9. Recovered' /\ SnapshotIsPast' /\ Replayed'
  BY <1>1, <1>2 DEF Recovered, SnapshotIsPast, Replayed, FinishReplay, Last
<1>10. OneWriter' /\ Quiet'
  BY <1>5 DEF OneWriter, Quiet, FinishReplay, NoCall
<1> QED BY <1>6, <1>7, <1>8, <1>9, <1>10

\* FinishPrepare keeps the invariant.
LEMMA FinishPrepareInv == DatabaseInv /\ FinishPrepare => DatabaseInv'
  BY DatabaseAssumption
  DEF DatabaseInv, FinishPrepare, disk, ShapeOK, TornRecordIsLast, Chained,
      HasTornRecord, Recovered, SnapshotIsPast, Replayed, OneWriter, Quiet

\* BeginWrite keeps the invariant.
LEMMA BeginWriteInv == ASSUME NEW f \in Fiber
                       PROVE  DatabaseInv /\ BeginWrite(f) => DatabaseInv'
<1> SUFFICES ASSUME DatabaseInv, BeginWrite(f) PROVE DatabaseInv'
  OBVIOUS
<1> USE DatabaseAssumption DEF DatabaseInv, BeginWrite, disk
<1>1. PICK b \in Batch :
        calls' = [calls EXCEPT ![f] = [op |-> "Write", batch |-> b, parts |-> 0]]
  OBVIOUS
<1>2. [op |-> "Write", batch |-> b, parts |-> 0] \in Call
  BY DEF Call
<1>3. ShapeOK'
  BY <1>1, <1>2 DEF ShapeOK
<1>4. TornRecordIsLast' /\ Chained'
  BY DEF TornRecordIsLast, Chained, HasTornRecord
<1>5. Recovered' /\ SnapshotIsPast' /\ Replayed' /\ Quiet'
  BY DEF Recovered, SnapshotIsPast, Replayed, Quiet
<1>6. OneWriter'
  BY <1>1 DEF OneWriter, ShapeOK, HasTornRecord, NoCall
<1> QED BY <1>3, <1>4, <1>5, <1>6

\* Lock keeps the invariant.
LEMMA LockInv == ASSUME NEW f \in Fiber
                 PROVE  DatabaseInv /\ Lock(f) => DatabaseInv'
<1> SUFFICES ASSUME DatabaseInv, Lock(f) PROVE DatabaseInv'
  OBVIOUS
<1> USE DatabaseAssumption DEF DatabaseInv, Lock, disk
<1>1. ShapeOK'
  BY DEF ShapeOK
<1>2. TornRecordIsLast' /\ Chained'
  BY DEF TornRecordIsLast, Chained, HasTornRecord
<1>3. Recovered' /\ SnapshotIsPast' /\ Replayed'
  BY DEF Recovered, SnapshotIsPast, Replayed
<1>4. phase = "Open"
  BY DEF Quiet, NoCall
<1>5. OneWriter' /\ Quiet'
  BY <1>4 DEF OneWriter, Quiet, ShapeOK, HasTornRecord
<1> QED BY <1>1, <1>2, <1>3, <1>5

\* What an append of f does to the file.
LEMMA ExtendedFile ==
  ASSUME DatabaseInv, NEW f \in Fiber, IsWriting(f)
  PROVE  /\ phase = "Open"
         /\ calls[f].batch \in Batch
         /\ calls[f].parts \in 0 .. RecordParts - 1
         /\ Extended(f) \in Seq(Record)
         /\ Len(Extended(f)) = Len(history)
         /\ \A i \in 1 .. Len(history) - 1 : Extended(f)[i] = wal[i] /\ IsWhole(wal[i])
         /\ Extended(f)[Len(history)] =
              [batch |-> calls[f].batch, parts |-> calls[f].parts + 1]
<1> USE DatabaseAssumption DEF DatabaseInv, IsWriting
<1>1. phase = "Open"
  BY DEF Quiet, NoCall
<1>2. calls[f].batch \in Batch /\ calls[f].parts \in 0 .. RecordParts - 1
  <2>1. calls[f] \in Call
    BY DEF ShapeOK
  <2> QED BY <2>1 DEF Call, NoCall
<1>3. /\ wal \in Seq(Record) /\ Len(wal) \in Nat
      /\ Len(history) \in Nat \ {0}
  BY DEF ShapeOK, Chained
<1>4. CASE calls[f].parts = 0
  <2>1. ~HasTornRecord
    BY <1>1, <1>4 DEF OneWriter
  <2>2. Len(history) = Len(wal) + 1 /\ (Len(wal) > 0 => IsWhole(wal[Len(wal)]))
    BY <1>3, <2>1 DEF TornRecordIsLast, HasTornRecord, Last
  <2>3. \A i \in 1 .. Len(wal) : IsWhole(wal[i])
    BY <1>3, <2>2 DEF TornRecordIsLast
  <2>4. [batch |-> calls[f].batch, parts |-> 1] \in Record
    BY <1>2 DEF Record
  <2>5. Extended(f) = Append(wal, [batch |-> calls[f].batch, parts |-> 1])
    BY <1>4 DEF Extended
  <2>6. /\ Extended(f) \in Seq(Record)
        /\ Len(Extended(f)) = Len(wal) + 1
        /\ \A i \in 1 .. Len(wal) : Extended(f)[i] = wal[i]
        /\ Extended(f)[Len(wal) + 1] = [batch |-> calls[f].batch, parts |-> 1]
    BY <1>3, <2>4, <2>5
  <2> QED BY <1>1, <1>2, <1>3, <1>4, <2>2, <2>3, <2>6
<1>5. CASE calls[f].parts > 0
  <2>1. /\ HasTornRecord
        /\ Last(wal) = [batch |-> calls[f].batch, parts |-> calls[f].parts]
    BY <1>5 DEF OneWriter
  <2>2. Len(history) = Len(wal)
    BY <1>3, <2>1 DEF TornRecordIsLast
  <2>3. /\ wal[Len(wal)] = [batch |-> calls[f].batch, parts |-> calls[f].parts]
        /\ Len(wal) \in 1 .. Len(wal)
    BY <1>3, <2>1, <2>2 DEF Last
  <2>4. Extended(f) = [wal EXCEPT ![Len(wal)].parts = @ + 1]
    BY <1>5 DEF Extended
  <2>5. Extended(f) = [wal EXCEPT ![Len(wal)] =
                         [batch |-> calls[f].batch, parts |-> calls[f].parts + 1]]
    <3> DEFINE r == wal[Len(wal)]
    <3>1. [r EXCEPT !.parts = @ + 1] =
            [batch |-> calls[f].batch, parts |-> calls[f].parts + 1]
      BY <2>3
    <3>2. Extended(f) = [wal EXCEPT ![Len(wal)] = [r EXCEPT !.parts = @ + 1]]
      BY <2>4
    <3> QED BY <3>1, <3>2
  <2>6. [batch |-> calls[f].batch, parts |-> calls[f].parts + 1] \in Record
    BY <1>2 DEF Record
  <2>7. /\ Extended(f) \in Seq(Record)
        /\ Len(Extended(f)) = Len(wal)
        /\ \A i \in 1 .. Len(wal) - 1 : Extended(f)[i] = wal[i]
        /\ Extended(f)[Len(wal)] =
             [batch |-> calls[f].batch, parts |-> calls[f].parts + 1]
    BY <1>3, <2>3, <2>5, <2>6
  <2> QED BY <1>1, <1>2, <1>3, <2>2, <2>7 DEF TornRecordIsLast
<1> QED BY <1>2, <1>4, <1>5

\* AppendPart keeps the invariant.
LEMMA AppendPartInv == ASSUME NEW f \in Fiber
                       PROVE  DatabaseInv /\ AppendPart(f) => DatabaseInv'
<1> SUFFICES ASSUME DatabaseInv, AppendPart(f) PROVE DatabaseInv'
  OBVIOUS
<1> USE DatabaseAssumption
<1>1. IsWriting(f) /\ calls[f].parts + 1 < RecordParts /\ wal' = Extended(f)
  BY DEF AppendPart
<1>2. /\ phase = "Open"
      /\ calls[f].batch \in Batch
      /\ calls[f].parts \in 0 .. RecordParts - 1
      /\ wal' \in Seq(Record)
      /\ Len(wal') = Len(history)
      /\ \A i \in 1 .. Len(history) - 1 : wal'[i] = wal[i] /\ IsWhole(wal[i])
      /\ wal'[Len(history)] = [batch |-> calls[f].batch, parts |-> calls[f].parts + 1]
  BY <1>1, ExtendedFile
<1>3. Len(history) \in Nat \ {0}
  BY DEF DatabaseInv, ShapeOK, Chained
<1>4. HasTornRecord' /\ Last(wal') = wal'[Len(history)]
  BY <1>1, <1>2, <1>3 DEF HasTornRecord, IsWhole, Last
<1> USE DEF DatabaseInv, AppendPart
<1>5. calls[f] \in [op : {"Write"}, batch : Batch, parts : 0 .. RecordParts - 1]
  BY <1>1 DEF ShapeOK, Call, NoCall, IsWriting
<1>6. [calls[f] EXCEPT !.parts = @ + 1] =
        [op |-> "Write", batch |-> calls[f].batch, parts |-> calls[f].parts + 1]
  BY <1>5
<1>7. /\ calls' = [calls EXCEPT ![f] = [op |-> "Write", batch |-> calls[f].batch,
                                        parts |-> calls[f].parts + 1]]
      /\ calls \in [Fiber -> Call]
  BY <1>6 DEF ShapeOK
<1>8. ShapeOK'
  <2>1. [op |-> "Write", batch |-> calls[f].batch, parts |-> calls[f].parts + 1] \in Call
    BY <1>1, <1>2 DEF Call
  <2> QED BY <1>2, <1>7, <2>1, ZenonT(40) DEF ShapeOK
<1>9. TornRecordIsLast'
  BY <1>2, <1>3, <1>4 DEF TornRecordIsLast, IsWhole
<1>10. Chained'
  BY <1>2, <1>3 DEF Chained
<1>11. Recovered' /\ SnapshotIsPast' /\ Replayed' /\ Quiet'
  BY <1>2 DEF Recovered, SnapshotIsPast, Replayed, Quiet
<1>12. OneWriter'
  BY <1>1, <1>2, <1>4, <1>7 DEF OneWriter, IsWriting
<1> QED BY <1>8, <1>9, <1>10, <1>11, <1>12

\* FinishWrite keeps the invariant.
LEMMA FinishWriteInv == ASSUME NEW f \in Fiber
                        PROVE  DatabaseInv /\ FinishWrite(f) => DatabaseInv'
<1> SUFFICES ASSUME DatabaseInv, FinishWrite(f) PROVE DatabaseInv'
  OBVIOUS
<1> USE DatabaseAssumption
<1> DEFINE m == Apply(Last(history), calls[f].batch)
<1>1. IsWriting(f) /\ calls[f].parts + 1 = RecordParts /\ wal' = Extended(f)
  BY DEF FinishWrite
<1>2. /\ phase = "Open"
      /\ wal' \in Seq(Record)
      /\ Len(wal') = Len(history)
      /\ \A i \in 1 .. Len(history) - 1 : wal'[i] = wal[i] /\ IsWhole(wal[i])
      /\ wal'[Len(history)] = [batch |-> calls[f].batch, parts |-> RecordParts]
  BY <1>1, ExtendedFile
<1>3. Len(history) \in Nat \ {0} /\ history \in Seq(Range(history))
  BY DEF DatabaseInv, ShapeOK, Chained
<1>4. history' = Append(history, m)
  BY DEF FinishWrite
<1> HIDE DEF m
<1>5. /\ history' \in Seq(Range(history'))
      /\ Len(history') = Len(history) + 1
      /\ \A i \in 1 .. Len(history) : history'[i] = history[i]
      /\ history'[Len(history) + 1] = m
  BY <1>3, <1>4, LongerHistory
<1>6. \A i \in 1 .. Len(wal') : IsWhole(wal'[i])
  BY <1>2, <1>3 DEF IsWhole
<1>7. ~HasTornRecord'
  BY <1>2, <1>3, <1>6 DEF HasTornRecord, Last, IsWhole
<1> USE DEF DatabaseInv, FinishWrite
<1>8. calls \in [Fiber -> Call] /\ calls' = [calls EXCEPT ![f] = NoCall] /\ NoCall \in Call
  BY DEF ShapeOK, Call
<1>9. ShapeOK'
  BY <1>2, <1>5, <1>8 DEF ShapeOK
<1>10. TornRecordIsLast'
  BY <1>2, <1>3, <1>5, <1>6, <1>7 DEF TornRecordIsLast, IsWhole
<1>11. m = Apply(history[Len(history)], wal'[Len(history)].batch)
  BY <1>2 DEF m, Last
<1>12. Chained'
  <2>1. \A i \in 1 .. Len(history) - 1 :
          history'[i + 1] = Apply(history'[i], wal'[i].batch)
    BY <1>2, <1>3, <1>5 DEF Chained
  <2>2. history'[Len(history) + 1] = Apply(history'[Len(history)], wal'[Len(history)].batch)
    BY <1>3, <1>5, <1>11
  <2>3. \A i \in 1 .. Len(history') - 1 :
          history'[i + 1] = Apply(history'[i], wal'[i].batch)
    BY <1>3, <1>5, <2>1, <2>2
  <2>4. history' # <<>> /\ history'[1] = NoEntries
    BY <1>3, <1>5 DEF Chained
  <2> QED BY <2>3, <2>4 DEF Chained
<1>13. Recovered'
  <2>1. mem_table = Last(history) /\ version = Len(history) - 1
    BY <1>2 DEF Recovered
  <2>2. mem_table' = m /\ version' = Len(history)
    BY <1>3, <2>1 DEF m
  <2> QED BY <1>3, <1>5, <2>2 DEF Recovered, Last
<1>14. SnapshotIsPast'
  <2>1. \A s \in snapshots : s.version \in Nat
    BY DEF ShapeOK
  <2> QED BY <1>3, <1>5, <2>1 DEF SnapshotIsPast
<1>15. Replayed' /\ Quiet'
  BY <1>2 DEF Replayed, Quiet
<1>16. OneWriter'
  BY <1>1, <1>7, <1>8 DEF OneWriter, IsWriting, NoCall
<1> QED BY <1>9, <1>10, <1>12, <1>13, <1>14, <1>15, <1>16

\* Get keeps the invariant.
LEMMA GetInv == ASSUME NEW f \in Fiber
                PROVE  DatabaseInv /\ Get(f) => DatabaseInv'
  BY DatabaseAssumption
  DEF DatabaseInv, Get, disk, ShapeOK, TornRecordIsLast, Chained,
      HasTornRecord, Recovered, SnapshotIsPast, Replayed, OneWriter, Quiet

\* MissCache keeps the invariant.
LEMMA MissCacheInv == ASSUME NEW f \in Fiber
                      PROVE  DatabaseInv /\ MissCache(f) => DatabaseInv'
<1> SUFFICES ASSUME DatabaseInv, MissCache(f) PROVE DatabaseInv'
  OBVIOUS
<1> USE DatabaseAssumption DEF DatabaseInv, MissCache, disk
<1>1. PICK k \in Key : calls' = [calls EXCEPT ![f] = [op |-> "Read", key |-> k]]
  OBVIOUS
<1>2. [op |-> "Read", key |-> k] \in Call
  BY DEF Call
<1>3. ShapeOK'
  BY <1>1, <1>2 DEF ShapeOK
<1>4. TornRecordIsLast' /\ Chained' /\ Recovered' /\ SnapshotIsPast' /\ Replayed' /\ Quiet'
  BY DEF TornRecordIsLast, Chained, HasTornRecord, Recovered, SnapshotIsPast,
         Replayed, Quiet
<1>5. OneWriter'
  BY <1>1 DEF OneWriter, ShapeOK, HasTornRecord, NoCall
<1> QED BY <1>3, <1>4, <1>5

\* GetAfterMiss keeps the invariant.
LEMMA GetAfterMissInv == ASSUME NEW f \in Fiber
                         PROVE  DatabaseInv /\ GetAfterMiss(f) => DatabaseInv'
<1> SUFFICES ASSUME DatabaseInv, GetAfterMiss(f) PROVE DatabaseInv'
  OBVIOUS
<1> USE DatabaseAssumption DEF DatabaseInv, GetAfterMiss, disk
<1>1. calls' = [calls EXCEPT ![f] = NoCall] /\ NoCall \in Call
  BY DEF Call
<1>2. ShapeOK'
  BY <1>1 DEF ShapeOK
<1>3. TornRecordIsLast' /\ Chained' /\ Recovered' /\ SnapshotIsPast' /\ Replayed'
  BY DEF TornRecordIsLast, Chained, HasTornRecord, Recovered, SnapshotIsPast, Replayed
<1>4. OneWriter' /\ Quiet'
  BY <1>1 DEF OneWriter, Quiet, ShapeOK, HasTornRecord, NoCall
<1> QED BY <1>2, <1>3, <1>4

\* MakeSnapshot keeps the invariant.
LEMMA MakeSnapshotInv == DatabaseInv /\ MakeSnapshot => DatabaseInv'
<1> SUFFICES ASSUME DatabaseInv, MakeSnapshot PROVE DatabaseInv'
  OBVIOUS
<1> USE DatabaseAssumption DEF DatabaseInv, MakeSnapshot, disk
<1>1. /\ mem_table = history[Len(history)] /\ version = Len(history) - 1
      /\ Len(history) \in Nat \ {0}
  BY DEF Recovered, Last, ShapeOK, Chained
<1>2. ShapeOK'
  BY DEF ShapeOK
<1>3. SnapshotIsPast'
  BY <1>1 DEF SnapshotIsPast
<1>4. TornRecordIsLast' /\ Chained' /\ Recovered' /\ Replayed' /\ OneWriter' /\ Quiet'
  BY DEF TornRecordIsLast, Chained, HasTornRecord, Recovered, Replayed, OneWriter, Quiet
<1> QED BY <1>2, <1>3, <1>4

\* Crash keeps the invariant.
LEMMA CrashInv == DatabaseInv /\ Crash => DatabaseInv'
<1> SUFFICES ASSUME DatabaseInv, Crash PROVE DatabaseInv'
  OBVIOUS
<1> USE DatabaseAssumption DEF DatabaseInv, Crash, disk
<1>1. ShapeOK'
  BY DEF ShapeOK, Call
<1>2. TornRecordIsLast' /\ Chained'
  BY DEF TornRecordIsLast, Chained, HasTornRecord
<1>3. Recovered' /\ SnapshotIsPast' /\ Replayed' /\ OneWriter' /\ Quiet'
  BY DEF Recovered, SnapshotIsPast, Replayed, OneWriter, Quiet, HasTornRecord, NoCall
<1> QED BY <1>1, <1>2, <1>3

\* Doing nothing keeps the invariant.
LEMMA StutterInv == DatabaseInv /\ UNCHANGED vars => DatabaseInv'
  BY DEF DatabaseInv, vars, ShapeOK, TornRecordIsLast, Chained,
      HasTornRecord, Recovered, SnapshotIsPast, Replayed, OneWriter, Quiet

\* All parts of the inductive invariant hold of a database that is opened,
\* written and crashed in any order (db/database.cpp).
THEOREM InvHolds == Spec => []DatabaseInv
<1>1. Init => DatabaseInv
  BY InitInv
<1>2. DatabaseInv /\ [Next]_vars => DatabaseInv'
  <2> SUFFICES ASSUME DatabaseInv, [Next]_vars PROVE DatabaseInv'
    OBVIOUS
  <2>1. CASE Open
    BY <2>1, OpenInv
  <2>2. CASE ReplayRecord
    BY <2>2, ReplayRecordInv
  <2>3. CASE FinishReplay
    BY <2>3, FinishReplayInv
  <2>4. CASE FinishPrepare
    BY <2>4, FinishPrepareInv
  <2>5. ASSUME NEW f \in Fiber, Serve(f) PROVE DatabaseInv'
    BY <2>5, BeginWriteInv, LockInv, AppendPartInv, FinishWriteInv, GetInv,
       MissCacheInv, GetAfterMissInv DEF Serve
  <2>6. CASE MakeSnapshot
    BY <2>6, MakeSnapshotInv
  <2>7. CASE Crash
    BY <2>7, CrashInv
  <2>8. CASE UNCHANGED vars
    BY <2>8, StutterInv
  <2> QED BY <2>1, <2>2, <2>3, <2>4, <2>5, <2>6, <2>7, <2>8 DEF Next
<1> QED BY <1>1, <1>2, PTL DEF Spec

----------------------------------------------------------------------------
(* The theorems *)

\* Whatever crashes came before, an open database holds the writes that have
\* returned and nothing else (Database::DoWrite, ReplayWAL).
THEOREM NothingIsLost == Spec => []Recovered
<1>1. DatabaseInv => Recovered
  BY DEF DatabaseInv
<1> QED BY <1>1, InvHolds, PTL

\* A snapshot is a past state of the database, the one its version names
\* (Database::MakeSnapshot).
THEOREM SnapshotsAreConsistent == Spec => []SnapshotIsPast
<1>1. DatabaseInv => SnapshotIsPast
  BY DEF DatabaseInv
<1> QED BY <1>1, InvHolds, PTL

\* The log file is never damaged anywhere but in its last record
\* (WALWriter::Append, Database::Open).
THEOREM LogStaysReadable == Spec => []TornRecordIsLast
<1>1. DatabaseInv => TornRecordIsLast
  BY DEF DatabaseInv
<1> QED BY <1>1, InvHolds, PTL
----------------------------------------------------------------------------
(* The database implements the durable map *)

\* The batch of each fiber in the durable map.
PendingOf(c) == [f \in Fiber |-> IF c[f].op = "Write" THEN c[f].batch ELSE <<>>]

\* A step that changes no map, no pending batch, result or snapshot stutters.
LEMMA Stutters ==
  ASSUME history' = history, result' = result, snapshots' = snapshots,
         PendingOf(calls)' = PendingOf(calls)
  PROVE  UNCHANGED Implemented!vars
  BY DEF Implemented!vars, PendingOf, Last

\* A write that begins is the abstract Begin.
LEMMA BeginWriteIsBegin ==
  ASSUME DatabaseInv, NEW f \in Fiber, BeginWrite(f)
  PROVE  Implemented!Begin(f)
<1>1. PICK b \in Batch :
        calls' = [calls EXCEPT ![f] = [op |-> "Write", batch |-> b, parts |-> 0]]
  BY DEF BeginWrite
<1>2. calls \in [Fiber -> Call] /\ calls[f] = NoCall
  BY DEF DatabaseInv, ShapeOK, BeginWrite
<1>3. PendingOf(calls)' = [PendingOf(calls) EXCEPT ![f] = b]
  BY <1>1, <1>2 DEF PendingOf
<1>4. PendingOf(calls)[f] = <<>>
  BY <1>2 DEF PendingOf, NoCall
<1>5. UNCHANGED <<history, result, snapshots>>
  BY DEF BeginWrite
<1> QED
  BY <1>3, <1>4, <1>5 DEF Implemented!Begin, Implemented!NoBatch, PendingOf, Last

\* A write that has its record in the log is the abstract Commit.
LEMMA FinishWriteIsCommit ==
  ASSUME DatabaseInv, NEW f \in Fiber, FinishWrite(f)
  PROVE  Implemented!Commit(f)
<1> DEFINE m == Apply(Last(history), calls[f].batch)
<1>1. /\ calls' = [calls EXCEPT ![f] = NoCall]
      /\ history' = Append(history, m)
      /\ UNCHANGED <<result, snapshots>>
      /\ IsWriting(f)
  BY DEF FinishWrite
<1>2. calls \in [Fiber -> Call] /\ calls[f].op = "Write"
  BY <1>1 DEF DatabaseInv, ShapeOK, IsWriting
<1>3. calls[f].batch # <<>>
  BY <1>1, ExtendedFile, DatabaseAssumption
<1>4. PendingOf(calls)[f] = calls[f].batch
  BY <1>2 DEF PendingOf
<1>5. PendingOf(calls)' = [PendingOf(calls) EXCEPT ![f] = <<>>]
  BY <1>1, <1>2 DEF PendingOf, NoCall
<1> HIDE DEF m
<1>6. Last(history') = m
  <2>1. history \in Seq(Range(history))
    BY DEF DatabaseInv, ShapeOK
  <2>2. Len(Append(history, m)) = Len(history) + 1 /\ Append(history, m)[Len(history) + 1] = m
    BY <2>1, LongerHistory
  <2> QED BY <1>1, <2>2 DEF Last
<1>7. Last(history)' = Apply(Last(history), PendingOf(calls)[f])
  BY <1>4, <1>6 DEF m, Last
<1> QED
  BY <1>1, <1>3, <1>4, <1>5, <1>7 DEF Implemented!Commit, Implemented!NoBatch, PendingOf

\* TryGet returns what the durable map holds when it returns.
LEMMA GetIsRead ==
  ASSUME DatabaseInv, NEW f \in Fiber, Get(f) \/ GetAfterMiss(f)
  PROVE  Implemented!Read(f)
<1>1. calls \in [Fiber -> Call]
  BY DEF DatabaseInv, ShapeOK
<1>2. phase = "Open"
  BY DEF DatabaseInv, Quiet, Get, GetAfterMiss, NoCall
<1>3. mem_table = Last(history)
  BY <1>2 DEF DatabaseInv, Recovered
<1>4. UNCHANGED <<history, snapshots>>
  BY DEF Get, GetAfterMiss
<1>5. CASE Get(f)
  <2>1. PendingOf(calls)' = PendingOf(calls)
    BY <1>5 DEF Get, PendingOf
  <2>2. \E k \in Key : result' = [result EXCEPT ![f] = Lookup(mem_table, k)]
    BY <1>5 DEF Get
  <2> QED BY <1>3, <1>4, <2>1, <2>2 DEF Implemented!Read, PendingOf, Last
<1>6. CASE GetAfterMiss(f)
  <2>1. calls[f].op = "Read" /\ calls' = [calls EXCEPT ![f] = NoCall]
    BY <1>6 DEF GetAfterMiss
  <2>2. PendingOf(calls)' = PendingOf(calls)
    BY <1>1, <2>1 DEF PendingOf, NoCall
  <2>3. calls[f].key \in Key
    BY <1>1, <2>1 DEF Call, NoCall
  <2>4. result' = [result EXCEPT ![f] = Lookup(mem_table, calls[f].key)]
    BY <1>6 DEF GetAfterMiss
  <2> QED BY <1>3, <1>4, <2>2, <2>3, <2>4 DEF Implemented!Read, PendingOf, Last
<1> QED BY <1>5, <1>6

\* A snapshot is taken of what the durable map holds (Database::MakeSnapshot).
LEMMA MakeSnapshotIsSnap ==
  ASSUME DatabaseInv, MakeSnapshot
  PROVE  Implemented!Snap
<1>1. mem_table = Last(history)
  BY DEF DatabaseInv, Recovered, MakeSnapshot
<1>2. snapshots' = snapshots \cup {[entries |-> mem_table, version |-> version]}
  BY DEF MakeSnapshot
<1>3. {s.entries : s \in snapshots'} = {s.entries : s \in snapshots} \cup {Last(history)}
  <2>1. [entries |-> mem_table, version |-> version].entries = Last(history)
    BY <1>1
  <2> DEFINE new == [entries |-> mem_table, version |-> version]
  <2>2. snapshots' = snapshots \cup {new} /\ new.entries = Last(history)
    BY <1>2, <2>1
  <2> HIDE DEF new
  <2> QED BY <2>2
<1>4. UNCHANGED <<history, calls, result>>
  BY DEF MakeSnapshot
<1> QED BY <1>3, <1>4 DEF Implemented!Snap, Last

\* A crash leaves the durable map as it is.
LEMMA CrashIsCrash ==
  ASSUME Crash
  PROVE  Implemented!Crash
  BY DEF Crash, disk, Implemented!Crash, Implemented!NoBatch, NoCall, Last

\* Every step of the database is a step of the durable map or none at all: it
\* is a map that changes by whole batches and survives every crash.
THEOREM DatabaseIsDurable == Spec => ImplementsDurableMap
<1>1. Init => Implemented!Init
  BY DEF Init, Implemented!Init, Implemented!NoBatch, NoCall, Last
<1>2. DatabaseInv /\ [Next]_vars => [Implemented!Next]_(Implemented!vars)
  <2> SUFFICES ASSUME DatabaseInv, [Next]_vars
               PROVE  Implemented!Next \/ UNCHANGED Implemented!vars
    OBVIOUS
  <2>1. CASE Open \/ ReplayRecord \/ FinishReplay \/ FinishPrepare
    <3>1. UNCHANGED <<history, result, snapshots, calls>>
      BY <2>1 DEF Open, ReplayRecord, FinishReplay, FinishPrepare
    <3> QED BY <3>1, Stutters DEF PendingOf
  <2>2. ASSUME NEW f \in Fiber, Serve(f)
        PROVE  Implemented!Next \/ UNCHANGED Implemented!vars
    <3>1. CASE BeginWrite(f)
      BY <3>1, BeginWriteIsBegin DEF Implemented!Next
    <3>2. CASE FinishWrite(f)
      BY <3>2, FinishWriteIsCommit DEF Implemented!Next
    <3>3. CASE Get(f) \/ GetAfterMiss(f)
      BY <3>3, GetIsRead DEF Implemented!Next
    <3>4. CASE Lock(f)
      BY <3>4, Stutters DEF Lock, PendingOf
    <3>5. CASE AppendPart(f)
      <4>1. calls' = [calls EXCEPT ![f].parts = @ + 1] /\ calls[f].op = "Write"
        BY <3>5 DEF AppendPart, IsWriting
      <4>2. calls \in [Fiber -> Call]
        BY DEF DatabaseInv, ShapeOK
      <4>3. calls[f] \in [op : {"Write"}, batch : Batch, parts : 0 .. RecordParts - 1]
        BY <4>1, <4>2 DEF Call, NoCall
      <4>4. [calls[f] EXCEPT !.parts = @ + 1] =
              [op |-> "Write", batch |-> calls[f].batch, parts |-> calls[f].parts + 1]
        BY <4>3
      <4>5. calls' = [calls EXCEPT ![f] = [op |-> "Write", batch |-> calls[f].batch,
                                           parts |-> calls[f].parts + 1]]
        BY <4>1, <4>4
      <4>6. \A g \in Fiber : calls'[g].op = calls[g].op /\ calls'[g].batch = calls[g].batch
        <5>1. calls'[f].op = "Write" /\ calls'[f].batch = calls[f].batch
          BY <4>2, <4>5
        <5>2. \A g \in Fiber \ {f} : calls'[g] = calls[g]
          BY <4>2, <4>5
        <5> QED BY <4>1, <5>1, <5>2
      <4>7. PendingOf(calls)' = PendingOf(calls)
        <5>1. \A g \in Fiber : (IF calls'[g].op = "Write" THEN calls'[g].batch ELSE <<>>)
                               = (IF calls[g].op = "Write" THEN calls[g].batch ELSE <<>>)
          BY <4>6, Zenon
        <5> QED BY <5>1, Zenon DEF PendingOf
      <4> QED BY <3>5, <4>7, Stutters DEF AppendPart
    <3>6. CASE MissCache(f)
      <4>1. calls[f] = NoCall /\ calls \in [Fiber -> Call]
        BY <3>6 DEF MissCache, DatabaseInv, ShapeOK
      <4>2. PICK k \in Key : calls' = [calls EXCEPT ![f] = [op |-> "Read", key |-> k]]
        BY <3>6 DEF MissCache
      <4>3. PendingOf(calls)' = PendingOf(calls)
        BY <4>1, <4>2 DEF PendingOf, NoCall
      <4> QED BY <3>6, <4>3, Stutters DEF MissCache
    <3> QED BY <2>2, <3>1, <3>2, <3>3, <3>4, <3>5, <3>6 DEF Serve
  <2>3. CASE MakeSnapshot
    BY <2>3, MakeSnapshotIsSnap DEF Implemented!Next
  <2>4. CASE Crash
    BY <2>4, CrashIsCrash DEF Implemented!Next
  <2>5. CASE UNCHANGED vars
    BY <2>5, Stutters DEF vars, PendingOf
  <2> QED BY <2>1, <2>2, <2>3, <2>4, <2>5 DEF Next
<1> QED
  BY <1>1, <1>2, InvHolds, PTL DEF Spec, ImplementsDurableMap, Implemented!Spec

----------------------------------------------------------------------------
(* What a batch makes of a map *)

\* Induction, for sets of numbers: the least counterexample.
LEMMA LeastElement ==
  ASSUME NEW T \in SUBSET Nat, T # {}
  PROVE  \E n \in T : \A m \in T : n <= m
<1> DEFINE R == {ss \in Nat \X Nat : ss[1] < ss[2]}
<1>1. IsWellFoundedOn(R, Nat)
  BY NatLessThanWellFounded DEF OpToRel
<1>2. \A m, n \in Nat : <<m, n>> \notin R => n <= m
  OBVIOUS
<1> HIDE DEF R
<1>3. \E n \in T : \A m \in T : <<m, n>> \notin R
  BY <1>1, WFMin
<1> QED BY <1>2, <1>3

\* A set of places has a last one.
LEMMA GreatestElement ==
  ASSUME NEW N \in Nat, NEW T \in SUBSET (1 .. N), T # {}
  PROVE  Max(T) \in T /\ \A m \in T : m <= Max(T)
<1> DEFINE S == {N - m : m \in T}
<1>0. S \in SUBSET Nat /\ S # {}
  <2>1. \A m \in T : N - m \in Nat
    OBVIOUS
  <2>2. PICK m \in T : TRUE
    OBVIOUS
  <2>3. N - m \in S
    OBVIOUS
  <2> QED BY <2>1, <2>3
<1>1. PICK n \in S : \A m \in S : n <= m
  <2> HIDE DEF S
  <2> QED BY <1>0, LeastElement
<1>2. N - n \in T /\ \A m \in T : m <= N - n
  BY <1>1
<1>3. \E x \in T : \A y \in T : x >= y
  BY <1>2
<1> QED BY <1>3 DEF Max

\* A mutation changes its key and no other.
LEMMA MutateChanges ==
  ASSUME NEW m \in Entries, NEW mut \in Mutation
  PROVE  /\ Mutate(m, mut) \in Entries
         /\ \A k \in Key : Lookup(Mutate(m, mut), k) =
                             IF k = mut.key THEN mut.value ELSE Lookup(m, k)
<1>1. PICK S \in SUBSET Key : m \in [S -> Value]
  BY DEF Entries
<1> DEFINE T == IF IsDelete(mut) THEN S \ {mut.key} ELSE S \cup {mut.key}
<1>2. /\ T \in SUBSET Key
      /\ Mutate(m, mut) = [k \in T |-> IF k = mut.key THEN mut.value ELSE m[k]]
  BY <1>1 DEF Mutate, Mutation
<1>3. Mutate(m, mut) \in [T -> Value]
  BY <1>1, <1>2 DEF Mutation, IsDelete
<1>4. Mutate(m, mut) \in Entries
  BY <1>2, <1>3 DEF Entries
<1>5. \A k \in Key : Lookup(Mutate(m, mut), k) =
                       IF k = mut.key THEN mut.value ELSE Lookup(m, k)
  BY <1>1, <1>2, DatabaseAssumption DEF Lookup, Mutation, IsDelete
<1> QED BY <1>4, <1>5

\* What FoldLeft chooses, for Apply.
IsFold(it, m, batch) ==
  it = [s \in SUBSET (DOMAIN batch) |->
          IF s = {} THEN m ELSE Mutate(it[s \ {Max(s)}], batch[Max(s)])]

\* A batch takes effect one operation after the other (MemTable).
LEMMA ApplyIsFold ==
  ASSUME NEW m, NEW batch
  PROVE  Apply(m, batch) = (CHOOSE it : IsFold(it, m, batch))[DOMAIN batch]
  BY DEF Apply, FoldLeft, MapThenFoldSet, IsFold

\* There is such a function: one for the first places makes one for a place more.
LEMMA FoldExists ==
  ASSUME NEW m \in Entries, NEW batch \in Seq(Mutation)
  PROVE  \E it \in [SUBSET (1 .. Len(batch)) -> Entries] : IsFold(it, m, batch)
<1> DEFINE N == Len(batch)
           Step(g, s) == IF s = {} THEN m ELSE Mutate(g[s \ {Max(s)}], batch[Max(s)])
           Folds(k) == {g \in [SUBSET (1 .. k) -> Entries] :
                          \A s \in SUBSET (1 .. k) : g[s] = Step(g, s)}
           T == {k \in 0 .. N : Folds(k) = {}}
<1>1. N \in Nat /\ DOMAIN batch = 1 .. N /\ \A i \in 1 .. N : batch[i] \in Mutation
  OBVIOUS
<1>2. Folds(0) # {}
  <2> DEFINE g == [s \in SUBSET (1 .. 0) |-> m]
  <2>1. g \in [SUBSET (1 .. 0) -> Entries]
    OBVIOUS
  <2>2. \A s \in SUBSET (1 .. 0) : s = {}
    OBVIOUS
  <2>3. \A s \in SUBSET (1 .. 0) : g[s] = Step(g, s)
    BY <2>2
  <2> QED BY <2>1, <2>3
<1>3. ASSUME NEW k \in 1 .. N, Folds(k - 1) # {}
      PROVE  Folds(k) # {}
  <2>1. PICK g : g \in Folds(k - 1)
    BY <1>3
  <2>2. /\ g \in [SUBSET (1 .. k - 1) -> Entries]
        /\ \A s \in SUBSET (1 .. k - 1) : g[s] = Step(g, s)
    BY <2>1
  <2> DEFINE more == [s \in SUBSET (1 .. k) |->
                        IF k \in s THEN Mutate(g[s \ {k}], batch[k]) ELSE g[s]]
  <2>3. \A s \in SUBSET (1 .. k) : /\ s \ {k} \in SUBSET (1 .. k - 1)
                                   /\ k \notin s => s \in SUBSET (1 .. k - 1)
    OBVIOUS
  <2>4. more \in [SUBSET (1 .. k) -> Entries]
    BY <1>1, <2>2, <2>3, MutateChanges
  <2>5. ASSUME NEW s \in SUBSET (1 .. k)
        PROVE  more[s] = Step(more, s)
    <3>1. CASE k \in s
      <4>1. Max(s) = k
        <5>1. k \in Nat /\ s # {}
          BY <1>1, <3>1
        <5>2. Max(s) \in s /\ \A i \in s : i <= Max(s)
          BY <5>1, GreatestElement
        <5>3. Max(s) \in 1 .. k /\ k <= Max(s)
          BY <3>1, <5>2
        <5> QED BY <5>1, <5>3
      <4>2. s \ {k} \in SUBSET (1 .. k) /\ k \notin s \ {k}
        OBVIOUS
      <4>3. more[s \ {k}] = g[s \ {k}]
        BY <4>2
      <4> QED BY <3>1, <4>1, <4>3
    <3>2. CASE k \notin s /\ s # {}
      <4>1. Max(s) \in s
        <5>1. k \in Nat
          BY <1>1
        <5> QED BY <3>2, <5>1, GreatestElement
      <4> DEFINE r == s \ {Max(s)}
      <4>2. r \in SUBSET (1 .. k) /\ k \notin r
        BY <3>2
      <4>3. more[r] = g[r] /\ more[s] = g[s]
        BY <3>2, <4>2
      <4>4. g[s] = Mutate(g[r], batch[Max(s)])
        BY <2>2, <2>3, <3>2
      <4> QED BY <3>2, <4>3, <4>4
    <3>3. CASE s = {}
      <4>1. more[s] = g[s]
        BY <3>3
      <4>2. g[s] = m
        BY <2>2, <2>3, <3>3
      <4> QED BY <3>3, <4>1, <4>2
    <3> QED BY <3>1, <3>2, <3>3
  <2> HIDE DEF more
  <2> QED BY <2>4, <2>5
<1> HIDE DEF Folds
<1>4. T = {}
  <2> SUFFICES ASSUME T # {} PROVE FALSE
    OBVIOUS
  <2>0. T \in SUBSET Nat
    BY <1>1
  <2>1. PICK n \in T : \A k \in T : n <= k
    <3> HIDE DEF T
    <3> QED BY <2>0, LeastElement
  <2>2. n \in 1 .. N
    BY <1>1, <1>2, <2>1
  <2>3. n - 1 \in 0 .. N /\ n - 1 \notin T
    BY <1>1, <2>1, <2>2
  <2> QED BY <1>3, <2>1, <2>2, <2>3
<1>5. Folds(N) # {}
  BY <1>1, <1>4
<1>6. PICK f : f \in Folds(N)
  BY <1>5
<1>7. IsFold(f, m, batch)
  BY <1>1, <1>6 DEF Folds, IsFold
<1> QED BY <1>6, <1>7 DEF Folds

\* The maps on the way, one mutation after the other.
LEMMA ApplyGoesOn ==
  ASSUME NEW m \in Entries, NEW batch \in Seq(Mutation)
  PROVE  \E f \in [0 .. Len(batch) -> Entries] :
           /\ f[0] = m
           /\ \A n \in 1 .. Len(batch) : f[n] = Mutate(f[n - 1], batch[n])
           /\ Apply(m, batch) = f[Len(batch)]
<1> DEFINE N == Len(batch)
           it == CHOOSE it : IsFold(it, m, batch)
           f == [n \in 0 .. N |-> it[1 .. n]]
<1>1. N \in Nat /\ DOMAIN batch = 1 .. N
  OBVIOUS
<1>2. PICK g \in [SUBSET (1 .. N) -> Entries] : IsFold(g, m, batch)
  BY FoldExists
<1>3. IsFold(it, m, batch)
  BY <1>2
<1> HIDE DEF it
<1>4. it = [s \in SUBSET (1 .. N) |->
              IF s = {} THEN m ELSE Mutate(it[s \ {Max(s)}], batch[Max(s)])]
  BY <1>1, <1>3 DEF IsFold
<1>5. \A n \in 0 .. N : 1 .. n \in SUBSET (1 .. N)
  BY <1>1
<1>6. f[0] = m
  <2>1. 1 .. 0 = {} /\ {} \in SUBSET (1 .. N)
    OBVIOUS
  <2>2. it[{}] = m
    BY <1>4, <2>1
  <2> QED BY <1>1, <2>1, <2>2
<1>7. \A n \in 1 .. N : f[n] = Mutate(f[n - 1], batch[n])
  <2> SUFFICES ASSUME NEW n \in 1 .. N
               PROVE  f[n] = Mutate(f[n - 1], batch[n])
    OBVIOUS
  <2> DEFINE s == 1 .. n
  <2>1. s \in SUBSET (1 .. N) /\ s # {} /\ n \in s
    BY <1>1
  <2>2. Max(s) = n
    <3>1. Max(s) \in s /\ \A i \in s : i <= Max(s)
      BY <1>1, <2>1, GreatestElement
    <3> QED BY <2>1, <3>1
  <2>3. s \ {n} = 1 .. n - 1
    OBVIOUS
  <2>4. it[s] = Mutate(it[s \ {Max(s)}], batch[Max(s)])
    BY <1>4, <2>1
  <2> HIDE DEF s
  <2>5. it[s] = Mutate(it[1 .. n - 1], batch[n])
    BY <2>2, <2>3, <2>4
  <2>6. f[n] = it[s] /\ f[n - 1] = it[1 .. n - 1]
    BY <1>1 DEF s
  <2> QED BY <2>5, <2>6
<1>8. \A n \in 0 .. N : f[n] \in Entries
  <2> DEFINE T == {n \in 0 .. N : f[n] \notin Entries}
  <2> SUFFICES ASSUME T # {} PROVE FALSE
    OBVIOUS
  <2>0. T \in SUBSET Nat
    BY <1>1
  <2>1. PICK n \in T : \A k \in T : n <= k
    <3> HIDE DEF T
    <3> QED BY <2>0, LeastElement
  <2> HIDE DEF f
  <2>2. n \in 1 .. N
    BY <1>1, <1>6, <2>1
  <2>3. f[n - 1] \in Entries
    BY <1>1, <2>1, <2>2
  <2>4. batch[n] \in Mutation
    BY <1>1, <2>2
  <2> QED BY <1>7, <2>1, <2>2, <2>3, <2>4, MutateChanges
<1>9. f \in [0 .. N -> Entries]
  BY <1>8
<1>10. Apply(m, batch) = f[N]
  BY <1>1, ApplyIsFold DEF it
<1> HIDE DEF f
<1> QED BY <1>6, <1>7, <1>9, <1>10

\* A batch makes a map of a map.
LEMMA ApplyType ==
  ASSUME NEW m \in Entries, NEW batch \in Seq(Mutation)
  PROVE  Apply(m, batch) \in Entries
<1>1. Len(batch) \in Nat
  OBVIOUS
<1> QED BY <1>1, ApplyGoesOn

\* Of the mutations of a key in a batch the last one counts.
LEMMA LastMutationCounts ==
  ASSUME NEW m \in Entries, NEW batch \in Seq(Mutation), NEW k \in Key
  PROVE  LET mine == {j \in 1 .. Len(batch) : batch[j].key = k}
         IN Lookup(Apply(m, batch), k) =
              IF mine = {} THEN Lookup(m, k) ELSE batch[Max(mine)].value
<1> DEFINE N == Len(batch)
           mine == {j \in 1 .. N : batch[j].key = k}
           last == IF mine = {} THEN 0 ELSE Max(mine)
<1>1. N \in Nat /\ \A n \in 1 .. N : batch[n] \in Mutation
  OBVIOUS
<1>2. PICK f \in [0 .. N -> Entries] :
        /\ f[0] = m
        /\ \A n \in 1 .. N : f[n] = Mutate(f[n - 1], batch[n])
        /\ Apply(m, batch) = f[N]
  BY ApplyGoesOn
<1>3. /\ last \in 0 .. N /\ \A j \in mine : j <= last
      /\ mine # {} => last \in mine /\ last = Max(mine)
      /\ mine = {} => last = 0
  <2>1. CASE mine = {}
    BY <1>1, <2>1
  <2>2. CASE mine # {}
    <3>1. mine \in SUBSET (1 .. N)
      OBVIOUS
    <3>2. Max(mine) \in mine /\ \A j \in mine : j <= Max(mine)
      <4> HIDE DEF mine, N
      <4> QED BY <1>1, <2>2, <3>1, GreatestElement
    <3> QED BY <1>1, <2>2, <3>1, <3>2
  <2> QED BY <2>1, <2>2
<1>4. \A n \in 1 .. N : Lookup(f[n], k) = IF n \in mine THEN batch[n].value
                                                        ELSE Lookup(f[n - 1], k)
  <2> SUFFICES ASSUME NEW n \in 1 .. N
               PROVE  Lookup(f[n], k) = IF n \in mine THEN batch[n].value
                                                      ELSE Lookup(f[n - 1], k)
    OBVIOUS
  <2>1. f[n - 1] \in Entries /\ batch[n] \in Mutation
    BY <1>1
  <2> QED BY <1>2, <2>1, MutateChanges
<1> HIDE DEF last, mine
<1>5. \A n \in last .. N : Lookup(f[n], k) = Lookup(f[last], k)
  <2> DEFINE T == {n \in last .. N : Lookup(f[n], k) # Lookup(f[last], k)}
  <2> SUFFICES ASSUME T # {} PROVE FALSE
    OBVIOUS
  <2>0. T \in SUBSET Nat
    BY <1>1, <1>3
  <2>1. PICK n \in T : \A i \in T : n <= i
    <3> HIDE DEF T
    <3> QED BY <2>0, LeastElement
  <2>2. n \in last + 1 .. N /\ n - 1 \in last .. N
    BY <1>1, <1>3, <2>1
  <2>3. n \notin mine /\ n \in 1 .. N
    BY <1>1, <1>3, <2>2
  <2>4. Lookup(f[n - 1], k) = Lookup(f[last], k)
    BY <1>1, <1>3, <2>1, <2>2
  <2> QED BY <1>4, <2>1, <2>3, <2>4
<1>6. Lookup(Apply(m, batch), k) = Lookup(f[last], k)
  BY <1>1, <1>2, <1>3, <1>5
<1>7. CASE mine = {}
  BY <1>2, <1>3, <1>6, <1>7 DEF mine
<1>8. CASE mine # {}
  <2>1. last \in 1 .. N /\ last \in mine /\ last = Max(mine)
    BY <1>3, <1>8 DEF mine
  <2>2. Lookup(f[last], k) = batch[last].value
    BY <1>4, <2>1
  <2> QED BY <1>6, <1>8, <2>1, <2>2 DEF mine
<1> QED BY <1>7, <1>8

----------------------------------------------------------------------------
(* The maps are maps, and the log tells how they came about *)

\* A table answers with a value or nothing.
LEMMA LookupType ==
  ASSUME NEW m \in Entries, NEW k \in Key
  PROVE  Lookup(m, k) \in Value \cup {NoValue}
  BY DEF Entries, Lookup

\* The table of a process that starts is a map.
LEMMA NothingIsAMap == NoEntries \in Entries
  BY DEF NoEntries, Entries

\* No step breaks the types.
LEMMA TypeStep ==
  ASSUME DatabaseInv, TypeOK, [Next]_vars, ShapeOK'
  PROVE  TypeOK'
<1>0. Batch \subseteq Seq(Mutation)
  BY DatabaseAssumption
<1>1. CASE Open
  BY <1>1, NothingIsAMap DEF Open, disk, TypeOK
<1>2. CASE ReplayRecord
  <2>1. offset + 1 \in 1 .. Len(wal) /\ wal \in Seq(Record)
    BY <1>2 DEF ReplayRecord, HasNextRecord, TypeOK, ShapeOK
  <2>2. wal[offset + 1] \in Record
    BY <2>1
  <2>3. wal[offset + 1].batch \in Seq(Mutation)
    BY <1>0, <2>2 DEF Record
  <2> QED BY <1>2, <2>3, ApplyType DEF ReplayRecord, disk, TypeOK
<1>3. ASSUME NEW f \in Fiber, FinishWrite(f)
      PROVE  TypeOK'
  <2>1. calls[f].batch \in Seq(Mutation)
    BY <1>0, <1>3 DEF FinishWrite, IsWriting, TypeOK, ShapeOK, Call, NoCall
  <2>2. history \in Seq(Entries) /\ Last(history) \in Entries
    BY DEF TypeOK, DatabaseInv, Chained, Last
  <2>3. history' \in Seq(Entries)
    BY <1>3, <2>1, <2>2, ApplyType DEF FinishWrite
  <2>4. mem_table' \in Entries
    BY <1>3, <2>1, ApplyType DEF FinishWrite, TypeOK
  <2> QED BY <1>3, <2>3, <2>4 DEF FinishWrite, TypeOK
<1>4. ASSUME NEW f \in Fiber, Get(f)
      PROVE  TypeOK'
  BY <1>4, LookupType DEF Get, disk, TypeOK
<1>5. ASSUME NEW f \in Fiber, GetAfterMiss(f)
      PROVE  TypeOK'
  <2>1. calls[f].key \in Key
    BY <1>5 DEF GetAfterMiss, TypeOK, ShapeOK, Call, NoCall
  <2> QED BY <1>5, <2>1, LookupType DEF GetAfterMiss, disk, TypeOK
<1>6. CASE MakeSnapshot
  <2>1. [entries |-> mem_table, version |-> version] \in Snapshot
    BY DEF TypeOK, ShapeOK, Snapshot
  <2> QED BY <1>6, <2>1 DEF MakeSnapshot, disk, TypeOK
<1>7. CASE Crash
  BY <1>7, NothingIsAMap DEF Crash, disk, TypeOK
<1>8. CASE UNCHANGED <<mem_table, result, snapshots, history>>
  BY <1>8 DEF TypeOK
<1> QED
  BY <1>1, <1>2, <1>3, <1>4, <1>5, <1>6, <1>7, <1>8
  DEF Next, Serve, FinishReplay, FinishPrepare, BeginWrite, Lock, AppendPart,
      MissCache, disk, vars

\* Tables, snapshots, results and the history hold keys and values and nothing
\* else (db/database.hpp).
THEOREM TypeCorrect == Spec => []TypeOK
<1>1. Init => TypeOK
  <2>1. Init => ShapeOK
    BY InitInv DEF DatabaseInv
  <2> QED BY <2>1, NothingIsAMap DEF Init, TypeOK
<1>2. DatabaseInv /\ DatabaseInv' /\ TypeOK /\ [Next]_vars => TypeOK'
  BY TypeStep DEF DatabaseInv
<1> QED BY <1>1, <1>2, InvHolds, PTL DEF Spec

\* What the log file says of each map is what the table of the database was made
\* by (Database::ApplyToMemTable, MemTable::Put and Delete).
THEOREM LogIsTrue == Spec => []LogTellsHistory
<1>1. DatabaseInv /\ TypeOK => LogTellsHistory
  <2> SUFFICES ASSUME DatabaseInv, TypeOK,
                      NEW i \in 1 .. Len(history) - 1, NEW k \in Key
               PROVE  LET batch == wal[i].batch
                          mine == {j \in 1 .. Len(batch) : batch[j].key = k}
                      IN Lookup(history[i + 1], k) =
                           IF mine = {} THEN Lookup(history[i], k)
                                        ELSE batch[Max(mine)].value
    BY DEF LogTellsHistory
  <2>1. Len(history) \in Nat /\ Len(wal) \in Nat /\ wal \in Seq(Record)
    BY DEF TypeOK, ShapeOK
  <2>2. i \in 1 .. Len(wal)
    BY <2>1 DEF DatabaseInv, TornRecordIsLast
  <2>3. wal[i].batch \in Seq(Mutation)
    <3>1. wal[i] \in Record
      BY <2>1, <2>2
    <3> QED BY <3>1, DatabaseAssumption DEF Record
  <2>4. history[i] \in Entries
    BY <2>1 DEF TypeOK
  <2>5. history[i + 1] = Apply(history[i], wal[i].batch)
    BY DEF DatabaseInv, Chained
  <2> QED BY <2>3, <2>4, <2>5, LastMutationCounts, ZenonT(40)
<1> QED BY <1>1, InvHolds, TypeCorrect, PTL

----------------------------------------------------------------------------
(* Scans *)

\* Places of the keys are apart, and so are the pairs at them.
LEMMA PairsAreApart ==
  ASSUME NEW it, EntriesOf(it) \in Entries, NEW i \in DOMAIN KeyOrder
  PROVE  /\ Pair(it, i) \in Key \X (Value \cup {NoValue})
         /\ \A j \in DOMAIN KeyOrder : Pair(it, i) = Pair(it, j) => i = j
<1>1. KeyOrder[i] \in Key
  BY IteratorAssumption
<1>2. \A j \in DOMAIN KeyOrder : KeyOrder[i] = KeyOrder[j] => i = j
  BY IteratorAssumption DEF IsInjective
<1> QED BY <1>1, <1>2, LookupType DEF Pair

\* A set of places has a first one.
LEMMA FirstPlace ==
  ASSUME NEW T \in SUBSET Nat, T # {}
  PROVE  Min(T) \in T /\ \A m \in T : Min(T) <= m
<1>1. \E x \in T : \A y \in T : x <= y
  BY LeastElement
<1> QED BY <1>1 DEF Min

\* A scan that reads the pair behind those it has read.
LEMMA ReadsOn ==
  ASSUME NEW it, NEW S, it.seen \in Seq(S), EntriesOf(it) \in Entries,
         NEW P \in SUBSET DOMAIN KeyOrder, HasRead(it, P),
         NEW p \in DOMAIN KeyOrder, \A j \in P : Before(it, j, p), Pair(it, p) \in S,
         NEW more, more.seen = Append(it.seen, Pair(it, p)),
         more.snapshot = it.snapshot, more.down = it.down
  PROVE  HasRead(more, P \cup {p})
<1> DEFINE N == Len(it.seen)
<1>1. /\ N \in Nat /\ DOMAIN it.seen = 1 .. N /\ DOMAIN more.seen = 1 .. N + 1
      /\ \A n \in 1 .. N : more.seen[n] = it.seen[n]
      /\ more.seen[N + 1] = Pair(it, p)
  OBVIOUS
<1>2. \A i : Pair(more, i) = Pair(it, i)
  BY DEF Pair, EntriesOf
<1>3. \A i, j : Before(more, i, j) <=> Before(it, i, j)
  BY DEF Before
<1>4. /\ ~Before(it, p, p) /\ p \notin P
      /\ \A i \in P : ~Before(it, p, i)
  BY IteratorAssumption DEF Before
<1>5. \A n \in 1 .. N : \E i \in P :
        /\ it.seen[n] = Pair(it, i)
        /\ \A j \in P : Before(it, j, i) <=> \E m \in 1 .. n - 1 : it.seen[m] = Pair(it, j)
  BY <1>1 DEF HasRead
<1>6. \A i \in P : \E n \in 1 .. N : it.seen[n] = Pair(it, i)
  BY <1>1 DEF HasRead
<1>7. \A n \in 1 .. N : it.seen[n] # Pair(it, p)
  BY <1>4, <1>5, PairsAreApart
<1> HIDE DEF N
<1>8. ASSUME NEW n \in 1 .. N + 1
      PROVE  \E i \in P \cup {p} :
               /\ more.seen[n] = Pair(it, i)
               /\ \A j \in P \cup {p} :
                    Before(it, j, i) <=> \E m \in 1 .. n - 1 : more.seen[m] = Pair(it, j)
  <2>1. CASE n \in 1 .. N
    <3>1. PICK i \in P :
            /\ it.seen[n] = Pair(it, i)
            /\ \A j \in P :
                 Before(it, j, i) <=> \E m \in 1 .. n - 1 : it.seen[m] = Pair(it, j)
      BY <1>5, <2>1
    <3>2. \A m \in 1 .. n - 1 : m \in 1 .. N /\ more.seen[m] = it.seen[m]
      BY <1>1, <2>1
    <3>3. \A j \in P \cup {p} :
            Before(it, j, i) <=> \E m \in 1 .. n - 1 : more.seen[m] = Pair(it, j)
      BY <1>4, <1>7, <3>1, <3>2
    <3> QED BY <1>1, <2>1, <3>1, <3>3
  <2>2. CASE n = N + 1
    <3>1. n - 1 = N
      BY <1>1, <2>2
    <3>2. \A j \in P \cup {p} :
            Before(it, j, p) <=> \E m \in 1 .. N : more.seen[m] = Pair(it, j)
      BY <1>1, <1>4, <1>6, <1>7
    <3> QED BY <1>1, <2>2, <3>1, <3>2
  <2> QED BY <1>1, <2>1, <2>2
<1>9. \A i \in P \cup {p} : \E n \in 1 .. N + 1 : more.seen[n] = Pair(it, i)
  BY <1>1, <1>6
<1>10. \A n \in DOMAIN more.seen : \E i \in P \cup {p} :
         /\ more.seen[n] = Pair(more, i)
         /\ \A j \in P \cup {p} :
              Before(more, j, i) <=> \E m \in 1 .. n - 1 : more.seen[m] = Pair(more, j)
  <2> TAKE n \in DOMAIN more.seen
  <2>1. n \in 1 .. N + 1
    BY <1>1
  <2>2. PICK i \in P \cup {p} :
          /\ more.seen[n] = Pair(it, i)
          /\ \A j \in P \cup {p} :
               Before(it, j, i) <=> \E m \in 1 .. n - 1 : more.seen[m] = Pair(it, j)
    BY <1>8, <2>1
  <2> QED BY <1>2, <1>3, <2>2
<1>11. \A i \in P \cup {p} : \E n \in DOMAIN more.seen : more.seen[n] = Pair(more, i)
  BY <1>1, <1>2, <1>9
<1> QED BY <1>10, <1>11 DEF HasRead

\* What a scan has read does not depend on where it is.
LEMMA ReadsTheSame ==
  ASSUME NEW it, NEW P, HasRead(it, P),
         NEW to, to.seen = it.seen, to.snapshot = it.snapshot, to.down = it.down
  PROVE  HasRead(to, P)
<1>1. \A i : Pair(to, i) = Pair(it, i)
  BY DEF Pair, EntriesOf
<1>2. \A i, j : Before(to, i, j) <=> Before(it, i, j)
  BY DEF Before
<1> QED BY <1>1, <1>2 DEF HasRead

\* What is left to read.
Rest(it, P) == {i \in Places(it) : i >= it.low} \ P

\* Moving to the next key that has a value passes none by (Iterator::Next, Prev).
LEMMA MovesOn ==
  ASSUME TypeOK, snapshots' = snapshots,
         NEW it \in Scans, ~it.waits, it.down => it.low = 1,
         NEW P \in SUBSET Places(it), \A i \in P : i >= it.low, HasRead(it, P),
         \A i \in P, j \in Rest(it, P) : Before(it, i, j),
         \/ Rest(it, P) = {} /\ Leave(it)
         \/ \E p \in Rest(it, P) :
              /\ \A j \in Rest(it, P) : j = p \/ Before(it, p, j)
              /\ MoveTo(it, p)
  PROVE  IteratorInv'
<1> DEFINE S == Key \X (Value \cup {NoValue})
<1>1. /\ it.snapshot \in snapshots /\ it.low \in Nat /\ it.down \in BOOLEAN
      /\ it.waits = FALSE /\ it.seen \in Seq(S)
  BY DEF Scans
<1>2. EntriesOf(it) \in Entries
  BY <1>1 DEF TypeOK, Snapshot, EntriesOf
<1>3. Places(it) \subseteq DOMAIN KeyOrder /\ DOMAIN KeyOrder \subseteq Nat
  BY IteratorAssumption DEF Places
<1>4. \A to : to.snapshot = it.snapshot => Places(to) = Places(it)
  BY DEF Places, EntriesOf
<1>5. ASSUME Rest(it, P) = {}, Leave(it)
      PROVE  IteratorInv'
  <2> DEFINE to == [it EXCEPT !.valid = FALSE]
  <2>1. /\ to \in Scans /\ to.snapshot = it.snapshot /\ to.valid = FALSE
        /\ to.waits = FALSE /\ to.down = it.down /\ to.low = it.low /\ to.seen = it.seen
    BY <1>1 DEF Scans
  <2>2. iterator' = to
    BY <1>5 DEF Leave
  <2> HIDE DEF to
  <2>3. Passed(to) = P
    BY <1>4, <1>5, <2>1 DEF Passed, Rest
  <2>4. HasRead(to, P)
    BY <2>1, ReadsTheSame
  <2> QED BY <2>1, <2>2, <2>3, <2>4 DEF IteratorInv, Scans
<1>6. ASSUME NEW p \in Rest(it, P), \A j \in Rest(it, P) : j = p \/ Before(it, p, j),
             MoveTo(it, p)
      PROVE  IteratorInv'
  <2>1. p \in Places(it) /\ p \in DOMAIN KeyOrder /\ p \in Nat /\ p >= it.low /\ p \notin P
    BY <1>3 DEF Rest
  <2>2. Pair(it, p) \in S
    BY <1>2, <2>1, PairsAreApart
  <2>3. \A i \in Places(it) : i >= it.low => (Before(it, i, p) <=> i \in P)
    <3>1. \A i \in P : Before(it, i, p)
      BY <1>6
    <3>2. \A i \in Rest(it, P) : ~Before(it, i, p)
      <4> TAKE i \in Rest(it, P)
      <4>1. i \in Nat
        BY <1>3 DEF Rest
      <4> QED BY <1>6, <2>1, <4>1 DEF Before
    <3> QED BY <3>1, <3>2 DEF Rest
  <2>4. CASE iterator' = [it EXCEPT !.valid = TRUE, !.at = p,
                                    !.seen = Append(@, Pair(it, p))]
    <3> DEFINE to == [it EXCEPT !.valid = TRUE, !.at = p,
                                !.seen = Append(@, Pair(it, p))]
    <3>1. Append(it.seen, Pair(it, p)) \in Seq(S)
      BY <1>1, <2>2
    <3>2. /\ to \in Scans /\ to.snapshot = it.snapshot /\ to.valid = TRUE /\ to.at = p
          /\ to.waits = FALSE /\ to.down = it.down /\ to.low = it.low
          /\ to.seen = Append(it.seen, Pair(it, p))
      BY <1>1, <2>1, <3>1 DEF Scans
    <3> HIDE DEF to
    <3>3. HasRead(to, P \cup {p})
      BY <1>1, <1>2, <1>3, <1>6, <2>1, <2>2, <3>2, ReadsOn
    <3>4. \A i, j : Before(to, i, j) <=> Before(it, i, j)
      BY <3>2 DEF Before
    <3>5. Passed(to) = P \cup {p}
      BY <1>4, <2>1, <2>3, <3>2, <3>4 DEF Passed
    <3> QED BY <1>4, <2>1, <2>4, <3>2, <3>3, <3>5 DEF IteratorInv, Scans, to
  <2>5. CASE iterator' = [it EXCEPT !.valid = TRUE, !.at = p, !.waits = TRUE]
    <3> DEFINE to == [it EXCEPT !.valid = TRUE, !.at = p, !.waits = TRUE]
    <3>1. /\ to \in Scans /\ to.snapshot = it.snapshot /\ to.valid = TRUE /\ to.at = p
          /\ to.waits = TRUE /\ to.down = it.down /\ to.low = it.low /\ to.seen = it.seen
      BY <1>1, <2>1 DEF Scans
    <3> HIDE DEF to
    <3>2. HasRead(to, P)
      BY <3>1, ReadsTheSame
    <3>3. \A i, j : Before(to, i, j) <=> Before(it, i, j)
      BY <3>1 DEF Before
    <3>4. Passed(to) = P
      BY <1>4, <2>1, <2>3, <3>1, <3>3 DEF Passed
    <3> QED BY <1>4, <2>1, <2>5, <3>1, <3>2, <3>4 DEF IteratorInv, Scans, to
  <2> QED BY <1>6, <2>4, <2>5 DEF MoveTo
<1> QED BY <1>5, <1>6

\* The places of an iterator that has read the pair it is at.
LEMMA ReadSoFar ==
  ASSUME IteratorInv, iterator # NoIterator, iterator.valid, ~iterator.waits
  PROVE  /\ Passed(iterator) \subseteq Places(iterator)
         /\ \A i \in Passed(iterator) : i >= iterator.low
         /\ Rest(iterator, Passed(iterator)) =
              {i \in Places(iterator) : i >= iterator.low /\ Before(iterator, iterator.at, i)}
         /\ \A i \in Passed(iterator), j \in Rest(iterator, Passed(iterator)) :
              Before(iterator, i, j)
<1>1. /\ Places(iterator) \subseteq Nat /\ iterator.at \in Nat
      /\ iterator.down \in BOOLEAN
  BY IteratorAssumption DEF Places, IteratorInv, Scans
<1>2. /\ Passed(iterator) = {i \in Places(iterator) :
            i >= iterator.low /\ (Before(iterator, i, iterator.at) \/ i = iterator.at)}
  BY DEF Passed
<1>3. Rest(iterator, Passed(iterator)) =
        {i \in Places(iterator) : i >= iterator.low /\ Before(iterator, iterator.at, i)}
  BY <1>1, <1>2 DEF Rest, Before
<1>4. ASSUME NEW i \in Passed(iterator), NEW j \in Rest(iterator, Passed(iterator))
      PROVE  Before(iterator, i, j)
  <2>1. i \in Nat /\ j \in Nat
    BY <1>1, <1>2, <1>3
  <2> QED BY <1>1, <1>2, <1>3, <2>1 DEF Before
<1> QED BY <1>2, <1>3, <1>4

\* A move to the first or the last of the places that are left.
LEMMA MovesToFirst ==
  ASSUME NEW it, ~it.down, NEW P, Places(it) \subseteq Nat,
         MoveToFirst(it, Rest(it, P))
  PROVE  \/ Rest(it, P) = {} /\ Leave(it)
         \/ \E p \in Rest(it, P) :
              /\ \A j \in Rest(it, P) : j = p \/ Before(it, p, j)
              /\ MoveTo(it, p)
<1> DEFINE R == Rest(it, P)
<1>1. R \in SUBSET Nat
  BY DEF Rest
<1> HIDE DEF R
<1>2. CASE R = {}
  BY <1>2 DEF R, MoveToFirst
<1>3. CASE R # {}
  <2>1. Min(R) \in R /\ \A j \in R : Min(R) <= j
    BY <1>1, <1>3, FirstPlace
  <2>2. MoveTo(it, Min(R))
    BY <1>3 DEF R, MoveToFirst
  <2>3. Min(R) \in Nat /\ \A j \in R : j \in Nat
    BY <1>1, <2>1
  <2>4. \A j \in R : j = Min(R) \/ Before(it, Min(R), j)
    BY <2>1, <2>3 DEF Before
  <2> QED BY <2>1, <2>2, <2>4 DEF R
<1> QED BY <1>2, <1>3

\* SeekToLast goes to the last key that has a value.
LEMMA MovesToLast ==
  ASSUME NEW it, it.down, NEW P, Places(it) \subseteq DOMAIN KeyOrder,
         MoveToLast(it, Rest(it, P))
  PROVE  \/ Rest(it, P) = {} /\ Leave(it)
         \/ \E p \in Rest(it, P) :
              /\ \A j \in Rest(it, P) : j = p \/ Before(it, p, j)
              /\ MoveTo(it, p)
<1> DEFINE R == Rest(it, P)
           N == Len(KeyOrder)
<1>1. N \in Nat /\ R \in SUBSET (1 .. N) /\ \A j \in R : j \in Nat
  BY IteratorAssumption DEF Rest
<1> HIDE DEF R, N
<1>2. CASE R = {}
  BY <1>2 DEF R, MoveToLast
<1>3. CASE R # {}
  <2>1. Max(R) \in R /\ \A j \in R : j <= Max(R)
    BY <1>1, <1>3, GreatestElement
  <2>2. MoveTo(it, Max(R))
    BY <1>3 DEF R, MoveToLast
  <2>3. Max(R) \in Nat /\ \A j \in R : j \in Nat
    BY <1>1, <2>1
  <2>4. \A j \in R : j = Max(R) \/ Before(it, Max(R), j)
    BY <2>1, <2>3 DEF Before
  <2> QED BY <2>1, <2>2, <2>4 DEF R
<1> QED BY <1>2, <1>3

\* A scan that begins has read nothing.
LEMMA ScanBegins ==
  ASSUME NEW s \in snapshots, NEW down \in BOOLEAN, NEW low \in Nat
  PROVE  LET it == Scan(s, down, low) IN
         /\ it \in Scans /\ it.waits = FALSE /\ it.down = down /\ it.low = low
         /\ HasRead(it, {})
         /\ Places(it) \subseteq DOMAIN KeyOrder /\ DOMAIN KeyOrder \subseteq Nat
         /\ Rest(it, {}) = {i \in Places(it) : i >= low}
<1> DEFINE it == Scan(s, down, low)
<1>1. /\ it \in Scans /\ it.waits = FALSE /\ it.down = down /\ it.low = low
      /\ it.seen = <<>>
  BY DEF Scan, Scans
<1> HIDE DEF it
<1>2. HasRead(it, {})
  BY <1>1 DEF HasRead
<1>3. Places(it) \subseteq DOMAIN KeyOrder /\ DOMAIN KeyOrder \subseteq Nat
  BY IteratorAssumption DEF Places
<1> QED BY <1>1, <1>2, <1>3 DEF Rest, it

\* No step of the iterator makes it miss a key or meet one twice.
LEMMA IteratorStep ==
  ASSUME TypeOK, IteratorInv, [IteratorNext]_iteratorVars
  PROVE  IteratorInv'
<1>0. DOMAIN KeyOrder \subseteq Nat /\ \A i \in DOMAIN KeyOrder : i >= 1
  BY IteratorAssumption
<1>1. CASE SeekToFirst
  <2>1. PICK s \in snapshots :
          LET it == Scan(s, FALSE, 1) IN MoveToFirst(it, Places(it))
    BY <1>1 DEF SeekToFirst
  <2> DEFINE it == Scan(s, FALSE, 1)
  <2>2. /\ it \in Scans /\ it.waits = FALSE /\ it.down = FALSE /\ it.low = 1
        /\ HasRead(it, {}) /\ Places(it) \subseteq DOMAIN KeyOrder
        /\ Rest(it, {}) = {i \in Places(it) : i >= 1}
    BY ScanBegins, ZenonT(40)
  <2>3. MoveToFirst(it, Rest(it, {}))
    <3>1. Rest(it, {}) = Places(it)
      BY <1>0, <2>2
    <3> QED BY <2>1, <3>1
  <2> HIDE DEF it
  <2>4. snapshots' = snapshots
    BY <1>1 DEF SeekToFirst, vars
  <2>5. \/ Rest(it, {}) = {} /\ Leave(it)
        \/ \E p \in Rest(it, {}) :
             /\ \A j \in Rest(it, {}) : j = p \/ Before(it, p, j)
             /\ MoveTo(it, p)
    BY <1>0, <2>2, <2>3, MovesToFirst
  <2> QED BY <2>2, <2>4, <2>5, MovesOn
<1>2. CASE SeekToLast
  <2>1. PICK s \in snapshots :
          LET it == Scan(s, TRUE, 1) IN MoveToLast(it, Places(it))
    BY <1>2 DEF SeekToLast
  <2> DEFINE it == Scan(s, TRUE, 1)
  <2>2. /\ it \in Scans /\ it.waits = FALSE /\ it.down = TRUE /\ it.low = 1
        /\ HasRead(it, {}) /\ Places(it) \subseteq DOMAIN KeyOrder
        /\ Rest(it, {}) = {i \in Places(it) : i >= 1}
    BY ScanBegins, ZenonT(40)
  <2>3. MoveToLast(it, Rest(it, {}))
    <3>1. Rest(it, {}) = Places(it)
      BY <1>0, <2>2
    <3> QED BY <2>1, <3>1
  <2> HIDE DEF it
  <2>4. snapshots' = snapshots
    BY <1>2 DEF SeekToLast, vars
  <2>5. \/ Rest(it, {}) = {} /\ Leave(it)
        \/ \E p \in Rest(it, {}) :
             /\ \A j \in Rest(it, {}) : j = p \/ Before(it, p, j)
             /\ MoveTo(it, p)
    BY <1>0, <2>2, <2>3, MovesToLast
  <2> QED BY <2>2, <2>4, <2>5, MovesOn
<1>3. CASE Seek
  <2>1. PICK s \in snapshots, target \in DOMAIN KeyOrder :
          LET it == Scan(s, FALSE, target)
          IN MoveToFirst(it, {i \in Places(it) : i >= target})
    BY <1>3 DEF Seek
  <2> DEFINE it == Scan(s, FALSE, target)
  <2>2. /\ it \in Scans /\ it.waits = FALSE /\ it.down = FALSE /\ it.low = target
        /\ HasRead(it, {}) /\ Places(it) \subseteq DOMAIN KeyOrder
        /\ Rest(it, {}) = {i \in Places(it) : i >= target}
    BY <1>0, ScanBegins, ZenonT(40)
  <2>3. MoveToFirst(it, Rest(it, {}))
    BY <2>1, <2>2
  <2> HIDE DEF it
  <2>4. snapshots' = snapshots
    BY <1>3 DEF Seek, vars
  <2>5. \/ Rest(it, {}) = {} /\ Leave(it)
        \/ \E p \in Rest(it, {}) :
             /\ \A j \in Rest(it, {}) : j = p \/ Before(it, p, j)
             /\ MoveTo(it, p)
    BY <1>0, <2>2, <2>3, MovesToFirst
  <2> QED BY <2>2, <2>4, <2>5, MovesOn
<1>4. CASE NextKey \/ PrevKey
  <2> DEFINE P == Passed(iterator)
  <2>1. /\ iterator # NoIterator /\ iterator.valid /\ ~iterator.waits
        /\ snapshots' = snapshots
    BY <1>4 DEF NextKey, PrevKey, NoIterator, vars
  <2>2. /\ P \subseteq Places(iterator)
        /\ \A i \in P : i >= iterator.low
        /\ Rest(iterator, P) = {i \in Places(iterator) :
                                  i >= iterator.low /\ Before(iterator, iterator.at, i)}
        /\ \A i \in P, j \in Rest(iterator, P) : Before(iterator, i, j)
    BY <2>1, ReadSoFar
  <2>3. /\ iterator \in Scans /\ iterator.waits = FALSE
        /\ iterator.down => iterator.low = 1
        /\ iterator.at >= iterator.low /\ HasRead(iterator, P)
        /\ iterator.at \in Nat /\ iterator.low \in Nat
    BY <2>1 DEF IteratorInv, Scans
  <2>4. Places(iterator) \subseteq DOMAIN KeyOrder
    BY DEF Places
  <2> HIDE DEF P
  <2>5. CASE NextKey
    <3>1. Rest(iterator, P) = {i \in Places(iterator) : i > iterator.at}
      BY <1>0, <2>2, <2>3, <2>4, <2>5 DEF NextKey, Before
    <3>2. ~iterator.down /\ MoveToFirst(iterator, Rest(iterator, P))
      BY <2>5, <3>1 DEF NextKey
    <3> QED BY <1>0, <2>1, <2>2, <2>3, <2>4, <3>2, MovesToFirst, MovesOn
  <2>6. CASE PrevKey
    <3>1. Rest(iterator, P) = {i \in Places(iterator) : i < iterator.at}
      BY <1>0, <2>2, <2>3, <2>4, <2>6 DEF PrevKey, Before
    <3>2. iterator.down /\ MoveToLast(iterator, Rest(iterator, P))
      BY <2>6, <3>1 DEF PrevKey
    <3> QED BY <2>1, <2>2, <2>3, <2>4, <3>2, MovesToLast, MovesOn
  <2> QED BY <1>4, <2>5, <2>6
<1>5. CASE FinishMove
  <2> DEFINE it == iterator
             S == Key \X (Value \cup {NoValue})
             p == it.at
             to == [it EXCEPT !.waits = FALSE, !.seen = Append(@, Pair(it, p))]
  <2>1. it # NoIterator /\ it.waits /\ it.valid /\ snapshots' = snapshots /\ iterator' = to
    BY <1>5 DEF FinishMove, NoIterator, IteratorInv, vars
  <2>2. /\ it \in Scans /\ it.seen \in Seq(S) /\ it.snapshot \in snapshots
        /\ it.down => it.low = 1
        /\ p \in Places(it) /\ p >= it.low /\ HasRead(it, Passed(it))
    BY <2>1 DEF IteratorInv, Scans
  <2>3. EntriesOf(it) \in Entries /\ p \in DOMAIN KeyOrder
    BY <2>2 DEF TypeOK, Snapshot, EntriesOf, Places
  <2>4. Pair(it, p) \in S
    BY <2>3, PairsAreApart
  <2>5. Passed(it) = {i \in Places(it) : i >= it.low /\ Before(it, i, p)}
    BY <2>1 DEF Passed
  <2>6. Append(it.seen, Pair(it, p)) \in Seq(S)
    BY <2>2, <2>4
  <2>7. /\ to \in Scans /\ to.snapshot = it.snapshot /\ to.valid = it.valid
        /\ to.at = p /\ to.waits = FALSE /\ to.down = it.down /\ to.low = it.low
        /\ to.seen = Append(it.seen, Pair(it, p))
    BY <2>2, <2>6 DEF Scans
  <2> HIDE DEF to
  <2>8. Passed(it) \in SUBSET DOMAIN KeyOrder /\ \A j \in Passed(it) : Before(it, j, p)
    BY <2>5 DEF Places
  <2>9. HasRead(to, Passed(it) \cup {p})
    <3> HIDE DEF it, p, S
    <3> QED BY <2>2, <2>3, <2>4, <2>7, <2>8, ReadsOn
  <2>10. Places(to) = Places(it) /\ \A i, j : Before(to, i, j) <=> Before(it, i, j)
    BY <2>7 DEF Places, EntriesOf, Before
  <2>11. Passed(to) = Passed(it) \cup {p}
    BY <2>1, <2>2, <2>5, <2>7, <2>10 DEF Passed
  <2>12. Scans' = Scans
    BY <2>1 DEF Scans
  <2> HIDE DEF it, p
  <2>13. /\ to \in Scans'
         /\ to.down => to.low = 1
         /\ to.waits => to.valid
         /\ to.valid => to.at \in Places(to) /\ to.at >= to.low
         /\ HasRead(to, Passed(to))
    BY <2>2, <2>7, <2>9, <2>10, <2>11, <2>12
  <2> QED BY <2>1, <2>13 DEF IteratorInv
<1>6. CASE Elsewhere
  <2>1. CASE iterator' = NoIterator
    BY <2>1 DEF IteratorInv
  <2>2. CASE iterator' = iterator /\ phase' # "Closed"
    <3>1. Next /\ ~Crash
      BY <1>6, <2>2 DEF Elsewhere, Crash
    <3>2. snapshots \subseteq snapshots'
      BY <3>1 DEF Next, Serve, Open, ReplayRecord, FinishReplay, FinishPrepare,
                  BeginWrite, Lock, AppendPart, FinishWrite, Get, MissCache,
                  GetAfterMiss, MakeSnapshot
    <3>3. iterator \in Scans => iterator \in Scans'
      BY <3>2 DEF Scans
    <3> QED BY <2>2, <3>3 DEF IteratorInv
  <2> QED BY <1>6, <2>1, <2>2 DEF Elsewhere
<1>7. CASE UNCHANGED iteratorVars
  <2>1. Scans' = Scans /\ iterator' = iterator
    BY <1>7 DEF iteratorVars, vars, Scans
  <2> QED BY <2>1 DEF IteratorInv
<1> QED
  BY <1>1, <1>2, <1>3, <1>4, <1>5, <1>6, <1>7 DEF IteratorNext

\* What an iterator has read is of the past when its snapshot is.
LEMMA ReadOfThePast ==
  ASSUME TypeOK, SnapshotIsPast, IteratorInv
  PROVE  ScanIsOfThePast
<1> SUFFICES ASSUME iterator # NoIterator
             PROVE  /\ \A n \in DOMAIN iterator.seen : \E i \in Wanted(iterator) :
                         /\ IsSeen(iterator, n, i)
                         /\ \A j \in Wanted(iterator) :
                              Before(iterator, j, i) <=>
                                \E m \in 1 .. n - 1 : IsSeen(iterator, m, j)
                    /\ ~iterator.valid =>
                         \A i \in Wanted(iterator) :
                           \E n \in DOMAIN iterator.seen : IsSeen(iterator, n, i)
  BY DEF ScanIsOfThePast
<1>1. /\ iterator.snapshot \in snapshots /\ iterator.down \in BOOLEAN
      /\ iterator.at \in Nat /\ iterator.low \in Nat
      /\ HasRead(iterator, Passed(iterator))
      /\ DOMAIN KeyOrder \subseteq Nat
  BY IteratorAssumption DEF IteratorInv, Scans
<1>2. Past(iterator.snapshot) = EntriesOf(iterator) /\ EntriesOf(iterator) \in Entries
  BY <1>1 DEF SnapshotIsPast, Past, EntriesOf, TypeOK, Snapshot
<1>3. Wanted(iterator) = {i \in Places(iterator) : i >= iterator.low}
  BY <1>2 DEF Wanted, Places
<1>4. \A n, i : i \in Wanted(iterator) =>
        (IsSeen(iterator, n, i) <=> iterator.seen[n] = Pair(iterator, i))
  BY <1>2 DEF IsSeen, Pair, Wanted, Lookup
<1>5. Passed(iterator) \subseteq Wanted(iterator) /\ Wanted(iterator) \subseteq DOMAIN KeyOrder
  BY <1>3 DEF Passed, Wanted
<1>6. \A i \in Passed(iterator), j \in Wanted(iterator) :
        Before(iterator, j, i) => j \in Passed(iterator)
  BY <1>1, <1>3, <1>5 DEF Passed, Before
<1>7. ASSUME NEW n \in DOMAIN iterator.seen
      PROVE  \E i \in Wanted(iterator) :
               /\ IsSeen(iterator, n, i)
               /\ \A j \in Wanted(iterator) :
                    Before(iterator, j, i) <=>
                      \E m \in 1 .. n - 1 : IsSeen(iterator, m, j)
  <2>1. PICK i \in Passed(iterator) :
          /\ iterator.seen[n] = Pair(iterator, i)
          /\ \A j \in Passed(iterator) :
               Before(iterator, j, i) <=>
                 \E m \in 1 .. n - 1 : iterator.seen[m] = Pair(iterator, j)
    BY <1>1 DEF HasRead
  <2>2. ASSUME NEW j \in Wanted(iterator), NEW m \in 1 .. n - 1,
               iterator.seen[m] = Pair(iterator, j)
        PROVE  j \in Passed(iterator)
    <3>1. m \in DOMAIN iterator.seen
      <4>1. iterator.seen \in Seq(Key \X (Value \cup {NoValue}))
        BY DEF IteratorInv, Scans
      <4> QED BY <4>1
    <3>2. PICK k \in Passed(iterator) : iterator.seen[m] = Pair(iterator, k)
      BY <1>1, <3>1 DEF HasRead
    <3> QED BY <1>2, <1>5, <2>2, <3>2, PairsAreApart
  <2>3. ASSUME NEW j \in Wanted(iterator)
        PROVE  Before(iterator, j, i) <=> \E m \in 1 .. n - 1 : IsSeen(iterator, m, j)
    BY <1>4, <1>6, <2>1, <2>2
  <2> QED BY <1>4, <1>5, <2>1, <2>3
<1>8. ASSUME ~iterator.valid, NEW i \in Wanted(iterator)
      PROVE  \E n \in DOMAIN iterator.seen : IsSeen(iterator, n, i)
  <2>1. i \in Passed(iterator)
    BY <1>3, <1>8 DEF Passed
  <2> QED BY <1>1, <1>4, <2>1 DEF HasRead
<1> QED BY <1>7, <1>8

\* A scan meets the keys and values the database had at the time of its snapshot,
\* each once and in order, and misses none (db/iterator.cpp:9-83).
THEOREM ScansAreOfThePast == IteratorSpec => []ScanIsOfThePast
<1>1. IteratorInit => Init /\ IteratorInv
  BY DEF IteratorInit, IteratorInv
<1>2. [IteratorNext]_iteratorVars => [Next]_vars
  BY DEF IteratorNext, SeekToFirst, SeekToLast, Seek, NextKey, PrevKey, FinishMove,
         Elsewhere, iteratorVars
<1>3. IteratorSpec => Spec
  BY <1>1, <1>2, PTL DEF IteratorSpec, Spec
<1>4. TypeOK /\ IteratorInv /\ [IteratorNext]_iteratorVars => IteratorInv'
  BY IteratorStep
<1>5. IteratorSpec => []IteratorInv
  BY <1>1, <1>3, <1>4, TypeCorrect, PTL DEF IteratorSpec
<1>6. TypeOK /\ SnapshotIsPast /\ IteratorInv => ScanIsOfThePast
  BY ReadOfThePast
<1> QED BY <1>3, <1>5, <1>6, TypeCorrect, SnapshotsAreConsistent, PTL
=============================================================================
