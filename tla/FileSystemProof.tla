-------------------------- MODULE FileSystemProof --------------------------
(***************************************************************************)
(* FileSystem keeps FileInv and implements FileStore, for any fibers,      *)
(* paths, files and chunks.  One lemma for each action.                    *)
(***************************************************************************)
EXTENDS FileSystem, SequenceTheorems, TLAPS

USE FileSystemAssumption, CallAssumption

(* Byte strings *)

\* Truncate gives a string of the new size whose beginning is that of the old.
LEMMA ResizedFact ==
  ASSUME NEW bytes \in Seq(Byte), NEW n \in Nat
  PROVE  /\ Resized(bytes, n) \in Seq(Byte)
         /\ Len(Resized(bytes, n)) = n
         /\ \A i \in 1 .. n : i <= Len(bytes) => Resized(bytes, n)[i] = bytes[i]
<1>0. Zero \in Byte
  BY DEF Byte
<1>1. \A i \in 1 .. n : (IF i <= Len(bytes) THEN bytes[i] ELSE Zero) \in Byte
  BY <1>0
<1>2. Resized(bytes, n) \in Seq(Byte) /\ Len(Resized(bytes, n)) = n
  BY <1>1 DEF Resized
<1>. QED
  BY <1>2 DEF Resized

\* PRead gives what there is from the offset on, and goes on where the bytes
\* before it end.
LEMMA PReadFact ==
  ASSUME NEW bytes \in Seq(Byte), NEW o \in Nat, NEW n \in Nat
  PROVE  /\ PRead(bytes, o, n) \in Seq(Byte)
         /\ o <= Len(bytes) =>
              /\ o + Len(PRead(bytes, o, n)) <= Len(bytes)
              /\ SubSeq(bytes, 1, o) \o PRead(bytes, o, n)
                   = SubSeq(bytes, 1, o + Len(PRead(bytes, o, n)))
<1>. DEFINE end == IF o + n < Len(bytes) THEN o + n ELSE Len(bytes)
<1>1. end \in Nat /\ end <= Len(bytes) /\ (o <= Len(bytes) => o <= end)
  OBVIOUS
<1>2. PRead(bytes, o, n) = SubSeq(bytes, o + 1, end)
  BY DEF PRead
<1>. HIDE DEF end
<1>3. \A i \in o + 1 .. end : bytes[i] \in Byte
  BY <1>1
<1>4. /\ PRead(bytes, o, n) \in Seq(Byte)
      /\ Len(PRead(bytes, o, n)) = IF o + 1 <= end THEN end - (o + 1) + 1 ELSE 0
  BY <1>1, <1>2, <1>3, SubSeqProperties
<1>5. ASSUME o <= Len(bytes)
      PROVE  /\ o + Len(PRead(bytes, o, n)) = end
             /\ SubSeq(bytes, 1, o) \o SubSeq(bytes, o + 1, end) = SubSeq(bytes, 1, end)
  <2>1. o \in 1 - 1 .. Len(bytes) /\ end \in o .. Len(bytes) /\ 1 \in 1 .. Len(bytes) + 1
    BY <1>1, <1>5
  <2>2. SubSeq(bytes, 1, o) \o SubSeq(bytes, o + 1, end) = SubSeq(bytes, 1, end)
    BY <2>1, ConcatAdjacentSubSeq
  <2>. QED
    BY <1>1, <1>4, <1>5, <2>2
<1>. QED
  BY <1>1, <1>2, <1>4, <1>5

\* Two strings that agree up to a position have the same beginning.
LEMMA SameBeginning ==
  ASSUME NEW s \in Seq(Byte), NEW t \in Seq(Byte), NEW n \in Nat,
         n <= Len(s), n <= Len(t), \A i \in 1 .. n : s[i] = t[i]
  PROVE  SubSeq(s, 1, n) = SubSeq(t, 1, n)
<1>1. /\ SubSeq(s, 1, n) \in Seq(Byte) /\ SubSeq(t, 1, n) \in Seq(Byte)
      /\ Len(SubSeq(s, 1, n)) = n /\ Len(SubSeq(t, 1, n)) = n
      /\ \A i \in 1 .. n : SubSeq(s, 1, n)[i] = s[i] /\ SubSeq(t, 1, n)[i] = t[i]
  BY SubSeqProperties
<1>. QED
  BY <1>1, SeqEqual

-----------------------------------------------------------------------------
(* Files in use *)

\* A file that something leads to keeps its bytes.
LEMMA CollectedFact ==
  ASSUME TypeOK, NEW dir, NEW descriptors
  PROVE  /\ Collected(dir, descriptors) \in [Inode -> Seq(Byte)]
         /\ \A i \in InUse(dir, descriptors) : Collected(dir, descriptors)[i] = data[i]
         /\ \A i \in Inode \ InUse(dir, descriptors) : Collected(dir, descriptors)[i] = <<>>
BY DEF Collected, TypeOK, InUse

\* What is known of a descriptor in use.
LEMMA DescriptorFact ==
  \A of \in Descriptor :
    /\ of.fd \in 1 .. MaxFd /\ of.mode \in {"Read", "Append"} /\ of.file \in Inode
    /\ of.offset \in Nat /\ of.got \in Seq(Byte) /\ of.cut \in BOOLEAN
BY DEF Descriptor

\* What is known of a call that waits for the disk.
LEMMA CallFact ==
  \A call \in Call :
    /\ call.fd \in 1 .. MaxFd /\ call.file \in Inode /\ call.mode \in {"Read", "Append"}
    /\ call.mode = "Read" => call.size \in Nat
    /\ call.mode = "Append" => call.chunk \in Chunk /\ call.chunk \in Seq(Byte)
BY DEF Call

\* An empty disk satisfies the invariant.
LEMMA InitInv == Init => FileInv
<1>. SUFFICES ASSUME Init PROVE FileInv
  OBVIOUS
<1>1. TypeOK
  BY EmptySeq DEF Init, TypeOK
<1>. QED
  BY <1>1 DEF Init, FileInv, CallsKeepTheirFile, ReadsOneFile, FreshFiles

\* A file nothing leads to is empty and gets a path (fs/fs.cpp:186).
LEMMA CreateFileFact ==
  ASSUME FileInv, NEW p \in Path, CreateFile(p), files[p] = Absent
  PROVE  /\ files' \in [Path -> Inode \cup {Absent}]
         /\ files'[p] \in Inode /\ data[files'[p]] = <<>>
         /\ \A q \in Path : q # p => files'[q] = files[q] /\ files'[q] # files'[p]
         /\ \A of \in opened : of.file # files'[p]
         /\ InUse(files, opened) \subseteq InUse(files', opened)
<1>1. PICK i \in Inode \ InUse(files, opened) : files' = [files EXCEPT ![p] = i]
  BY DEF CreateFile
<1>2. data[i] = <<>> /\ (\A q \in Path : files[q] # i) /\ (\A of \in opened : of.file # i)
  BY <1>1 DEF FileInv, FreshFiles, InUse
<1>3. files \in [Path -> Inode \cup {Absent}]
  BY DEF FileInv, TypeOK
<1>. QED
  BY <1>1, <1>2, <1>3 DEF InUse

\* Create keeps the invariant.
LEMMA CreateInv ==
  ASSUME FileInv, NEW p \in Path, Create(p)
  PROVE  FileInv'
<1>1. TypeOK'
  BY CreateFileFact DEF Create, FileInv, TypeOK
<1>2. CallsKeepTheirFile' /\ ReadsOneFile'
  BY DEF Create, FileInv, CallsKeepTheirFile, ReadsOneFile
<1>3. FreshFiles'
  BY CreateFileFact DEF Create, FileInv, FreshFiles, InUse
<1>. QED
  BY <1>1, <1>2, <1>3 DEF FileInv

\* Unlink keeps the invariant.
LEMMA UnlinkInv ==
  ASSUME FileInv, NEW p \in Path, Unlink(p)
  PROVE  FileInv'
<1>1. \A of \in opened : of.file \in InUse(files', opened)
  BY DescriptorFact DEF InUse, FileInv, TypeOK
<1>2. TypeOK'
  BY CollectedFact DEF Unlink, FileInv, TypeOK
<1>3. CallsKeepTheirFile'
  BY DEF Unlink, FileInv, CallsKeepTheirFile
<1>. \A i \in InUse(files', opened) : data'[i] = data[i]
  BY CollectedFact DEF Unlink, FileInv
<1>4. \A of \in opened : data'[of.file] = data[of.file]
  BY <1>1
<1>5. ReadsOneFile'
  BY <1>4 DEF Unlink, FileInv, ReadsOneFile
<1>6. FreshFiles'
  BY CollectedFact DEF Unlink, FileInv, FreshFiles
<1>. QED
  BY <1>2, <1>3, <1>5, <1>6 DEF FileInv

\* Close keeps the invariant.
LEMMA CloseInv ==
  ASSUME FileInv, NEW of \in opened, Close(of)
  PROVE  FileInv'
<1>1. \A o \in opened' : o \in opened /\ o.file \in InUse(files, opened')
  BY DescriptorFact DEF Close, InUse, FileInv, TypeOK
<1>2. TypeOK'
  BY <1>1, CollectedFact DEF Close, FileInv, TypeOK
<1>3. CallsKeepTheirFile'
  BY DEF Close, FileInv, CallsKeepTheirFile
<1>. \A i \in InUse(files, opened') : data'[i] = data[i]
  BY CollectedFact DEF Close, FileInv
<1>4. \A o \in opened' : data'[o.file] = data[o.file]
  BY <1>1
<1>5. ReadsOneFile'
  BY <1>1, <1>4 DEF FileInv, ReadsOneFile
<1>6. FreshFiles'
  BY CollectedFact DEF Close, FileInv, FreshFiles
<1>. QED
  BY <1>2, <1>3, <1>5, <1>6 DEF FileInv

\* Crash keeps the invariant.
LEMMA CrashInv == FileInv /\ Crash => FileInv'
<1>. SUFFICES ASSUME FileInv, Crash PROVE FileInv'
  OBVIOUS
<1>1. TypeOK'
  BY CollectedFact DEF Crash, FileInv, TypeOK
<1>2. CallsKeepTheirFile' /\ ReadsOneFile'
  BY DEF Crash, CallsKeepTheirFile, ReadsOneFile
<1>3. FreshFiles'
  BY CollectedFact DEF Crash, FileInv, FreshFiles
<1>. QED
  BY <1>1, <1>2, <1>3 DEF FileInv

\* Descriptors only change in cut, which is set where bytes read are cut off.
LEMMA TruncateInv ==
  ASSUME FileInv, NEW p \in Path, NEW n \in Length, Truncate(p, n)
  PROVE  FileInv'
<1>. DEFINE i == files[p]
            b == data[i]
            Cut(of) == of.cut \/ (of.file = i /\ n < of.offset)
            After(of) == [of EXCEPT !.cut = Cut(of)]
<1>1. n \in Nat /\ i \in Inode /\ b \in Seq(Byte) /\ data \in [Inode -> Seq(Byte)]
  BY DEF Truncate, FileInv, TypeOK
<1>2. /\ data' = [data EXCEPT ![i] = Resized(b, n)]
      /\ opened' = {After(of) : of \in opened}
      /\ UNCHANGED <<files, next_fd, waits>>
  BY DEF Truncate
<1>3. /\ Resized(b, n) \in Seq(Byte) /\ Len(Resized(b, n)) = n
      /\ \A k \in 1 .. n : k <= Len(b) => Resized(b, n)[k] = b[k]
  BY <1>1, ResizedFact
<1>4. \A of \in opened :
        /\ After(of) \in Descriptor
        /\ After(of).fd = of.fd /\ After(of).mode = of.mode /\ After(of).file = of.file
        /\ After(of).offset = of.offset /\ After(of).got = of.got
        /\ After(of).cut = Cut(of)
  <2>. SUFFICES ASSUME NEW of \in opened
                PROVE  /\ After(of) \in Descriptor
                       /\ After(of).fd = of.fd /\ After(of).mode = of.mode
                       /\ After(of).file = of.file
                       /\ After(of).offset = of.offset /\ After(of).got = of.got
                       /\ After(of).cut = Cut(of)
    OBVIOUS
  <2>1. of \in Descriptor /\ Cut(of) \in BOOLEAN
    BY DescriptorFact DEF FileInv, TypeOK
  <2>. HIDE DEF Cut
  <2>. QED
    BY <2>1 DEF Descriptor
<1>. HIDE DEF After, Cut
<1>5. TypeOK'
  <2>1. data' \in [Inode -> Seq(Byte)]
    BY <1>1, <1>2, <1>3
  <2>2. \A o \in opened' : \E of \in opened : o = After(of)
    BY <1>2
  <2>3. opened' \subseteq Descriptor /\ \A o \in opened' : o.fd <= next_fd
    BY <1>4, <2>2 DEF FileInv, TypeOK
  <2>4. \A o1, o2 \in opened' : o1.fd = o2.fd => o1 = o2
    BY <1>4, <2>2 DEF FileInv, TypeOK
  <2>. QED
    BY <1>2, <2>1, <2>3, <2>4 DEF FileInv, TypeOK
<1>6. CallsKeepTheirFile'
  <2>. SUFFICES ASSUME NEW f \in Fiber, waits[f] # Nothing
                PROVE  \E o \in opened' :
                         o.fd = waits[f].fd /\ o.mode = waits[f].mode /\ o.file = waits[f].file
    BY <1>2 DEF CallsKeepTheirFile
  <2>1. PICK of \in opened :
          of.fd = waits[f].fd /\ of.mode = waits[f].mode /\ of.file = waits[f].file
    BY DEF FileInv, CallsKeepTheirFile
  <2>2. After(of) \in opened'
    BY <1>2
  <2>. QED
    BY <1>4, <2>1, <2>2
<1>7. ReadsOneFile'
  <2>. SUFFICES ASSUME NEW of \in opened, of.mode = "Read", ~ Cut(of)
                PROVE  /\ of.offset <= Len(data'[of.file])
                       /\ of.got = SubSeq(data'[of.file], 1, of.offset)
    <3>. SUFFICES ASSUME NEW o \in opened', o.mode = "Read", ~ o.cut
                  PROVE  /\ o.offset <= Len(data'[o.file])
                         /\ o.got = SubSeq(data'[o.file], 1, o.offset)
      BY DEF ReadsOneFile
    <3>1. PICK of \in opened : o = After(of)
      BY <1>2
    <3>. QED
      BY <1>4, <3>1
  <2>1. /\ of.offset <= Len(data[of.file]) /\ of.got = SubSeq(data[of.file], 1, of.offset)
        /\ of.offset \in Nat /\ of.file \in Inode
        /\ (of.file = i => ~ (n < of.offset))
    BY DescriptorFact DEF FileInv, ReadsOneFile, TypeOK, Cut
  <2>2. CASE of.file = i
    <3>1. of.offset <= n
      BY <1>1, <2>1, <2>2
    <3>2. of.offset <= Len(b) /\ \A k \in 1 .. of.offset : Resized(b, n)[k] = b[k]
      BY <1>1, <1>3, <2>1, <2>2, <3>1
    <3>3. SubSeq(Resized(b, n), 1, of.offset) = SubSeq(b, 1, of.offset)
      BY <1>1, <1>3, <2>1, <3>1, <3>2, SameBeginning
    <3>. QED
      BY <1>1, <1>2, <1>3, <2>1, <2>2, <3>1, <3>3
  <2>3. CASE of.file # i
    BY <1>1, <1>2, <2>1, <2>3
  <2>. QED
    BY <2>2, <2>3
<1>8. FreshFiles'
  <2>1. InUse(files', opened') = InUse(files, opened)
    BY <1>2, <1>4 DEF InUse
  <2>2. i \in InUse(files, opened)
    BY <1>1 DEF InUse
  <2>. QED
    BY <1>1, <1>2, <2>1, <2>2 DEF FileInv, FreshFiles
<1>. QED
  BY <1>5, <1>6, <1>7, <1>8 DEF FileInv

\* Open keeps the invariant.
LEMMA OpenInv ==
  ASSUME FileInv, NEW p \in Path, NEW mode \in {"Read", "Append"}, Open(p, mode)
  PROVE  FileInv'
<1>. DEFINE fd == next_fd + 1
            offset == IF mode = "Append" THEN Len(data[files'[p]]) ELSE 0
            new == OpenedFile(fd, mode, files'[p], offset)
<1>1. /\ fd \in 1 .. MaxFd /\ next_fd' = fd
      /\ opened' = opened \cup {new} /\ data' = data /\ waits' = waits
      /\ \A of \in opened : of.fd < fd
  BY DescriptorFact DEF Open, OpenAs, FileInv, TypeOK
<1>2. /\ files' \in [Path -> Inode \cup {Absent}] /\ files'[p] \in Inode
      /\ \A q, r \in Path : files'[q] = files'[r] => q = r \/ files'[q] = Absent
      /\ InUse(files, opened) \subseteq InUse(files', opened')
  <2>1. CASE files[p] = Absent
    <3>1. CreateFile(p)
      BY <2>1 DEF Open, OpenAs
    <3>2. /\ files' \in [Path -> Inode \cup {Absent}] /\ files'[p] \in Inode
          /\ \A q \in Path : q # p => files'[q] = files[q] /\ files'[q] # files'[p]
          /\ InUse(files, opened) \subseteq InUse(files', opened)
      BY <2>1, <3>1, CreateFileFact
    <3>3. InUse(files', opened) \subseteq InUse(files', opened')
      BY <1>1 DEF InUse
    <3>4. \A q, r \in Path : files[q] = files[r] => q = r \/ files[q] = Absent
      BY DEF FileInv, TypeOK
    <3>. QED
      BY <3>2, <3>3, <3>4
  <2>2. CASE files[p] # Absent
    BY <1>1, <2>2 DEF Open, OpenAs, FileInv, TypeOK, InUse
  <2>. QED
    BY <2>1, <2>2
<1>3. offset \in Nat
  BY <1>2 DEF FileInv, TypeOK
<1>4. /\ new \in Descriptor /\ new.fd = fd /\ new.offset = offset /\ new.got = <<>>
      /\ new.file = files'[p] /\ (new.mode = "Read" => new.offset = 0)
  BY <1>1, <1>2, <1>3, EmptySeq DEF OpenedFile, Descriptor
<1>. HIDE DEF new
<1>5. TypeOK'
  <2>1. opened' \subseteq Descriptor /\ \A o \in opened' : o.fd <= next_fd'
    BY <1>1, <1>4, DescriptorFact DEF FileInv, TypeOK
  <2>2. \A o1, o2 \in opened' : o1.fd = o2.fd => o1 = o2
    BY <1>1, <1>4 DEF FileInv, TypeOK
  <2>. QED
    BY <1>1, <1>2, <2>1, <2>2 DEF FileInv, TypeOK
<1>6. CallsKeepTheirFile'
  BY <1>1 DEF FileInv, CallsKeepTheirFile
<1>7. ReadsOneFile'
  <2>1. new.mode = "Read" =>
          /\ new.offset <= Len(data[new.file])
          /\ new.got = SubSeq(data[new.file], 1, new.offset)
    BY <1>2, <1>4, SubSeqEmpty DEF FileInv, TypeOK
  <2>. QED
    BY <1>1, <2>1 DEF FileInv, ReadsOneFile
<1>8. FreshFiles'
  BY <1>1, <1>2 DEF FileInv, FreshFiles
<1>. QED
  BY <1>5, <1>6, <1>7, <1>8 DEF FileInv

\* Begin keeps the invariant.
LEMMA BeginInv ==
  ASSUME FileInv, NEW f \in Fiber, NEW of \in opened, BeginRead(f, of) \/ BeginAppend(f, of)
  PROVE  FileInv'
<1>1. PICK call \in Call : /\ Wait(f, call)
                          /\ call.fd = of.fd /\ call.mode = of.mode /\ call.file = of.file
  <2>0. of.fd \in 1 .. MaxFd /\ of.file \in Inode
    BY DescriptorFact DEF FileInv, TypeOK
  <2>1. CASE BeginRead(f, of)
    BY <2>0, <2>1 DEF BeginRead, Call
  <2>2. CASE BeginAppend(f, of)
    BY <2>0, <2>2 DEF BeginAppend, Call
  <2>. QED
    BY <2>1, <2>2
<1>2. TypeOK'
  BY <1>1 DEF Wait, FileInv, TypeOK
<1>3. CallsKeepTheirFile'
  BY <1>1 DEF Wait, FileInv, TypeOK, CallsKeepTheirFile
<1>4. ReadsOneFile' /\ FreshFiles'
  BY <1>1 DEF Wait, FileInv, ReadsOneFile, FreshFiles
<1>. QED
  BY <1>2, <1>3, <1>4 DEF FileInv

\* FinishRead keeps the invariant.
LEMMA FinishReadInv ==
  ASSUME FileInv, NEW f \in Fiber, FinishRead(f)
  PROVE  FileInv'
<1>1. PICK of \in Woken(f, "Read") :
        LET bytes == PRead(data[of.file], of.offset, waits[f].size)
        IN  /\ opened' = (opened \ {of}) \cup
                           {[of EXCEPT !.offset = @ + Len(bytes), !.got = @ \o bytes]}
            /\ Returned(f)
            /\ UNCHANGED <<files, data, next_fd>>
  BY DEF FinishRead
<1>. DEFINE bytes == PRead(data[of.file], of.offset, waits[f].size)
            new == [of EXCEPT !.offset = @ + Len(bytes), !.got = @ \o bytes]
<1>2. /\ of \in opened /\ of \in Descriptor /\ of.mode = "Read" /\ of.file \in Inode
      /\ of.offset \in Nat /\ of.got \in Seq(Byte)
      /\ data[of.file] \in Seq(Byte)
  BY <1>1, DescriptorFact DEF Woken, FileInv, TypeOK
<1>3. waits[f] \in Call /\ waits[f].size \in Nat
  BY <1>1, CallFact DEF Woken, FileInv, TypeOK
<1>4. /\ bytes \in Seq(Byte)
      /\ of.offset <= Len(data[of.file]) =>
           /\ of.offset + Len(bytes) <= Len(data[of.file])
           /\ SubSeq(data[of.file], 1, of.offset) \o bytes
                = SubSeq(data[of.file], 1, of.offset + Len(bytes))
  BY <1>2, <1>3, PReadFact
<1>. HIDE DEF bytes
<1>5. /\ opened' = (opened \ {of}) \cup {new}
      /\ waits' = [waits EXCEPT ![f] = Nothing]
      /\ UNCHANGED <<files, data, next_fd>>
  BY <1>1 DEF bytes, Returned
<1>6. of.offset + Len(bytes) \in Nat /\ of.got \o bytes \in Seq(Byte)
  BY <1>2, <1>4
<1>7. /\ new \in Descriptor
      /\ new.fd = of.fd /\ new.mode = of.mode /\ new.file = of.file /\ new.cut = of.cut
      /\ new.offset = of.offset + Len(bytes) /\ new.got = of.got \o bytes
  BY <1>2, <1>6 DEF Descriptor
<1>. HIDE DEF new
<1>8. TypeOK'
  <2>1. opened' \subseteq Descriptor /\ \A o \in opened' : o.fd <= next_fd
    BY <1>2, <1>5, <1>7 DEF FileInv, TypeOK
  <2>2. \A o1, o2 \in opened' : o1.fd = o2.fd => o1 = o2
    BY <1>2, <1>5, <1>7 DEF FileInv, TypeOK
  <2>. QED
    BY <1>5, <2>1, <2>2 DEF FileInv, TypeOK
<1>9. CallsKeepTheirFile'
  <2>. SUFFICES ASSUME NEW g \in Fiber, waits[g] # Nothing, waits'[g] = waits[g]
                PROVE  \E o \in opened' :
                         o.fd = waits[g].fd /\ o.mode = waits[g].mode /\ o.file = waits[g].file
    BY <1>5 DEF CallsKeepTheirFile, FileInv, TypeOK
  <2>1. PICK o \in opened :
          o.fd = waits[g].fd /\ o.mode = waits[g].mode /\ o.file = waits[g].file
    BY DEF FileInv, CallsKeepTheirFile
  <2>. QED
    BY <1>5, <1>7, <2>1
<1>10. ReadsOneFile'
  <2>1. ~ new.cut => /\ new.offset <= Len(data[new.file])
                     /\ new.got = SubSeq(data[new.file], 1, new.offset)
    BY <1>2, <1>4, <1>7 DEF FileInv, ReadsOneFile
  <2>. QED
    BY <1>5, <2>1 DEF FileInv, ReadsOneFile
<1>11. FreshFiles'
  <2>1. InUse(files', opened') = InUse(files, opened)
    BY <1>2, <1>5, <1>7 DEF InUse
  <2>. QED
    BY <1>5, <2>1 DEF FileInv, FreshFiles
<1>. QED
  BY <1>8, <1>9, <1>10, <1>11 DEF FileInv

\* FinishAppend keeps the invariant.
LEMMA FinishAppendInv ==
  ASSUME FileInv, NEW f \in Fiber, FinishAppend(f)
  PROVE  FileInv'
<1>1. PICK of \in Woken(f, "Append") :
        /\ data' = [data EXCEPT ![of.file] = @ \o waits[f].chunk]
        /\ Returned(f)
        /\ UNCHANGED <<files, opened, next_fd>>
  BY DEF FinishAppend
<1>2. of \in opened /\ of.file \in Inode /\ data \in [Inode -> Seq(Byte)]
  BY <1>1, DescriptorFact DEF Woken, FileInv, TypeOK
<1>3. waits[f].chunk \in Seq(Byte)
  BY <1>1, CallFact DEF Woken, FileInv, TypeOK
<1>4. \A i \in Inode :
        /\ data'[i] \in Seq(Byte) /\ Len(data[i]) <= Len(data'[i])
        /\ \A k \in 1 .. Len(data[i]) : data'[i][k] = data[i][k]
        /\ i # of.file => data'[i] = data[i]
  <2>1. \A s, c \in Seq(Byte) :
          /\ s \o c \in Seq(Byte) /\ Len(s) <= Len(s \o c)
          /\ \A k \in 1 .. Len(s) : (s \o c)[k] = s[k]
    OBVIOUS
  <2>2. data'[of.file] = data[of.file] \o waits[f].chunk
    BY <1>1, <1>2
  <2>3. \A i \in Inode : data[i] \in Seq(Byte) /\ (i # of.file => data'[i] = data[i])
    BY <1>1, <1>2
  <2>4. /\ data'[of.file] \in Seq(Byte) /\ Len(data[of.file]) <= Len(data'[of.file])
        /\ \A k \in 1 .. Len(data[of.file]) : data'[of.file][k] = data[of.file][k]
    <3>1. data[of.file] \in Seq(Byte)
      BY <1>2, <2>3
    <3>2. /\ data[of.file] \o waits[f].chunk \in Seq(Byte)
          /\ Len(data[of.file]) <= Len(data[of.file] \o waits[f].chunk)
          /\ \A k \in 1 .. Len(data[of.file]) :
               (data[of.file] \o waits[f].chunk)[k] = data[of.file][k]
      BY <1>3, <2>1, <3>1, Zenon
    <3>. QED
      BY <2>2, <3>2, Zenon
  <2>5. \A s \in Seq(Byte) : Len(s) <= Len(s)
    OBVIOUS
  <2>6. ASSUME NEW i \in Inode
        PROVE  /\ data'[i] \in Seq(Byte) /\ Len(data[i]) <= Len(data'[i])
               /\ \A k \in 1 .. Len(data[i]) : data'[i][k] = data[i][k]
    <3>1. CASE i = of.file
      BY <2>4, <3>1
    <3>2. CASE i # of.file
      BY <2>3, <2>5, <3>2
    <3>. QED
      BY <3>1, <3>2
  <2>. QED
    BY <2>3, <2>6
<1>5. data' \in [Inode -> Seq(Byte)]
  BY <1>1, <1>2, <1>3
<1>6. TypeOK'
  BY <1>1, <1>5 DEF Returned, FileInv, TypeOK
<1>7. CallsKeepTheirFile'
  BY <1>1 DEF Returned, FileInv, TypeOK, CallsKeepTheirFile
<1>8. ReadsOneFile'
  <2>. SUFFICES ASSUME NEW o \in opened, o.mode = "Read", ~ o.cut
                PROVE  /\ o.offset <= Len(data'[o.file])
                       /\ o.got = SubSeq(data'[o.file], 1, o.offset)
    BY <1>1 DEF ReadsOneFile
  <2>1. o.file \in Inode /\ o.offset \in Nat
    BY DescriptorFact DEF FileInv, TypeOK
  <2>2. o.offset <= Len(data[o.file]) /\ o.got = SubSeq(data[o.file], 1, o.offset)
    BY DEF FileInv, ReadsOneFile
  <2>3. /\ data[o.file] \in Seq(Byte) /\ data'[o.file] \in Seq(Byte)
        /\ o.offset <= Len(data'[o.file])
        /\ \A k \in 1 .. o.offset : data[o.file][k] = data'[o.file][k]
    <3>1. data[o.file] \in Seq(Byte) /\ Len(data[o.file]) \in Nat
      BY <1>2, <2>1
    <3>2. /\ data'[o.file] \in Seq(Byte) /\ Len(data'[o.file]) \in Nat
          /\ Len(data[o.file]) <= Len(data'[o.file])
          /\ \A k \in 1 .. Len(data[o.file]) : data'[o.file][k] = data[o.file][k]
      BY <1>4, <2>1
    <3>3. \A k \in 1 .. o.offset : k \in 1 .. Len(data[o.file])
      BY <2>1, <2>2, <3>1
    <3>4. o.offset <= Len(data'[o.file])
      BY <2>1, <2>2, <3>1, <3>2
    <3>5. \A k \in 1 .. o.offset : data[o.file][k] = data'[o.file][k]
      BY <3>2, <3>3
    <3>. QED
      BY <3>1, <3>2, <3>4, <3>5
  <2>. QED
    BY <2>1, <2>2, <2>3, SameBeginning
<1>9. FreshFiles'
  <2>1. of.file \in InUse(files, opened)
    BY <1>2 DEF InUse
  <2>. QED
    BY <1>1, <1>4, <2>1 DEF FileInv, FreshFiles
<1>. QED
  BY <1>6, <1>7, <1>8, <1>9 DEF FileInv

\* Every step keeps the invariant.
LEMMA NextInv == FileInv /\ [Next]_vars => FileInv'
<1>. SUFFICES ASSUME FileInv, [Next]_vars PROVE FileInv'
  OBVIOUS
<1>1. CASE UNCHANGED vars
  BY <1>1 DEF vars, FileInv, TypeOK, CallsKeepTheirFile, ReadsOneFile, FreshFiles
<1>2. CASE Next
  BY <1>2, CreateInv, UnlinkInv, TruncateInv, OpenInv, CloseInv, BeginInv, FinishReadInv,
     FinishAppendInv, CrashInv DEF Next
<1>. QED
  BY <1>1, <1>2

\* Every variable keeps its type, a number stands for one descriptor and a path
\* has a file of its own (fs/fs.cpp:43, fs/fs.cpp:99).
THEOREM TypeCorrect == Spec => []TypeOK
<1>1. FileInv => TypeOK
  BY DEF FileInv
<1>. QED
  BY <1>1, InitInv, NextInv, PTL DEF Spec

\* What a call finds after its wait is what it was made with (fs/fs.cpp:203).
THEOREM DescriptorsAreStable == Spec => []CallsKeepTheirFile
<1>1. FileInv => CallsKeepTheirFile
  BY DEF FileInv
<1>. QED
  BY <1>1, InitInv, NextInv, PTL DEF Spec

\* A reader gets the bytes of its file in their order, each once (fs/fs.cpp:56).
THEOREM ReadersGetTheFile == Spec => []ReadsOneFile
<1>1. FileInv => ReadsOneFile
  BY DEF FileInv
<1>. QED
  BY <1>1, InitInv, NextInv, PTL DEF Spec

-----------------------------------------------------------------------------
(* FileSystem implements FileStore *)

\* What paths lead to, before and after a step.
LEMMA ContentsFact ==
  ASSUME FileInv
  PROVE  /\ Contents = [p \in Path |-> Contents[p]]
         /\ \A p \in Path : files[p] = Absent => Contents[p] = Absent
         /\ \A p \in Path : files[p] # Absent =>
              /\ files[p] \in Inode /\ files[p] \in InUse(files, opened)
              /\ Contents[p] = data[files[p]] /\ Contents[p] # Absent
BY DEF Contents, FileInv, TypeOK, InUse

\* Where paths lead to the same bytes as before, the store stutters.
LEMMA SameContents ==
  ASSUME files' = files, \A p \in Path : files[p] # Absent => data'[files[p]] = data[files[p]]
  PROVE  Contents' = Contents
BY DEF Contents

\* Where paths lead to the files they did, and there are as many descriptors with
\* the same number, mode and file, the store has the handles it had.
LEMMA SameHandles ==
  ASSUME files' = files,
         \A x \in opened' : \E y \in opened :
           x.fd = y.fd /\ x.mode = y.mode /\ x.file = y.file,
         \A y \in opened : \E x \in opened' :
           x.fd = y.fd /\ x.mode = y.mode /\ x.file = y.file
  PROVE  Handles' = Handles
<1>1. \A i : Names(i)' = Names(i)
  BY DEF Names
<1>2. \A x \in opened' : \E y \in opened : HandleOf(x)' = HandleOf(y)
  BY <1>1 DEF HandleOf
<1>3. \A y \in opened : \E x \in opened' : HandleOf(x)' = HandleOf(y)
  BY <1>1 DEF HandleOf
<1>. QED
  BY <1>2, <1>3 DEF Handles

\* Where paths and calls are what they were, the store has the appends it had.
LEMMA SameAppends ==
  ASSUME files' = files, waits' = waits
  PROVE  Appends' = Appends
BY DEF Appends, AppendOf, Appending, Names

\* What waits in a call of Append.
LEMMA AppendingFact ==
  ASSUME FileInv, NEW f \in Appending
  PROVE  /\ f \in Fiber /\ waits[f].chunk \in Chunk
         /\ waits[f].file \in Inode
         /\ \E of \in opened : of.fd = waits[f].fd /\ of.file = waits[f].file
BY CallFact DEF Appending, FileInv, TypeOK, CallsKeepTheirFile

\* A file that gets a path is not one a descriptor or a call is for.
LEMMA MadeFile ==
  ASSUME FileInv, NEW p \in Path, CreateFile(p), files[p] = Absent,
         data' = data, waits' = waits
  PROVE  /\ Contents' = [Contents EXCEPT ![p] = <<>>]
         /\ \A of \in opened : HandleOf(of)' = HandleOf(of)
         /\ Appends' = Appends
         /\ {q \in Path : files'[q] = files'[p]} = {p}
<1>1. /\ files'[p] \in Inode /\ data[files'[p]] = <<>>
      /\ \A q \in Path : q # p => files'[q] = files[q] /\ files'[q] # files'[p]
      /\ \A of \in opened : of.file # files'[p]
  BY CreateFileFact
<1>2. Contents' = [Contents EXCEPT ![p] = <<>>]
  BY <1>1 DEF Contents
<1>3. \A of \in opened :
        {q \in Path : files'[q] = of.file} = {q \in Path : files[q] = of.file}
  <2>. TAKE of \in opened
  <2>1. of.file \in Inode /\ of.file # files[p] /\ of.file # files'[p]
    BY <1>1, DescriptorFact DEF FileInv, TypeOK
  <2>. QED
    BY <1>1, <2>1
<1>4. \A of \in opened : HandleOf(of)' = HandleOf(of)
  BY <1>3 DEF HandleOf, Names
<1>5. \A f \in Appending : AppendOf(f)' = AppendOf(f)
  <2>. TAKE f \in Appending
  <2>1. PICK of \in opened : of.file = waits[f].file
    BY AppendingFact
  <2>. QED
    BY <1>3, <2>1 DEF AppendOf, Names
<1>6. Appends' = Appends
  BY <1>5 DEF Appends, Appending
<1>7. {q \in Path : files'[q] = files'[p]} = {p}
  BY <1>1
<1>. QED
  BY <1>2, <1>4, <1>6, <1>7

\* Create does what the store says.
LEMMA CreateStep ==
  ASSUME FileInv, NEW p \in Path, Create(p)
  PROVE  Store!Create(p)
<1>1. /\ CreateFile(p) /\ files[p] = Absent
      /\ data' = data /\ waits' = waits /\ opened' = opened
  BY DEF Create
<1>2. Handles' = Handles
  BY <1>1, MadeFile DEF Handles
<1>. QED
  BY <1>1, <1>2, MadeFile, ContentsFact DEF Store!Create

\* Truncate does what the store says.
LEMMA TruncateStep ==
  ASSUME FileInv, NEW p \in Path, NEW n \in Length, Truncate(p, n)
  PROVE  Store!Truncate(p, n)
<1>1. /\ files' = files /\ waits' = waits /\ files[p] # Absent /\ files[p] \in Inode
      /\ data' = [data EXCEPT ![files[p]] = Resized(@, n)]
      /\ data \in [Inode -> Seq(Byte)]
  BY DEF Truncate, FileInv, TypeOK
<1>2. \A q \in Path : q # p => files[q] # files[p]
  BY <1>1 DEF FileInv, TypeOK
<1>3. Contents' = [Contents EXCEPT ![p] = Resized(@, n)]
  BY <1>1, <1>2, ContentsFact DEF Contents, FileInv, TypeOK
<1>4. Handles' = Handles
  <2>. DEFINE Cut(of) == of.cut \/ (of.file = files[p] /\ n < of.offset)
              After(of) == [of EXCEPT !.cut = Cut(of)]
  <2>1. opened' = {After(of) : of \in opened} /\ opened \subseteq Descriptor
    BY DEF Truncate, FileInv, TypeOK
  <2>2. \A of \in opened : /\ After(of).fd = of.fd
                           /\ After(of).mode = of.mode
                           /\ After(of).file = of.file
    BY <2>1 DEF Descriptor
  <2>. HIDE DEF After
  <2>. QED
    BY <1>1, <2>1, <2>2, SameHandles
<1>. QED
  BY <1>1, <1>3, <1>4, SameAppends, ContentsFact DEF Store!Truncate, Store!Resized, Resized

\* Unlink does what the store says.
LEMMA UnlinkStep ==
  ASSUME FileInv, NEW p \in Path, Unlink(p)
  PROVE  Store!Unlink(p)
<1>1. /\ files' = [files EXCEPT ![p] = Absent] /\ files \in [Path -> Inode \cup {Absent}]
      /\ opened' = opened /\ waits' = waits
  BY DEF Unlink, FileInv, TypeOK
<1>2. \A i \in InUse(files', opened) : data'[i] = data[i]
  BY CollectedFact DEF Unlink, FileInv
<1>3. \A q \in Path : q # p /\ files[q] # Absent => files[q] \in InUse(files', opened)
  BY <1>1 DEF InUse
<1>4. Contents' = [Contents EXCEPT ![p] = Absent]
  BY <1>1, <1>2, <1>3 DEF Contents
<1>5. \A i \in Inode : {q \in Path : files'[q] = i} = {q \in Path : files[q] = i} \ {p}
  BY <1>1
<1>6. \A of \in opened : HandleOf(of)' =
        [fd |-> HandleOf(of).fd, mode |-> HandleOf(of).mode,
         names |-> HandleOf(of).names \ {p}]
  <2>. TAKE of \in opened
  <2>1. {q \in Path : files'[q] = of.file} = {q \in Path : files[q] = of.file} \ {p}
    BY <1>5, DescriptorFact DEF FileInv, TypeOK
  <2>. QED
    BY <2>1 DEF HandleOf, Names
<1>7. Handles' = {[fd |-> h.fd, mode |-> h.mode, names |-> h.names \ {p}] : h \in Handles}
  BY <1>1, <1>6 DEF Handles
<1>8. \A f \in Appending : AppendOf(f)' =
        [fiber |-> AppendOf(f).fiber, names |-> AppendOf(f).names \ {p},
         chunk |-> AppendOf(f).chunk]
  <2>. TAKE f \in Appending
  <2>1. {q \in Path : files'[q] = waits[f].file}
          = {q \in Path : files[q] = waits[f].file} \ {p}
    BY <1>5, AppendingFact
  <2>. QED
    BY <1>1, <2>1 DEF AppendOf, Names
<1>9. Appends' = {[fiber |-> a.fiber, names |-> a.names \ {p}, chunk |-> a.chunk] :
                    a \in Appends}
  BY <1>1, <1>8 DEF Appends, Appending
<1>. QED
  BY <1>4, <1>7, <1>9 DEF Store!Unlink

\* Open does what the store says.
LEMMA OpenStep ==
  ASSUME FileInv, NEW p \in Path, NEW mode \in {"Read", "Append"}, Open(p, mode)
  PROVE  Store!Open(p, mode, next_fd') /\ next_fd' \in 1 .. MaxFd
<1>1. /\ next_fd' \in 1 .. MaxFd /\ data' = data /\ waits' = waits
      /\ \A of \in opened : of.fd # next_fd'
  BY DescriptorFact DEF Open, OpenAs, FileInv, TypeOK
<1>2. \E new : /\ opened' = opened \cup {new}
               /\ new.fd = next_fd' /\ new.mode = mode /\ new.file = files'[p]
  <2>. DEFINE offset == IF mode = "Append" THEN Len(data[files'[p]]) ELSE 0
              new == OpenedFile(next_fd', mode, files'[p], offset)
  <2>1. opened' = opened \cup {new}
    BY DEF Open, OpenAs
  <2>2. new.fd = next_fd' /\ new.mode = mode /\ new.file = files'[p]
    BY DEF OpenedFile
  <2>. HIDE DEF new
  <2>. QED
    BY <2>1, <2>2
<1>3. /\ \A of \in opened : HandleOf(of)' = HandleOf(of)
      /\ Appends' = Appends
      /\ {q \in Path : files'[q] = files'[p]} = {p}
      /\ IF Contents[p] = Absent
           THEN mode = "Append" /\ Contents' = [Contents EXCEPT ![p] = <<>>]
           ELSE Contents' = Contents
  <2>1. CASE files[p] = Absent
    <3>1. mode = "Append" /\ CreateFile(p)
      BY <2>1 DEF Open, OpenAs
    <3>. QED
      BY <1>1, <2>1, <3>1, MadeFile, ContentsFact
  <2>2. CASE files[p] # Absent
    <3>1. files' = files
      BY <2>2 DEF Open, OpenAs
    <3>2. {q \in Path : files'[q] = files'[p]} = {p}
      BY <2>2, <3>1 DEF FileInv, TypeOK
    <3>3. Contents' = Contents /\ Contents[p] # Absent
      BY <1>1, <2>2, <3>1, SameContents, ContentsFact
    <3>4. \A of \in opened : HandleOf(of)' = HandleOf(of)
      BY <3>1 DEF HandleOf, Names
    <3>. QED
      BY <1>1, <3>1, <3>2, <3>3, <3>4, SameAppends
  <2>. QED
    BY <2>1, <2>2
<1>4. PICK new : /\ opened' = opened \cup {new}
                 /\ new.fd = next_fd' /\ new.mode = mode /\ new.file = files'[p]
  BY <1>2
<1>5. Handles' = Handles \cup {[fd |-> next_fd', mode |-> mode, names |-> {p}]}
  <2>1. HandleOf(new)' = [fd |-> next_fd', mode |-> mode, names |-> {p}]
    BY <1>3, <1>4 DEF HandleOf, Names
  <2>. QED
    BY <1>3, <1>4, <2>1 DEF Handles
<1>6. \A h \in Handles : h.fd # next_fd'
  BY <1>1 DEF Handles, HandleOf
<1>. QED
  BY <1>1, <1>3, <1>5, <1>6 DEF Store!Open

\* The last reference to a file goes when no path leads to it.
LEMMA CollectStep ==
  ASSUME FileInv, NEW descriptors, data' = Collected(files, descriptors), files' = files
  PROVE  Contents' = Contents
<1>1. \A p \in Path : files[p] # Absent => files[p] \in InUse(files, descriptors)
  BY DEF InUse, FileInv, TypeOK
<1>2. \A i \in InUse(files, descriptors) : data'[i] = data[i]
  BY CollectedFact DEF FileInv
<1>. QED
  BY <1>1, <1>2, SameContents

\* Close does what the store says.
LEMMA CloseStep ==
  ASSUME FileInv, NEW of \in opened, Close(of)
  PROVE  Store!Close(of.fd) /\ of.fd \in 1 .. MaxFd
<1>1. /\ files' = files /\ waits' = waits /\ opened' = opened \ {of}
      /\ of.fd \in 1 .. MaxFd
  BY DescriptorFact DEF Close, FileInv, TypeOK
<1>2. Contents' = Contents
  BY CollectStep DEF Close
<1>3. \A o \in opened : HandleOf(o).fd = o.fd /\ HandleOf(o)' = HandleOf(o)
  BY <1>1 DEF HandleOf, Names
<1>4. \A o \in opened : HandleOf(o) = HandleOf(of) => o = of
  BY <1>3 DEF FileInv, TypeOK
<1>5. Handles' = Handles \ {HandleOf(of)}
  BY <1>1, <1>3, <1>4 DEF Handles
<1>6. HandleOf(of) \in Handles
  BY DEF Handles
<1>. QED
  BY <1>1, <1>2, <1>3, <1>5, <1>6, SameAppends DEF Store!Close

\* A call of Append does what the store says, and one of Read nothing.
LEMMA BeginStep ==
  ASSUME FileInv, NEW f \in Fiber, NEW of \in opened
  PROVE  /\ BeginAppend(f, of) => /\ Store!BeginAppend(f, of.fd, waits'[f].chunk)
                                  /\ of.fd \in 1 .. MaxFd /\ waits'[f].chunk \in Chunk
         /\ BeginRead(f, of) => UNCHANGED Store!storeVars
<1>0. /\ waits \in [Fiber -> Call \cup {Nothing}]
      /\ of \in Descriptor /\ of.fd \in 1 .. MaxFd /\ of.file \in Inode
  BY DescriptorFact DEF FileInv, TypeOK
<1>1. ASSUME NEW call \in Call, Wait(f, call)
      PROVE  /\ Contents' = Contents /\ Handles' = Handles
             /\ f \notin Appending /\ waits'[f] = call /\ call # Nothing
             /\ \A g \in Appending : AppendOf(g)' = AppendOf(g)
             /\ Appending' = IF call.mode = "Append" THEN Appending \cup {f} ELSE Appending
  <2>1. /\ UNCHANGED <<files, data, opened, next_fd>>
        /\ waits[f] = Nothing /\ waits' = [waits EXCEPT ![f] = call] /\ call # Nothing
    BY <1>1 DEF Wait
  <2>2. f \notin Appending /\ waits'[f] = call
        /\ \A g \in Fiber : g # f => waits'[g] = waits[g]
    BY <1>0, <2>1 DEF Appending
  <2>3. \A g \in Appending : AppendOf(g)' = AppendOf(g)
    BY <2>1, <2>2 DEF AppendOf, Names, Appending
  <2>4. Appending' = IF call.mode = "Append" THEN Appending \cup {f} ELSE Appending
    BY <2>1, <2>2 DEF Appending
  <2>. QED
    BY <2>1, <2>2, <2>3, <2>4, SameContents, SameHandles
<1>2. ASSUME BeginRead(f, of)
      PROVE  UNCHANGED Store!storeVars
  <2>1. PICK n \in BufferSize :
          Wait(f, [fd |-> of.fd, mode |-> "Read", size |-> n, file |-> of.file])
    BY <1>2 DEF BeginRead
  <2>. DEFINE call == [fd |-> of.fd, mode |-> "Read", size |-> n, file |-> of.file]
  <2>2. call \in Call /\ call.mode = "Read"
    BY <1>0 DEF Call
  <2>. HIDE DEF call
  <2>3. Appending' = Appending /\ \A g \in Appending : AppendOf(g)' = AppendOf(g)
    BY <1>1, <2>1, <2>2 DEF call
  <2>4. Appends' = Appends
    BY <2>3 DEF Appends
  <2>. QED
    BY <1>1, <2>1, <2>2, <2>4 DEF call, Store!storeVars
<1>3. ASSUME BeginAppend(f, of)
      PROVE  /\ Store!BeginAppend(f, of.fd, waits'[f].chunk)
             /\ waits'[f].chunk \in Chunk
  <2>1. of.mode = "Append" /\ \E chunk \in Chunk :
          Wait(f, [fd |-> of.fd, mode |-> "Append", chunk |-> chunk, file |-> of.file])
    BY <1>3 DEF BeginAppend
  <2>2. PICK chunk \in Chunk :
          Wait(f, [fd |-> of.fd, mode |-> "Append", chunk |-> chunk, file |-> of.file])
    BY <2>1
  <2>. DEFINE call == [fd |-> of.fd, mode |-> "Append", chunk |-> chunk, file |-> of.file]
              new == [fiber |-> f, names |-> Names(of.file), chunk |-> chunk]
  <2>3. /\ call \in Call /\ call.mode = "Append" /\ call.file = of.file
        /\ call.chunk = chunk
    BY <1>0 DEF Call
  <2>. HIDE DEF call
  <2>4. /\ Appending' = Appending \cup {f} /\ f \notin Appending /\ waits'[f] = call
        /\ \A g \in Appending : AppendOf(g)' = AppendOf(g)
        /\ Contents' = Contents /\ Handles' = Handles
    BY <1>1, <2>2, <2>3 DEF call
  <2>5. AppendOf(f)' = new
    <3>1. files' = files
      BY <2>2 DEF Wait
    <3>2. waits'[f].file = of.file /\ waits'[f].chunk = chunk
      BY <2>3, <2>4
    <3>. QED
      BY <3>1, <3>2 DEF AppendOf, Names
  <2>6. Appends' = Appends \cup {new}
    BY <2>4, <2>5 DEF Appends
  <2>7. \A a \in Appends : a.fiber # f
    BY <2>4 DEF Appends, AppendOf
  <2>8. /\ HandleOf(of) \in Handles /\ HandleOf(of).fd = of.fd
        /\ HandleOf(of).mode = "Append" /\ HandleOf(of).names = Names(of.file)
    BY <2>1 DEF Handles, HandleOf
  <2>. QED
    BY <2>3, <2>4, <2>6, <2>7, <2>8 DEF Store!BeginAppend
<1>. QED
  BY <1>0, <1>2, <1>3

\* A call that returns is no longer one of Append.
LEMMA ReturnedFact ==
  ASSUME FileInv, NEW f \in Fiber, Returned(f), files' = files
  PROVE  /\ Appending' = Appending \ {f}
         /\ \A g \in Appending \ {f} : AppendOf(g)' = AppendOf(g)
<1>1. /\ waits' = [waits EXCEPT ![f] = Nothing] /\ waits \in [Fiber -> Call \cup {Nothing}]
  BY DEF Returned, FileInv, TypeOK
<1>2. waits'[f] = Nothing /\ \A g \in Fiber : g # f => waits'[g] = waits[g]
  BY <1>1
<1>. QED
  BY <1>2 DEF Appending, AppendOf, Names

\* FinishRead leaves the store alone.
LEMMA FinishReadStep ==
  ASSUME FileInv, NEW f \in Fiber, FinishRead(f)
  PROVE  UNCHANGED Store!storeVars
<1>1. PICK of \in Woken(f, "Read") :
        LET bytes == PRead(data[of.file], of.offset, waits[f].size)
        IN  /\ opened' = (opened \ {of}) \cup
                           {[of EXCEPT !.offset = @ + Len(bytes), !.got = @ \o bytes]}
            /\ Returned(f)
            /\ UNCHANGED <<files, data, next_fd>>
  BY DEF FinishRead
<1>. DEFINE bytes == PRead(data[of.file], of.offset, waits[f].size)
            new == [of EXCEPT !.offset = @ + Len(bytes), !.got = @ \o bytes]
<1>2. of \in opened /\ of \in Descriptor /\ waits[f].mode = "Read"
  BY DEF Woken, FileInv, TypeOK
<1>3. new.fd = of.fd /\ new.mode = of.mode /\ new.file = of.file
  BY <1>2 DEF Descriptor
<1>4. opened' = (opened \ {of}) \cup {new} /\ files' = files /\ data' = data /\ Returned(f)
  BY <1>1
<1>. HIDE DEF new
<1>5. Handles' = Handles /\ Contents' = Contents
  BY <1>2, <1>3, <1>4, SameHandles, SameContents
<1>6. f \notin Appending
  BY <1>2 DEF Appending
<1>7. Appends' = Appends
  BY <1>4, <1>6, ReturnedFact DEF Appends
<1>. QED
  BY <1>5, <1>7 DEF Store!storeVars

\* FinishAppend does what the store says.
LEMMA FinishAppendStep ==
  ASSUME FileInv, NEW f \in Fiber, FinishAppend(f)
  PROVE  Store!FinishAppend(f)
<1>1. PICK of \in Woken(f, "Append") :
        /\ data' = [data EXCEPT ![of.file] = @ \o waits[f].chunk]
        /\ Returned(f)
        /\ UNCHANGED <<files, opened, next_fd>>
  BY DEF FinishAppend
<1>2. /\ f \in Appending /\ of \in opened /\ of.fd = waits[f].fd
  BY <1>1 DEF Woken, Appending
<1>3. of.file = waits[f].file /\ of.file \in Inode /\ data \in [Inode -> Seq(Byte)]
  BY <1>2, AppendingFact DEF FileInv, TypeOK
<1>. DEFINE a == AppendOf(f)
            chunk == waits[f].chunk
<1>4. a \in Appends /\ a.fiber = f /\ a.names = Names(of.file) /\ a.chunk = chunk
  BY <1>2, <1>3 DEF Appends, AppendOf
<1>5. Contents' = [p \in Path |-> IF p \in a.names THEN Contents[p] \o a.chunk
                                                  ELSE Contents[p]]
  <2>1. \A p \in Path : Contents'[p] = IF p \in Names(of.file) THEN Contents[p] \o chunk
                                                               ELSE Contents[p]
    <3>. SUFFICES ASSUME NEW p \in Path
                  PROVE  Contents'[p] = IF p \in Names(of.file) THEN Contents[p] \o chunk
                                                                ELSE Contents[p]
      OBVIOUS
    <3>1. CASE files[p] = of.file
      <4>1. p \in Names(of.file) /\ files[p] # Absent
        BY <1>3, <3>1 DEF Names
      <4>. QED
        BY <1>1, <1>3, <3>1, <4>1 DEF Contents
    <3>2. CASE files[p] # of.file
      <4>1. p \notin Names(of.file)
        BY <3>2 DEF Names
      <4>2. files[p] # Absent => data'[files[p]] = data[files[p]]
        BY <1>1, <1>3, <3>2 DEF FileInv, TypeOK
      <4>. QED
        BY <1>1, <4>1, <4>2 DEF Contents
    <3>. QED
      BY <3>1, <3>2
  <2>2. Contents' = [p \in Path |-> Contents'[p]]
    BY DEF Contents
  <2>. HIDE DEF a, chunk
  <2>. QED
    BY <1>4, <2>1, <2>2
<1>6. Handles' = Handles
  BY <1>1, SameHandles
<1>7. \A g \in Appending : AppendOf(g).fiber = g
  BY DEF AppendOf
<1>8. Appends' = Appends \ {a}
  BY <1>1, <1>2, <1>7, ReturnedFact DEF Appends
<1>. QED
  BY <1>4, <1>5, <1>6, <1>8 DEF Store!FinishAppend

\* A crash does what the store says.
LEMMA CrashStep ==
  ASSUME FileInv, Crash
  PROVE  Store!Crash
<1>1. Contents' = Contents
  BY CollectStep DEF Crash
<1>2. Handles' = {} /\ Appends' = {}
  BY DEF Crash, Handles, Appends, Appending
<1>. QED
  BY <1>1, <1>2 DEF Store!Crash

\* Where nothing changes, the store does not either.
LEMMA NoStep ==
  ASSUME UNCHANGED vars
  PROVE  UNCHANGED Store!storeVars
BY DEF vars, Store!storeVars, Contents, Handles, HandleOf, Appends, AppendOf, Appending,
       Names

\* Each call does to the store what the store says of it.
LEMMA CallStep == FileInv => EachCall
BY CreateStep, UnlinkStep, TruncateStep, OpenStep, CloseStep, BeginStep, FinishReadStep,
   FinishAppendStep, CrashStep DEF EachCall

\* Every step is one of the store or leaves it alone.
LEMMA NextStep == FileInv /\ [Next]_vars => [Store!Next]_(Store!storeVars)
<1>. SUFFICES ASSUME FileInv, [Next]_vars
              PROVE  UNCHANGED Store!storeVars \/ Store!Next
  OBVIOUS
<1>1. CASE UNCHANGED vars
  BY <1>1, NoStep
<1>2. CASE Next
  <2>1. ASSUME NEW p \in Path, NEW mode \in {"Read", "Append"}, Open(p, mode)
        PROVE  Store!Next
    BY <2>1, OpenStep DEF Store!Next
  <2>2. ASSUME NEW of \in opened, Close(of)
        PROVE  Store!Next
    BY <2>2, CloseStep DEF Store!Next
  <2>3. ASSUME NEW f \in Fiber, NEW of \in opened, BeginRead(f, of) \/ BeginAppend(f, of)
        PROVE  UNCHANGED Store!storeVars \/ Store!Next
    BY <2>3, BeginStep DEF Store!Next
  <2>4. ASSUME NEW f \in Fiber, FinishRead(f) \/ FinishAppend(f)
        PROVE  UNCHANGED Store!storeVars \/ Store!Next
    BY <2>4, FinishReadStep, FinishAppendStep DEF Store!Next
  <2>5. ASSUME NEW p \in Path, Create(p) \/ Unlink(p) \/ \E n \in Length : Truncate(p, n)
        PROVE  Store!Next
    BY <2>5, CreateStep, UnlinkStep, TruncateStep DEF Store!Next
  <2>6. CASE Crash
    BY <2>6, CrashStep DEF Store!Next
  <2>. QED
    BY <1>2, <2>1, <2>2, <2>3, <2>4, <2>5, <2>6 DEF Next
<1>. QED
  BY <1>1, <1>2

\* Each call of fs/fs.cpp, and FileSystem::Reset, does to the directory what
\* FileStore says of that call and that path or descriptor, and nothing else:
\* FileSystem implements FileStore, step by step under the same names.
THEOREM DiskIsAStore == Spec => ImplementsFileStore
<1>1. Init => Store!Init
  BY DEF Init, Contents, Handles, Appends, Appending, Store!Init
<1>. QED
  BY <1>1, InitInv, NextInv, NextStep, CallStep, PTL
     DEF Spec, ImplementsFileStore, Store!Spec
=============================================================================
