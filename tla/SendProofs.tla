----------------------------- MODULE SendProofs -----------------------------
(***************************************************************************)
(* A trusted transfer in every behaviour of Yoop: what its two sides say   *)
(* to each other, and what success means.  With the sessions of module     *)
(* ConnectionProofs it makes the invariant of all pairs that belong        *)
(* together.                                                               *)
(***************************************************************************)
EXTENDS ConnectionProofs, FiniteSetTheorems, WellFoundedInduction

(* The files of a trusted transfer.                                         *)

Listing ==
  /\ tree \in Trees /\ files = EnumerateFiles(tree)
  /\ out = [rel \in Rels |-> out[rel]]

Own(i) == SendersFile(files[i].rel)
Total(i) == tree.has[Own(i)]
HasContent(i) == ~files[i].dir /\ IsFile(tree, Own(i)) /\ Total(i) > 0
Part(i, c) == Empty \o [k \in 1..c |-> <<Own(i), k>>]
WholeAt(i) == out[files[i].rel] = Part(i, Total(i))

\* What the entries up to m became.
Through(m) == \A i \in 1..m : Stops(i) => HasContent(i) /\ WholeAt(i)
AllWritten == Through(Len(files))
\* The entry at n is being written, c of its chunks are.
Opened(n, c) ==
  /\ writing = [file |-> n, writer |-> TRUE]
  /\ out[files[n].rel] = Part(n, c)
  /\ \A i \in 1..n : Stops(i) =>
       HasContent(i) /\ (files[i].rel # files[n].rel => WholeAt(i))

\* A line of frames: markers of the entries from a on, up to the one at n.
IsLine(q) == q \in Seq({q[k] : k \in 1..Len(q)})
Markers(q, a, n) ==
  /\ IsLine(q) /\ a \in 1..n /\ Len(q) >= n - a
  /\ \A k \in 1..(n - a) : q[k] = ChunkStart(a + k - 1, 0)
  /\ \A i \in a..(n - 1) : ~Stops(i)

SendState ==
  LET n == sending[1]  c == sending[2] IN
  /\ n \in 1..Len(files) /\ HasContent(n) /\ c \in 1..Total(n)

\* The file at n is announced: everything before it is there, or a marker.
Announced(q) ==
  LET n == sending[1]  a == writing.file + 1 IN
  /\ sending[2] = 1 /\ writing.file \in Nat
  /\ Markers(q, a, n) /\ Len(q) = (n - a) + 2
  /\ q[n - a + 1] = ChunkStart(n, Total(n)) /\ q[n - a + 2] = ChunkData(Own(n), 1)
  /\ Through(writing.file)
Written ==
  LET n == sending[1]  c == sending[2] IN
  /\ \/ c > 1 /\ inbox["host"] = <<ChunkStart(n, Total(n)), ChunkData(Own(n), c)>>
     \/ inbox["host"] = <<ChunkData(Own(n), c)>>
  /\ Opened(n, c - 1)
Acknowledged == inbox["client"] = <<ChunkIsThere>> /\ Opened(sending[1], sending[2])

Fresh == writing.file = 0 /\ flight = "none"
ChunkRow ==
  /\ at["host"] = "Chunks" /\ at["client"] = "ChunkAck" /\ SendState
  /\ \/ inbox["client"] = <<>> /\ (Announced(inbox["host"]) \/ Written)
     \/ inbox["host"] = <<>> /\ Acknowledged
SendRow ==
  \/ Row("TrustedHello", "TrustedHelloAck", <<TrustedHello("client")>>, <<>>) /\ Fresh
  \/ Row("FileList", "TrustedHelloAck", <<>>, <<TrustedHelloAck("host")>>) /\ Fresh
  \/ Row("FileList", "FileListAck", <<FileList>>, <<>>) /\ Fresh
  \/ Row("asked", "FileListAck", <<>>, <<>>) /\ Fresh
  \/ Row("Chunks", "FileListAck", <<>>, <<Wanted>>) /\ Fresh
  \/ ChunkRow

\* The receiver has gone; what it acknowledged before may still be read.
SendHostGone ==
  /\ at["host"] = "over" /\ outcome["host"] # "ok" /\ inbox["host"] = <<>>
  /\ at["client"] # "ChunkAck" => flight = "none"
  /\ \/ at["client"] \in Before /\ inbox["client"] = <<>>
     \/ at["client"] = "TrustedHelloAck" /\ inbox["client"] \in {<<>>, <<TrustedHelloAck("host")>>}
     \/ at["client"] = "FileListAck" /\ inbox["client"] \in {<<>>, <<Wanted>>, <<Unwanted>>}
     \/ at["client"] = "ChunkAck" /\ inbox["client"] \in {<<>>, <<ChunkIsLost>>}
     \/ at["client"] = "ChunkAck" /\ SendState /\ Acknowledged
SendClientGone ==
  /\ at["client"] = "over" /\ outcome["client"] # "ok" /\ outcome["host"] # "ok"
  /\ IsLine(inbox["host"]) /\ NotComplete(inbox["host"]) /\ NotSyncing("host")
\* The sender has sent everything.
Finished(q) ==
  LET a == writing.file + 1  n == Len(files) + 1 IN
  /\ writing.file \in Nat
  /\ Markers(q, a, n) /\ Len(q) = (n - a) + 1 /\ q[n - a + 1] = TransferComplete
\* Only the last write of the file sent last may not have ended well.
Ended == flight # "none" => outcome["host"] # "ok" /\ writing.file = sending[1]
SendDone ==
  /\ at["client"] = "over" /\ outcome["client"] = "ok" /\ AllWritten /\ Ended
  /\ \/ at["host"] = "over"
     \/ at["host"] = "Chunks" /\ (inbox["host"] = <<>> \/ Finished(inbox["host"]))

Sends ==
  /\ (Apart /\ Fresh) \/ SendRow
  /\ outcome["host"] = "none" /\ outcome["client"] = "none"
SendLeft == (SendHostGone /\ outcome["client"] = "none") \/ SendClientGone \/ SendDone
SendInv == SendPair => Sends \/ SendLeft

-----------------------------------------------------------------------------
(* The file that is opened for an entry of the list.                        *)

\* A set of numbers has a least one, so that Min is one of its members.
LEMMA Least ==
  ASSUME NEW S \in SUBSET Nat, S # {}
  PROVE  Min(S) \in S /\ \A k \in S : Min(S) <= k
<1> DEFINE Upto == {0 .. m : m \in S}
<1>1. Upto \subseteq FiniteSubsetsOf(Nat)
  <2>1. ASSUME NEW m \in S PROVE 0 .. m \in FiniteSubsetsOf(Nat)
    <3>1. IsFiniteSet(0 .. m)
      BY FS_Interval
    <3> QED BY <3>1 DEF FiniteSubsetsOf
  <2> QED BY <2>1
<1>2. Upto # {}
  OBVIOUS
<1>3. \E x \in Upto : \A y \in Upto : ~(<<y, x>> \in StrictSubsetOrdering(Nat))
  <2> HIDE DEF Upto
  <2> QED BY <1>1, <1>2, FS_StrictSubsetOrderingWellFounded, WFMin, Zenon
<1>4. PICK m \in S : \A k \in S : ~(<<0 .. k, 0 .. m>> \in StrictSubsetOrdering(Nat))
  BY <1>3
<1>5. ASSUME NEW k \in S, k < m PROVE FALSE
  <2>1. 0 .. k \subseteq 0 .. m /\ 0 .. k # 0 .. m /\ 0 .. k \subseteq Nat /\ 0 .. m \subseteq Nat
    <3>1. m \in 0 .. m /\ m \notin 0 .. k
      BY <1>5
    <3> QED BY <1>5, <3>1
  <2> QED BY <1>4, <2>1 DEF StrictSubsetOrdering
<1>6. \E x \in S : \A k \in S : x =< k
  BY <1>5
<1> QED BY <1>6 DEF Min

\* A path below a directory ends with the path from there.
LEMMA EndsWith ==
  ASSUME NEW S, NEW p \in Seq(S), NEW r \in Seq(S)
  PROVE  IsSuffix(r, p \o r)
<1> DEFINE q == p \o r
           R == Reverse(r)
           Q == Reverse(q)
<1>1. /\ q \in Seq(S) /\ Len(q) = Len(p) + Len(r)
      /\ \A i \in 1..Len(r) : q[Len(p) + i] = r[i]
      /\ Len(p) \in Nat /\ Len(r) \in Nat
  BY ConcatProperties, LenProperties
<1> HIDE DEF q
<1>2. ASSUME NEW s \in Seq(S)
      PROVE  /\ Reverse(s) \in Seq(S) /\ Len(Reverse(s)) = Len(s)
             /\ \A i \in 1..Len(s) : Reverse(s)[i] = s[(Len(s) - i) + 1]
  <2>1. Len(s) \in Nat
    BY LenProperties
  <2>2. \A i \in 1..Len(s) : s[(Len(s) - i) + 1] \in S
    BY <2>1, ElementOfSeq
  <2>3. Reverse(s) \in [1..Len(s) -> S]
    BY <2>2 DEF Reverse
  <2> QED BY <2>1, <2>3, IsASeq, LenProperties DEF Reverse
<1>3. /\ R \in Seq(S) /\ Len(R) = Len(r) /\ Q \in Seq(S) /\ Len(Q) = Len(q)
      /\ \A i \in 1..Len(r) : R[i] = r[(Len(r) - i) + 1]
      /\ \A i \in 1..Len(q) : Q[i] = q[(Len(q) - i) + 1]
  BY <1>1, <1>2
<1>4. ASSUME NEW i \in 1..Len(r) PROVE R[i] = Q[i]
  <2>1. i \in 1..Len(q) /\ (Len(r) - i) + 1 \in 1..Len(r)
    BY <1>1
  <2>2. (Len(q) - i) + 1 = Len(p) + ((Len(r) - i) + 1)
    BY <1>1
  <2> QED BY <1>1, <1>3, <2>1, <2>2
<1> HIDE DEF R, Q
<1>5. SubSeq(R, 1, Len(R)) = SubSeq(Q, 1, Len(R))
  <2>1. /\ SubSeq(R, 1, Len(R)) = [i \in 1..Len(r) |-> R[i]]
        /\ SubSeq(Q, 1, Len(R)) = [i \in 1..Len(r) |-> Q[i]]
    BY <1>1, <1>3
  <2> QED BY <1>4, <2>1
<1>6. Len(R) <= Len(Q)
  BY <1>1, <1>3
<1> QED BY <1>5, <1>6 DEF IsSuffix, IsPrefix, R, Q, q

(* The file that is opened for an entry is the one it was listed for, unless *)
(* another one could be taken for it.                                       *)
LEMMA FoundIsListed ==
  ASSUME NEW t \in Trees, NEW i \in 1..Len(EnumerateFiles(t)),
         IsFile(t, FindFilePath(t, EnumerateFiles(t)[i].rel)),
         Unambiguous(t, EnumerateFiles(t)[i])
  PROVE  FindFilePath(t, EnumerateFiles(t)[i].rel) = EnumerateFiles(t)[i].own
<1> DEFINE list == EnumerateFiles(t)
           rel == list[i].rel
           given == t.shared
           path == FindFilePath(t, rel)
           named == {k \in DOMAIN given : IsFile(t, given[k]) /\ IsSuffix(rel, given[k])}
           below == {k \in DOMAIN given : IsDir(t, given[k]) /\ Exists(t, given[k] \o rel)}
<1>1. /\ list \in Seq([rel : Seq(Nat), own : Seq(Nat), dir : BOOLEAN])
      /\ Len(given) = 1 /\ IsFile(t, Head(given)) => list[i].own = Head(given)
  BY ListAssumption
<1>2. /\ given \in Seq(Seq(Nat)) /\ ~IsFile(t, NotFound)
  BY TreeAssumption DEF IsFile
<1>3. rel \in Seq(Nat)
  <2>1. list[i] \in [rel : Seq(Nat), own : Seq(Nat), dir : BOOLEAN]
    BY <1>1, ElementOfSeq
  <2> QED BY <2>1
<1>4. DOMAIN given \subseteq Nat /\ \A k \in DOMAIN given : given[k] \in Seq(Nat)
  BY <1>2
<1>5. /\ named \in SUBSET Nat /\ below \in SUBSET Nat
  BY <1>4
<1>6. path = IF Len(given) = 1 /\ IsFile(t, Head(given)) THEN Head(given)
             ELSE IF named # {} THEN given[Min(named)]
             ELSE IF below # {} THEN given[Min(below)] \o rel
             ELSE NotFound
  BY DEF FindFilePath
<1>7. named # {} => IsSuffix(rel, given[Min(named)])
  <2>1. named # {} => Min(named) \in named
    <3> HIDE DEF named
    <3> QED BY <1>5, Least
  <2> QED BY <2>1
<1>8. below # {} => IsSuffix(rel, given[Min(below)] \o rel)
  <2>1. below # {} => Min(below) \in below
    <3> HIDE DEF below
    <3> QED BY <1>5, Least
  <2>2. below # {} => given[Min(below)] \in Seq(Nat)
    BY <1>4, <2>1
  <2> QED BY <1>3, <2>2, EndsWith
<1>9. IsFile(t, path) /\ \A p \in DOMAIN t.has : IsSuffix(rel, p) => p = list[i].own
  BY DEF Unambiguous
<1> HIDE DEF named, below, list, rel, given, path
<1>10. path = list[i].own
  BY <1>1, <1>2, <1>6, <1>7, <1>8, <1>9 DEF IsFile
<1> QED BY <1>10 DEF path, list, rel

-----------------------------------------------------------------------------
(* Lines of frames, and the parts of a file.                                *)

\* A file of which c chunks are written, and one chunk more.
LEMMA FileIs ==
  ASSUME NEW o, NEW c \in Nat
  PROVE  LET F(n) == Empty \o [k \in 1..n |-> <<o, k>>] IN
         /\ Head(F(c)) = "file" /\ F(c) # <<>>
         /\ Append(F(c), <<o, c + 1>>) = F(c + 1)
         /\ F(0) = Empty
<1> DEFINE F(n) == Empty \o [k \in 1..n |-> <<o, k>>]
           S == {"file"} \cup {<<o, k>> : k \in Nat}
<1>1. ASSUME NEW n \in Nat
      PROVE  /\ F(n) \in Seq(S) /\ Len(F(n)) = n + 1 /\ F(n)[1] = "file"
             /\ \A k \in 1..n : F(n)[k + 1] = <<o, k>>
  <2> DEFINE d == [k \in 1..n |-> <<o, k>>]
  <2>1. d \in [1..n -> S] /\ \A k \in 1..n : d[k] = <<o, k>>
    BY <1>1
  <2>2. d \in Seq(S) /\ Len(d) = n
    <3> HIDE DEF d, S
    <3> QED BY <1>1, <2>1, IsASeq, LenProperties
  <2>3. Empty \in Seq(S) /\ Len(Empty) = 1 /\ Empty[1] = "file"
    BY DEF Empty
  <2> HIDE DEF d, S
  <2>4. /\ Empty \o d \in Seq(S) /\ Len(Empty \o d) = 1 + n
        /\ (Empty \o d)[1] = Empty[1]
        /\ \A k \in 1..n : (Empty \o d)[1 + k] = d[k]
    <3>1. /\ Empty \o d \in Seq(S) /\ Len(Empty \o d) = Len(Empty) + Len(d)
          /\ \A k \in 1..(Len(Empty) + Len(d)) :
                (Empty \o d)[k] = IF k <= Len(Empty) THEN Empty[k] ELSE d[k - Len(Empty)]
      BY <2>2, <2>3, ConcatProperties
    <3>2. \A k \in 1..(1 + n) : (Empty \o d)[k] = IF k <= 1 THEN Empty[k] ELSE d[k - 1]
      BY <2>2, <2>3, <3>1
    <3>3. 1 \in 1..(1 + n) /\ \A k \in 1..n : 1 + k \in 1..(1 + n) /\ ~(1 + k <= 1) /\ (1 + k) - 1 = k
      BY <1>1
    <3> QED BY <2>2, <2>3, <3>1, <3>2, <3>3
  <2>5. \A k \in 1..n : (Empty \o d)[k + 1] = <<o, k>>
    BY <1>1, <2>1, <2>4
  <2> QED BY <1>1, <2>3, <2>4, <2>5 DEF d
<1>2. <<o, c + 1>> \in S
  OBVIOUS
<1>3. Append(F(c), <<o, c + 1>>) = F(c + 1)
  <2> DEFINE q == Append(F(c), <<o, c + 1>>)
             f == F(c)
             g == F(c + 1)
             e == <<o, c + 1>>
  <2>1. /\ Len(f) = c + 1 /\ f[1] = "file" /\ \A k \in 1..c : f[k + 1] = <<o, k>>
        /\ f \in Seq(S)
    BY <1>1
  <2>2. /\ Len(g) = c + 2 /\ g[1] = "file" /\ \A k \in 1..(c + 1) : g[k + 1] = <<o, k>>
        /\ g \in Seq(S)
    <3>1. c + 1 \in Nat /\ (c + 1) + 1 = c + 2
      OBVIOUS
    <3> QED BY <1>1, <3>1
  <2>3. e \in S
    BY <1>2
  <2> HIDE DEF S, F, f, g
  <2>4. /\ q \in Seq(S) /\ Len(q) = c + 2 /\ q[c + 2] = e
        /\ \A k \in 1..(c + 1) : q[k] = f[k]
    <3>1. q = Append(f, e)
      BY DEF f
    <3> HIDE DEF q, e
    <3> QED BY <2>1, <2>3, <3>1, AppendProperties
  <2>5. ASSUME NEW k \in 1..(c + 2) PROVE q[k] = g[k]
    <3>1. CASE k = 1
      BY <2>1, <2>2, <2>4, <3>1
    <3>2. CASE k # 1 /\ k # c + 2
      <4>1. (k - 1) \in 1..c /\ (k - 1) + 1 = k /\ k \in 1..(c + 1) /\ (k - 1) \in 1..(c + 1)
        BY <3>2
      <4>2. f[k] = <<o, k - 1>> /\ g[k] = <<o, k - 1>>
        BY <2>1, <2>2, <4>1
      <4> QED BY <2>4, <4>1, <4>2
    <3>3. CASE k = c + 2
      <4>1. c + 1 \in 1..(c + 1) /\ (c + 1) + 1 = c + 2
        OBVIOUS
      <4>2. g[c + 2] = <<o, c + 1>>
        BY <2>2, <4>1
      <4> QED BY <2>4, <3>3, <4>2
    <3> QED BY <3>1, <3>2, <3>3
  <2> HIDE DEF q, e
  <2>6. q = g
    BY <2>2, <2>4, <2>5, SeqEqual
  <2> QED BY <2>6 DEF q, g, e
<1>4. Head(F(c)) = "file" /\ F(c) # <<>>
  <2> DEFINE f == F(c)
  <2>1. f \in Seq(S) /\ Len(f) = c + 1 /\ f[1] = "file"
    BY <1>1
  <2> HIDE DEF f, F, S
  <2>2. f # <<>> /\ Head(f) = "file"
    BY <2>1, HeadTailProperties, EmptySeq
  <2> QED BY <2>2 DEF f
<1>5. F(0) = Empty
  <2>1. [k \in 1..0 |-> <<o, k>>] = <<>>
    OBVIOUS
  <2>2. Empty \o <<>> = Empty
    BY Lines DEF Empty
  <2> QED BY <2>1, <2>2
<1> QED BY <1>3, <1>4, <1>5

\* The parts of a file: as long as the chunks, and one grows from another.
LEMMA PartIs ==
  ASSUME NEW i, NEW c \in Nat
  PROVE  /\ Head(Part(i, c)) = "file" /\ Part(i, c) # Nothing /\ Part(i, c) # Directory
         /\ Append(Part(i, c), <<Own(i), c + 1>>) = Part(i, c + 1)
         /\ Part(i, 0) = Empty
<1>1. /\ Head(Part(i, c)) = "file"
      /\ Append(Part(i, c), <<Own(i), c + 1>>) = Part(i, c + 1)
      /\ Part(i, 0) = Empty
  BY FileIs DEF Part
<1>2. Head(Nothing) = "nothing" /\ Head(Directory) = "directory"
  BY DEF Nothing, Directory
<1> QED BY <1>1, <1>2

(* Lines of frames.                                                         *)
LEMMA LineOf ==
  ASSUME NEW S, NEW q \in Seq(S)
  PROVE  IsLine(q)
<1> DEFINE R == {q[k] : k \in 1..Len(q)}
<1>1. q \in [1..Len(q) -> R] /\ Len(q) \in Nat
  BY LenProperties
<1> HIDE DEF R
<1>2. q \in Seq(R)
  BY <1>1, IsASeq
<1> QED BY <1>2 DEF IsLine, R

\* Reading a frame of a line leaves a line.
LEMMA LineRead ==
  ASSUME NEW q, IsLine(q)
  PROVE  /\ Len(q) \in Nat /\ (q = <<>> <=> Len(q) = 0)
         /\ q # <<>> => /\ Head(q) = q[1] /\ IsLine(Tail(q)) /\ Len(Tail(q)) = Len(q) - 1
                        /\ \A k \in 1..(Len(q) - 1) : Tail(q)[k] = q[k + 1]
<1> DEFINE R == {q[k] : k \in 1..Len(q)}
<1>1. q \in Seq(R)
  BY DEF IsLine
<1> HIDE DEF R
<1>2. Len(q) \in Nat /\ (q = <<>> <=> Len(q) = 0)
  BY <1>1, LenProperties, EmptySeq
<1>3. ASSUME q # <<>>
      PROVE  /\ Head(q) = q[1] /\ Tail(q) \in Seq(R) /\ Len(Tail(q)) = Len(q) - 1
             /\ \A k \in 1..(Len(q) - 1) : Tail(q)[k] = q[k + 1]
  BY <1>1, <1>3, HeadTailProperties
<1> QED BY <1>2, <1>3, LineOf

\* Reading on in a line without an end meets none.
LEMMA LineNotComplete ==
  ASSUME NEW q, IsLine(q), NotComplete(q)
  PROVE  /\ \A r : r = <<>> \/ (q # <<>> /\ r = Tail(q)) => IsLine(r) /\ NotComplete(r)
         /\ q # <<>> => Head(q).type # "TransferComplete"
<1>1. IsLine(<<>>) /\ NotComplete(<<>>)
  <2>1. <<>> \in Seq({})
    OBVIOUS
  <2> QED BY <2>1, LineOf, NotCompleteLines
<1>2. q # <<>> => NotComplete(Tail(q)) /\ Head(q).type # "TransferComplete"
  BY NotCompleteRead DEF IsLine
<1> QED BY <1>1, <1>2, LineRead

\* The next marker is read.
LEMMA MarkersRead ==
  ASSUME NEW q, NEW a \in Nat, NEW n \in Nat, Markers(q, a, n), Len(q) > n - a
  PROVE  /\ q # <<>> /\ Len(Tail(q)) = Len(q) - 1
         /\ \A k \in 1..(Len(q) - 1) : Tail(q)[k] = q[k + 1]
         /\ a < n => /\ Head(q) = ChunkStart(a, 0) /\ ~Stops(a)
                     /\ Markers(Tail(q), a + 1, n)
         /\ Head(q) = q[1]
<1>1. /\ IsLine(q) /\ a \in 1..n /\ Len(q) >= n - a
      /\ \A k \in 1..(n - a) : q[k] = ChunkStart(a + k - 1, 0)
      /\ \A i \in a..(n - 1) : ~Stops(i)
  BY DEF Markers
<1>2. /\ Len(q) \in Nat /\ q # <<>>
      /\ Head(q) = q[1] /\ IsLine(Tail(q)) /\ Len(Tail(q)) = Len(q) - 1
      /\ \A k \in 1..(Len(q) - 1) : Tail(q)[k] = q[k + 1]
  <2>1. Len(q) \in Nat /\ Len(q) # 0
    BY <1>1, LineRead
  <2> QED BY <1>1, <2>1, LineRead
<1>3. ASSUME a < n
      PROVE  /\ Head(q) = ChunkStart(a, 0) /\ ~Stops(a) /\ Markers(Tail(q), a + 1, n)
  <2>1. 1 \in 1..(n - a) /\ a + 1 - 1 = a /\ a \in a..(n - 1)
    BY <1>3
  <2>2. a + 1 \in 1..n /\ Len(Tail(q)) >= n - (a + 1)
    BY <1>1, <1>2, <1>3
  <2>3. ASSUME NEW k \in 1..(n - (a + 1)) PROVE Tail(q)[k] = ChunkStart((a + 1) + k - 1, 0)
    <3>1. k + 1 \in 1..(n - a) /\ k \in 1..(Len(q) - 1) /\ a + (k + 1) - 1 = (a + 1) + k - 1
      BY <1>1, <1>2
    <3> QED BY <1>1, <1>2, <3>1
  <2>4. \A i \in (a + 1)..(n - 1) : ~Stops(i)
    BY <1>1
  <2>5. Markers(Tail(q), a + 1, n)
    BY <1>2, <2>2, <2>3, <2>4 DEF Markers
  <2> QED BY <1>1, <1>2, <2>1, <2>5
<1> QED BY <1>2, <1>3

\* What is written to announce the entry at n: the markers before it, and more.
NoStops(a, n) == \A i \in a..(n - 1) : ~Stops(i)
MarkerLine(a, n) == [k \in 1..(n - a) |-> ChunkStart(a + k - 1, 0)]
LineThen(a, n, t) ==
  /\ Markers(MarkerLine(a, n) \o t, a, n)
  /\ Len(MarkerLine(a, n) \o t) = (n - a) + Len(t)
  /\ \A k \in 1..Len(t) : (MarkerLine(a, n) \o t)[(n - a) + k] = t[k]

\* The markers before an entry, and what follows them, make such a line.
LEMMA MarkersWritten ==
  ASSUME NEW a \in Nat, NEW n \in Nat, a \in 1..n, NEW T, NEW t \in Seq(T), NoStops(a, n)
  PROVE  LineThen(a, n, t)
<1> DEFINE m == [k \in 1..(n - a) |-> ChunkStart(a + k - 1, 0)]
           M == {ChunkStart(a + k - 1, 0) : k \in 1..(n - a)}
           S == M \cup T
<1>1. n - a \in Nat /\ m \in [1..(n - a) -> M]
  OBVIOUS
<1>2. m \in Seq(M) /\ Len(m) = n - a
  <2> HIDE DEF m, M
  <2> QED BY <1>1, IsASeq, LenProperties
<1>3. \A k \in 1..(n - a) : m[k] = ChunkStart(a + k - 1, 0)
  OBVIOUS
<1>4. m \in Seq(S) /\ t \in Seq(S)
  <2> HIDE DEF m, M
  <2> QED BY <1>2, SeqMonotonic
<1> HIDE DEF m, M, S
<1>5. /\ m \o t \in Seq(S) /\ Len(m \o t) = (n - a) + Len(t)
      /\ \A k \in 1..(n - a) : (m \o t)[k] = m[k]
      /\ \A k \in 1..Len(t) : (m \o t)[(n - a) + k] = t[k]
  <2>1. /\ m \o t \in Seq(S) /\ Len(m \o t) = Len(m) + Len(t)
        /\ \A k \in 1..Len(m) : (m \o t)[k] = m[k]
        /\ \A k \in 1..Len(t) : (m \o t)[Len(m) + k] = t[k]
    BY <1>4, ConcatProperties
  <2> QED BY <1>2, <2>1
<1>6. Len(t) \in Nat
  BY LenProperties
<1>7. Len(m \o t) >= n - a
  BY <1>1, <1>5, <1>6
<1>8. Markers(m \o t, a, n)
  <2>1. IsLine(m \o t)
    BY <1>5, LineOf
  <2>2. \A i \in a..(n - 1) : ~Stops(i)
    BY DEF NoStops
  <2>3. \A k \in 1..(n - a) : (m \o t)[k] = ChunkStart(a + k - 1, 0)
    BY <1>3, <1>5
  <2> QED BY <1>7, <2>1, <2>2, <2>3 DEF Markers
<1> QED BY <1>5, <1>8 DEF m, MarkerLine, LineThen

\* Where tree and list stay, so does what is said about them.
LEMMA SameList ==
  ASSUME UNCHANGED <<tree, files>>
  PROVE  \A i : /\ Own(i)' = Own(i) /\ Total(i)' = Total(i)
                /\ Stops(i)' = Stops(i) /\ HasContent(i)' = HasContent(i)
                /\ \A c : Part(i, c)' = Part(i, c)
<1>1. \A i : Own(i)' = Own(i)
  BY DEF Own, SendersFile
<1>2. \A i : Total(i)' = Total(i)
  BY <1>1 DEF Total
<1>3. \A i : Stops(i)' = Stops(i)
  BY <1>1 DEF Stops, Own, IsFile
<1>4. \A i : HasContent(i)' = HasContent(i)
  BY <1>1, <1>2 DEF HasContent, IsFile
<1>5. \A i, c : Part(i, c)' = Part(i, c)
  BY <1>1 DEF Part
<1> QED BY <1>1, <1>2, <1>3, <1>4, <1>5

\* Where the files stay too, so does what was written.
LEMMA SameFiles ==
  ASSUME UNCHANGED <<tree, files, out>>
  PROVE  /\ \A m : Through(m)' = Through(m)
         /\ UNCHANGED writing => \A n, c : Opened(n, c)' = Opened(n, c)
         /\ \A q, a, n : Markers(q, a, n)' = Markers(q, a, n)
<1>1. \A i : WholeAt(i)' = WholeAt(i)
  BY SameList DEF WholeAt
<1>2. \A m : Through(m)' = Through(m)
  BY <1>1, SameList DEF Through
<1>3. ASSUME UNCHANGED writing PROVE \A n, c : Opened(n, c)' = Opened(n, c)
  BY <1>1, <1>3, SameList DEF Opened
<1>4. \A q, a, n : Markers(q, a, n)' = Markers(q, a, n)
  BY SameList DEF Markers, IsLine
<1> QED BY <1>2, <1>3, <1>4

\* The list is a sequence, and its files have a number of chunks.
LEMMA FilesAre ==
  ASSUME Listing
  PROVE  /\ Len(files) \in Nat
         /\ \A i \in 1..Len(files) : files[i].rel \in Rels
         /\ \A i : HasContent(i) => Stops(i) /\ Total(i) \in Nat
         /\ \A i : Stops(i) /\ IsFile(tree, Own(i)) => HasContent(i)
<1>1. files \in Seq([rel : Seq(Nat), own : Seq(Nat), dir : BOOLEAN])
  BY ListAssumption DEF Listing
<1>2. Len(files) \in Nat
  BY <1>1, LenProperties
<1>3. \A p : IsFile(tree, p) => tree.has[p] \in Nat
  BY TreeAssumption DEF Listing, IsFile
<1>4. \A i : HasContent(i) => Stops(i) /\ Total(i) \in Nat
  BY <1>3 DEF HasContent, Stops, Total, Own
<1>5. \A i : Stops(i) /\ IsFile(tree, Own(i)) => HasContent(i)
  BY <1>3 DEF HasContent, Stops, Total, Own
<1> QED BY <1>2, <1>4, <1>5 DEF Rels

\* What is written from the entry at i on: the end of it all, nothing more, or
\* the announcement of the next file with content.
SendsEnd(i, q) ==
  LET n == Len(files) + 1 IN
  /\ Ends("client", "ok", q) /\ UNCHANGED sending /\ \A j \in i..Len(files) : ~Stops(j)
  /\ Markers(q, i, n) /\ Len(q) = (n - i) + 1 /\ q[(n - i) + 1] = TransferComplete
SendsNoMore(q) ==
  /\ Ends("client", "not_found", q) \/ Ends("client", "failed", q)
  /\ IsLine(q) /\ NotComplete(q)
SendsNext(i, n, q) ==
  /\ Replies("client", q, "ChunkAck") /\ sending' = <<n, 1>>
  /\ HasContent(n) /\ Markers(q, i, n) /\ Len(q) = (n - i) + 2
  /\ q[(n - i) + 1] = ChunkStart(n, Total(n)) /\ q[(n - i) + 2] = ChunkData(Own(n), 1)

\* What the sender makes of the rest of its list.
LEMMA SendsFromIs ==
  ASSUME Listing, NEW i \in 1..(Len(files) + 1), SendsFrom(i)
  PROVE  /\ UNCHANGED <<tree, files, writing, flight, out>>
         /\ \E q : \/ SendsEnd(i, q) \/ SendsNoMore(q)
                   \/ \E n \in i..Len(files) : SendsNext(i, n, q)
<1> DEFINE stops == {j \in i..Len(files) : Stops(j)}
           next == IF stops = {} THEN Len(files) + 1 ELSE Min(stops)
           path == SendersFile(files[next].rel)
           markers == MarkerLine(i, next)
           done == <<TransferComplete>>
           start == <<ChunkStart(next, tree.has[path]), ChunkData(path, 1)>>
<1>0. /\ UNCHANGED <<tree, files, writing, flight, out>>
      /\ IF stops = {} THEN Ends("client", "ok", markers \o done) /\ UNCHANGED sending
         ELSE IF path = NotFound THEN Ends("client", "not_found", markers)
         ELSE IF ~IsFile(tree, path) THEN Ends("client", "failed", markers)
         ELSE Replies("client", markers \o start, "ChunkAck") /\ sending' = <<next, 1>>
  BY DEF SendsFrom, MarkerLine
<1>1. Len(files) \in Nat /\ i \in Nat
  BY FilesAre
<1>2. ASSUME stops # {} PROVE next \in stops /\ \A j \in stops : next <= j
  <2>1. stops \in SUBSET Nat
    BY <1>1
  <2>2. Min(stops) \in stops /\ \A j \in stops : Min(stops) <= j
    <3> HIDE DEF stops
    <3> QED BY <1>2, <2>1, Least
  <2>3. next = Min(stops)
    BY <1>2
  <2> HIDE DEF stops, next
  <2> QED BY <2>2, <2>3
<1>3. next \in Nat /\ i \in 1..next /\ \A j \in i..(next - 1) : ~Stops(j)
  <2>1. CASE stops = {}
    BY <1>1, <2>1
  <2>2. CASE stops # {}
    <3>1. next \in i..Len(files) /\ \A j \in i..Len(files) : Stops(j) => next <= j
      BY <1>2, <2>2
    <3> HIDE DEF next, stops
    <3> QED BY <1>1, <3>1
  <2> QED BY <2>1, <2>2
<1>4. /\ Len(done) = 1 /\ done[1] = TransferComplete /\ done \in Seq({TransferComplete})
      /\ Len(start) = 2 /\ start[1] = ChunkStart(next, tree.has[path])
      /\ start[2] = ChunkData(path, 1)
      /\ start \in Seq({ChunkStart(next, tree.has[path]), ChunkData(path, 1)})
  OBVIOUS
<1>5. CASE stops = {}
  <2>1. next = Len(files) + 1 /\ Ends("client", "ok", markers \o done) /\ UNCHANGED sending
    BY <1>0, <1>5
  <2>2. \A j \in i..Len(files) : ~Stops(j)
    BY <1>5
  <2> HIDE DEF stops, next, path, done, start
  <2>3. /\ Markers(markers \o done, i, next)
        /\ Len(markers \o done) = (next - i) + 1
        /\ (markers \o done)[(next - i) + 1] = TransferComplete
    <3>1. /\ Markers(markers \o done, i, next)
          /\ Len(markers \o done) = (next - i) + Len(done)
          /\ \A k \in 1..Len(done) : (markers \o done)[(next - i) + k] = done[k]
      <4> DEFINE T == {TransferComplete}
      <4>1. /\ i \in Nat /\ next \in Nat /\ i \in 1..next
            /\ NoStops(i, next) /\ done \in Seq(T)
        BY <1>1, <1>3, <1>4 DEF NoStops
      <4> HIDE DEF T, markers
      <4>2. LineThen(i, next, done)
        BY <4>1, MarkersWritten
      <4>3. markers = MarkerLine(i, next)
        BY DEF markers, MarkerLine
      <4> QED BY <4>2, <4>3 DEF LineThen
    <3> HIDE DEF markers
    <3>2. 1 \in 1..Len(done) /\ Len(done) = 1 /\ done[1] = TransferComplete
      BY <1>4
    <3> QED BY <3>1, <3>2
  <2> DEFINE q == markers \o done
  <2>4. SendsEnd(i, q)
    <3> HIDE DEF markers
    <3> QED BY <2>1, <2>2, <2>3 DEF SendsEnd
  <2> HIDE DEF q
  <2> QED BY <1>0, <2>4
<1>6. CASE stops # {} /\ (path = NotFound \/ ~IsFile(tree, path))
  <2>1. Ends("client", "not_found", markers) \/ Ends("client", "failed", markers)
    BY <1>0, <1>6
  <2>2. /\ \A k \in 1..(next - i) : markers[k].type = "ChunkStart"
    BY FrameParts DEF ChunkStart, MarkerLine
  <2> HIDE DEF stops, next, path, done, start
  <2>3. IsLine(markers) /\ Len(markers) = next - i
    <3> DEFINE M == {ChunkStart(i + k - 1, 0) : k \in 1..(next - i)}
    <3>1. next - i \in Nat /\ markers \in [1..(next - i) -> M]
      BY <1>1, <1>3 DEF MarkerLine
    <3> HIDE DEF markers, M
    <3>2. markers \in Seq(M) /\ Len(markers) = next - i
      BY <3>1, IsASeq, LenProperties
    <3> QED BY <3>2, LineOf
  <2>4. NotComplete(markers)
    BY <2>2, <2>3 DEF NotComplete
  <2> HIDE DEF markers
  <2>5. SendsNoMore(markers)
    BY <2>1, <2>3, <2>4 DEF SendsNoMore
  <2> QED BY <1>0, <2>5
<1>7. CASE stops # {} /\ path # NotFound /\ IsFile(tree, path)
  <2>1. Replies("client", markers \o start, "ChunkAck") /\ sending' = <<next, 1>>
    BY <1>0, <1>7
  <2>2. next \in i..Len(files) /\ Stops(next)
    BY <1>2, <1>7
  <2>3. path = Own(next) /\ tree.has[path] = Total(next)
    BY DEF Own, Total
  <2>4. HasContent(next)
    BY <1>7, <2>2, <2>3, FilesAre
  <2> HIDE DEF stops, next, path, done, start
  <2>5. /\ Markers(markers \o start, i, next) /\ Len(markers \o start) = (next - i) + 2
        /\ \A k \in 1..2 : (markers \o start)[(next - i) + k] = start[k]
    <3>1. /\ Markers(markers \o start, i, next)
          /\ Len(markers \o start) = (next - i) + Len(start)
          /\ \A k \in 1..Len(start) : (markers \o start)[(next - i) + k] = start[k]
      <4> DEFINE T == {ChunkStart(next, tree.has[path]), ChunkData(path, 1)}
      <4>1. start \in Seq(T)
        BY <1>4
      <4> HIDE DEF T
      <4>2. /\ i \in Nat /\ next \in Nat /\ i \in 1..next
            /\ NoStops(i, next)
        BY <1>1, <1>3 DEF NoStops
      <4>3. markers = MarkerLine(i, next)
        BY DEF MarkerLine
      <4> HIDE DEF markers
      <4>4. LineThen(i, next, start)
        BY <4>1, <4>2, MarkersWritten
      <4> QED BY <4>3, <4>4 DEF LineThen
    <3> HIDE DEF markers
    <3> QED BY <1>4, <3>1
  <2>6. /\ (markers \o start)[(next - i) + 1] = ChunkStart(next, Total(next))
        /\ (markers \o start)[(next - i) + 2] = ChunkData(Own(next), 1)
    <3> HIDE DEF markers
    <3>1. 1 \in 1..2 /\ 2 \in 1..2
      OBVIOUS
    <3>2. start[1] = ChunkStart(next, Total(next)) /\ start[2] = ChunkData(Own(next), 1)
      BY <1>4, <2>3
    <3> QED BY <2>5, <3>1, <3>2
  <2> DEFINE q == markers \o start
  <2>7. SendsNext(i, next, q)
    <3> HIDE DEF markers
    <3> QED BY <2>1, <2>4, <2>5, <2>6 DEF SendsNext
  <2> HIDE DEF q
  <2> QED BY <1>0, <2>2, <2>7
<1> QED BY <1>5, <1>6, <1>7

\* What the frames of a transfer say.
LEMMA SendSays ==
  /\ Wanted.says /\ ~Unwanted.says /\ ChunkIsThere.says /\ ~ChunkIsLost.says
  /\ Wanted.type = "FileListAck" /\ Unwanted.type = "FileListAck"
  /\ ChunkIsThere.type = "ChunkAck" /\ ChunkIsLost.type = "ChunkAck"
  /\ \A who : TrustedHello(who).type = "TrustedHello"
  /\ \A who : TrustedHelloAck(who).type = "TrustedHelloAck"
  /\ FileList.type = "FileList" /\ TransferComplete.type = "TransferComplete"
  /\ \A i, t : ChunkStart(i, t).type = "ChunkStart" /\ ChunkStart(i, t).says = <<i, t>>
  /\ \A o, c : ChunkData(o, c).type = "ChunkData" /\ ChunkData(o, c).says = <<o, c>>
  BY FrameParts
     DEF Wanted, Unwanted, ChunkIsThere, ChunkIsLost, FileListAck, ChunkAck, Frame,
         TrustedHello, TrustedHelloAck, FileList, TransferComplete, ChunkStart, ChunkData

\* The lines of a transfer.
LEMMA LineOfTwo ==
  /\ IsLine(<<>>) /\ NotComplete(<<>>)
  /\ \A a : /\ IsLine(<<a>>)
            /\ a.type # "TransferComplete" => NotComplete(<<a>>)
  /\ \A a, b : /\ IsLine(<<a, b>>)
               /\ a.type # "TransferComplete" /\ b.type # "TransferComplete"
                    => NotComplete(<<a, b>>)
<1>1. IsLine(<<>>)
  <2>1. <<>> \in Seq({})
    OBVIOUS
  <2> QED BY <2>1, LineOf
<1>2. ASSUME NEW a PROVE IsLine(<<a>>)
  <2>1. <<a>> \in Seq({a})
    OBVIOUS
  <2> QED BY <2>1, LineOf
<1>3. ASSUME NEW a, NEW b PROVE IsLine(<<a, b>>)
  <2>1. <<a, b>> \in Seq({a, b})
    OBVIOUS
  <2> QED BY <2>1, LineOf
<1> QED BY <1>1, <1>2, <1>3, NotCompleteLines

\* Writing nothing leaves a line as it is.
LEMMA LineEnds ==
  ASSUME NEW q, IsLine(q)
  PROVE  q \o <<>> = q /\ <<>> \o q = q
<1> DEFINE R == {q[k] : k \in 1..Len(q)}
<1>1. q \in Seq(R)
  BY DEF IsLine
<1> HIDE DEF R
<1> QED BY <1>1, ConcatEmptySeq

\* A line of one frame.
LEMMA LineOfOne ==
  ASSUME NEW q, IsLine(q), Len(q) = 1
  PROVE  q = <<q[1]>>
<1> DEFINE R == {q[k] : k \in 1..Len(q)}
           f == q[1]
           r == <<f>>
<1>1. q \in Seq(R)
  BY DEF IsLine
<1>2. f \in R
  OBVIOUS
<1> HIDE DEF R, f
<1>3. r \in Seq(R) /\ Len(r) = 1 /\ r[1] = f
  BY <1>2
<1>4. \A k \in 1..1 : q[k] = r[k]
  BY <1>3 DEF f
<1> HIDE DEF r
<1>5. q = r
  BY <1>1, <1>3, <1>4, SeqEqual
<1> QED BY <1>5 DEF r, f

\* The announcement of the file at n, as it is made and as it is read.
LEMMA Announces ==
  ASSUME UNCHANGED <<tree, files>>, NEW a, NEW n, NEW q,
         inbox'["host"] = q, sending'[1] = n, sending'[2] = 1, writing'.file + 1 = a, writing'.file \in Nat,
         Markers(q, a, n), Len(q) = (n - a) + 2,
         q[(n - a) + 1] = ChunkStart(n, Total(n)), q[(n - a) + 2] = ChunkData(Own(n), 1),
         Through(writing.file)'
  PROVE  Announced(inbox["host"])'
<1>1. Markers(q, a, n)'
  <2>1. \A i : Stops(i)' = Stops(i)
    BY SameList
  <2> QED BY <2>1 DEF Markers, IsLine
<1>2. Total(n)' = Total(n) /\ Own(n)' = Own(n)
  BY SameList
<1> QED BY <1>1, <1>2 DEF Announced, ChunkStart, ChunkData

\* The last chunk of the entry that is open makes it whole.
LEMMA AllOpened ==
  ASSUME NEW n, Opened(n, Total(n)), HasContent(n)
  PROVE  Through(n)
<1>1. ASSUME NEW i \in 1..n, Stops(i) PROVE HasContent(i) /\ WholeAt(i)
  <2>1. CASE files[i].rel = files[n].rel
    <3>1. Own(i) = Own(n) /\ Total(i) = Total(n)
      BY <2>1 DEF Own, Total
    <3>2. Part(i, Total(i)) = Part(n, Total(n))
      BY <3>1 DEF Part
    <3> QED BY <1>1, <2>1, <3>2 DEF Opened, WholeAt
  <2> QED BY <1>1, <2>1 DEF Opened
<1> QED BY <1>1 DEF Through

\* Files with content stay what they are when another entry is made.
LEMMA WholeStays ==
  ASSUME Listing, UNCHANGED <<tree, files>>, NEW rel \in Rels, NEW thing,
         out' = [out EXCEPT ![rel] = thing]
  PROVE  /\ out'[rel] = thing
         /\ \A i \in 1..Len(files) : files[i].rel # rel /\ WholeAt(i) => WholeAt(i)'
         /\ Listing'
<1>1. \A r \in Rels : out'[r] = IF r = rel THEN thing ELSE out[r]
  BY DEF Listing
<1>2. \A i \in 1..Len(files) : files[i].rel \in Rels
  BY DEF Rels
<1>3. \A i : Part(i, Total(i))' = Part(i, Total(i))
  BY SameList DEF Part
<1>4. Listing'
  <2>1. Rels' = Rels
    BY DEF Rels
  <2>2. out' = [r \in Rels |-> out'[r]]
    BY <1>1 DEF Listing
  <2> QED BY <2>1, <2>2 DEF Listing
<1> QED BY <1>1, <1>2, <1>3, <1>4 DEF WholeAt

\* The receiver takes the marker of an entry: whatever was whole stays so.
LEMMA MarkerTaken ==
  ASSUME Shape, Listing, HandleChunkStart, at["host"] = "Chunks",
         NEW a, NEW n, a = writing.file + 1, Markers(inbox["host"], a, n),
         n <= Len(files) + 1, n \in Nat, a \in Nat, a < n, Len(inbox["host"]) > n - a
  PROVE  /\ UNCHANGED <<tree, files, sending>> /\ Listing'
         /\ flight' = "none"
         /\ \/ Fails("host") /\ UNCHANGED <<writing, out>>
            \/ /\ Replies("host", <<>>, "Chunks") /\ writing'.file = a
               /\ Markers(Tail(inbox["host"]), a + 1, n)
         /\ \A i \in 1..Len(files) : HasContent(i) /\ WholeAt(i) => WholeAt(i)'
<1> DEFINE q == inbox["host"]
           rel == files[a].rel
<1>1. /\ Head(q) = ChunkStart(a, 0) /\ ~Stops(a) /\ Markers(Tail(q), a + 1, n)
  BY MarkersRead
<1>2. Saying("host")[1] = a /\ Saying("host")[2] = 0
  BY <1>1, SendSays DEF Saying
<1>3. a # writing.file
  OBVIOUS
<1>4. /\ UNCHANGED <<tree, files, sending>> /\ flight' = "none"
      /\ \/ Fails("host") /\ UNCHANGED <<writing, out>>
         \/ /\ ~(out[rel] # Nothing /\ (Head(out[rel]) = "directory") # TRUE)
            /\ Replies("host", <<>>, "Chunks") /\ writing' = [file |-> a, writer |-> FALSE]
            /\ out' = [out EXCEPT ![rel] = Directory]
  BY <1>2, <1>3 DEF HandleChunkStart, WriteEnded
<1>5. CASE Fails("host") /\ UNCHANGED <<writing, out>>
  <2>1. Listing' /\ \A i : WholeAt(i)' = WholeAt(i)
    <3>1. \A i : Part(i, Total(i))' = Part(i, Total(i))
      BY <1>4, SameList DEF Part
    <3>2. Rels' = Rels
      BY <1>4 DEF Rels
    <3> QED BY <1>4, <1>5, <3>1, <3>2 DEF Listing, WholeAt
  <2> QED BY <1>4, <1>5, <2>1
<1>6. CASE /\ ~(out[rel] # Nothing /\ (Head(out[rel]) = "directory") # TRUE)
           /\ Replies("host", <<>>, "Chunks") /\ writing' = [file |-> a, writer |-> FALSE]
           /\ out' = [out EXCEPT ![rel] = Directory]
  <2>1. a \in 1..Len(files) /\ Len(files) \in Nat
    <3>1. a \in 1..n /\ Len(files) \in Nat
      BY FilesAre DEF Markers
    <3> QED BY <3>1
  <2>2. rel \in Rels
    BY <2>1 DEF Rels
  <2>3. /\ \A i \in 1..Len(files) : files[i].rel # rel /\ WholeAt(i) => WholeAt(i)'
        /\ Listing'
    BY <1>4, <1>6, <2>2, WholeStays
  <2>4. ASSUME NEW i \in 1..Len(files), HasContent(i), WholeAt(i) PROVE files[i].rel # rel
    <3>1. Total(i) \in Nat
      BY <2>4, FilesAre
    <3>2. Head(Part(i, Total(i))) = "file" /\ Part(i, Total(i)) # Nothing
      BY <3>1, PartIs
    <3> QED BY <1>6, <2>4, <3>2 DEF WholeAt
  <2> QED BY <1>1, <1>4, <1>6, <2>3, <2>4
<1> QED BY <1>4, <1>5, <1>6

\* It takes the start of a file: of a new one, or of the one it is writing.
LEMMA StartTaken ==
  ASSUME Shape, Listing, HandleChunkStart, at["host"] = "Chunks", NEW n \in 1..Len(files),
         HasContent(n), inbox["host"] # <<>>, Head(inbox["host"]) = ChunkStart(n, Total(n))
  PROVE  /\ UNCHANGED <<tree, files, sending>> /\ Listing'
         /\ writing.file = n => Replies("host", <<>>, "Chunks") /\ UNCHANGED <<writing, out>>
         /\ writing.file # n =>
              \/ Fails("host") /\ UNCHANGED <<writing, out>>
              \/ /\ Replies("host", <<>>, "Chunks")
                 /\ Through(n - 1) => Opened(n, 0)'
<1> DEFINE rel == files[n].rel
<1>1. Saying("host")[1] = n /\ Saying("host")[2] = Total(n)
  BY SendSays DEF Saying
<1>2. ~(Total(n) = 0 \/ files[n].dir)
  BY FilesAre DEF HasContent
<1>3. /\ UNCHANGED <<tree, files, sending>>
      /\ writing.file = n => Replies("host", <<>>, "Chunks") /\ UNCHANGED <<writing, out>>
      /\ writing.file # n =>
           \/ Fails("host") /\ UNCHANGED <<writing, out>>
           \/ /\ Replies("host", <<>>, "Chunks") /\ writing' = [file |-> n, writer |-> TRUE]
              /\ out' = [out EXCEPT ![rel] = Empty]
  BY <1>1, <1>2 DEF HandleChunkStart
<1>4. UNCHANGED <<writing, out>> => Listing'
  <2>1. Rels' = Rels
    BY <1>3 DEF Rels
  <2> QED BY <1>3, <2>1 DEF Listing
<1>5. ASSUME Replies("host", <<>>, "Chunks"), writing' = [file |-> n, writer |-> TRUE],
             out' = [out EXCEPT ![rel] = Empty]
      PROVE  Listing' /\ (Through(n - 1) => Opened(n, 0)')
  <2>1. rel \in Rels
    BY DEF Rels
  <2>2. /\ out'[rel] = Empty /\ Listing'
        /\ \A i \in 1..Len(files) : files[i].rel # rel /\ WholeAt(i) => WholeAt(i)'
    BY <1>3, <1>5, <2>1, WholeStays
  <2>3. Part(n, 0)' = Empty
    <3>1. Part(n, 0)' = Part(n, 0)
      BY <1>3, SameList
    <3> QED BY <3>1, PartIs
  <2>4. ASSUME Through(n - 1) PROVE Opened(n, 0)'
    <3>1. ASSUME NEW i \in 1..n, Stops(i)
          PROVE  HasContent(i) /\ (files[i].rel # rel => WholeAt(i)')
      <4>1. CASE i = n
        BY <4>1
      <4>2. CASE i # n
        <5>1. i \in 1..(n - 1) /\ i \in 1..Len(files)
          BY <4>2, FilesAre
        <5> QED BY <2>2, <2>4, <3>1, <5>1 DEF Through
      <4> QED BY <4>1, <4>2
    <3>2. \A i : Stops(i)' = Stops(i) /\ HasContent(i)' = HasContent(i)
      BY <1>3, SameList
    <3> QED BY <1>3, <1>5, <2>2, <2>3, <3>1, <3>2 DEF Opened
  <2> QED BY <2>2, <2>4
<1> QED BY <1>3, <1>4, <1>5

\* It writes a chunk.
LEMMA ChunkWritten ==
  ASSUME Shape, Listing, HandleChunkData, at["host"] = "Chunks", NEW n \in 1..Len(files),
         NEW c \in Nat, Opened(n, c), Head(inbox["host"]) = ChunkData(Own(n), c + 1)
  PROVE  /\ UNCHANGED <<tree, files, sending, writing>> /\ Listing'
         /\ \/ Ends("host", "failed", <<ChunkIsLost>>) /\ UNCHANGED out
            \/ Replies("host", <<ChunkIsThere>>, "Chunks") /\ Opened(n, c + 1)'
<1> DEFINE rel == files[n].rel
<1>1. Saying("host") = <<Own(n), c + 1>>
  BY SendSays DEF Saying
<1>2. writing.file = n /\ out[rel] = Part(n, c)
  BY DEF Opened
<1>3. rel \in Rels
  BY DEF Rels
<1>4. /\ UNCHANGED <<tree, files, sending, writing>>
      /\ \/ Ends("host", "failed", <<ChunkIsLost>>) /\ UNCHANGED out
         \/ /\ Replies("host", <<ChunkIsThere>>, "Chunks")
            /\ out' = [out EXCEPT ![rel] = Append(@, Saying("host"))]
  BY <1>2 DEF HandleChunkData, ChunkIsLost, ChunkIsThere
<1>5. CASE UNCHANGED out /\ Ends("host", "failed", <<ChunkIsLost>>)
  <2>1. Rels' = Rels
    BY <1>4 DEF Rels
  <2> QED BY <1>4, <1>5, <2>1 DEF Listing
<1>6. CASE /\ Replies("host", <<ChunkIsThere>>, "Chunks")
           /\ out' = [out EXCEPT ![rel] = Append(@, Saying("host"))]
  <2>1. Append(Part(n, c), <<Own(n), c + 1>>) = Part(n, c + 1)
    BY PartIs
  <2>2. out' = [out EXCEPT ![rel] = Part(n, c + 1)]
    <3>1. out' = [out EXCEPT ![rel] = Append(out[rel], Saying("host"))]
      BY <1>6
    <3> QED BY <1>1, <1>2, <2>1, <3>1
  <2>3. /\ out'[rel] = Part(n, c + 1) /\ Listing'
        /\ \A i \in 1..Len(files) : files[i].rel # rel /\ WholeAt(i) => WholeAt(i)'
    BY <1>3, <1>4, <2>2, WholeStays
  <2>4. /\ \A i : Stops(i)' = Stops(i) /\ HasContent(i)' = HasContent(i)
        /\ Part(n, c + 1)' = Part(n, c + 1)
    BY <1>4, SameList
  <2>5. \A i \in 1..n : i \in 1..Len(files)
    BY FilesAre
  <2>6. Opened(n, c + 1)'
    BY <1>4, <2>3, <2>4, <2>5 DEF Opened
  <2> QED BY <1>4, <1>6, <2>3, <2>6
<1> QED BY <1>4, <1>5, <1>6

-----------------------------------------------------------------------------
(* The sender and the receiver, while both are there.                       *)

\* In a row of the transfer both are connected.
LEMMA SendLive == SendRow => Connected("host") /\ Connected("client")
  BY DEF SendRow, ChunkRow, Row, Connected, Before, After

\* Its first row.
LEMMA SendConnect ==
  ASSUME SendPair, Connect, Fresh, NoTransfer,
         outcome["host"] = "none" /\ outcome["client"] = "none"
  PROVE  Sends'
<1>1. kind.host = "trusted_receive" /\ kind.client = "trusted_send"
  BY DEF SendPair, Sending, Receiving
<1>2. Row("TrustedHello", "TrustedHelloAck", <<TrustedHello("client")>>, <<>>)'
  BY <1>1, ConnectIs DEF Starts, Opening, DeviceStarts, SendStarts, Row
<1>3. Fresh'
  BY DEF Fresh, NoTransfer, trustedVars
<1> QED BY <1>2, <1>3, ConnectIs DEF SendRow, Sends

\* What is on its way to the receiver is a line without an end.
LEMMA SendFrames ==
  ASSUME SendRow, Listing
  PROVE  /\ IsLine(inbox["host"]) /\ NotComplete(inbox["host"])
         /\ NotSyncing("host") /\ at["client"] # "pinging" /\ NotSyncing("client")
<1>1. NotSyncing("host") /\ at["client"] # "pinging" /\ NotSyncing("client")
  BY DEF SendRow, ChunkRow, Row, NotSyncing
<1> SUFFICES IsLine(inbox["host"]) /\ NotComplete(inbox["host"])
  BY <1>1
<1>2. ASSUME Announced(inbox["host"]), SendState
      PROVE  IsLine(inbox["host"]) /\ NotComplete(inbox["host"])
  <2> DEFINE q == inbox["host"]
             n == sending[1]
             a == writing.file + 1
  <2>1. /\ IsLine(q) /\ a \in 1..n /\ Len(q) = (n - a) + 2
        /\ \A k \in 1..(n - a) : q[k] = ChunkStart(a + k - 1, 0)
        /\ q[(n - a) + 1] = ChunkStart(n, Total(n)) /\ q[(n - a) + 2] = ChunkData(Own(n), 1)
    BY <1>2 DEF Announced, Markers
  <2>2. n \in Nat /\ a \in Nat
    BY <1>2, <2>1, FilesAre DEF SendState
  <2> HIDE DEF q, n, a
  <2>3. ASSUME NEW k \in 1..Len(q) PROVE q[k].type # "TransferComplete"
    <3>1. k \in 1..(n - a) \/ k = (n - a) + 1 \/ k = (n - a) + 2
      BY <2>1, <2>2
    <3>2. \/ \E i, t : q[k] = ChunkStart(i, t)
          \/ \E o, c : q[k] = ChunkData(o, c)
      BY <2>1, <3>1
    <3> QED BY <3>2, SendSays
  <2>4. NotComplete(q)
    BY <2>3 DEF NotComplete
  <2> QED BY <2>1, <2>4 DEF q
<1>3. CASE ChunkRow
  <2>1. CASE Announced(inbox["host"])
    BY <1>2, <1>3, <2>1 DEF ChunkRow
  <2>2. CASE inbox["host"] = <<>>
    BY <2>2, LineOfTwo
  <2>3. CASE Written
    <3>1. \/ \E n, t, o, c : inbox["host"] = <<ChunkStart(n, t), ChunkData(o, c)>>
          \/ \E o, c : inbox["host"] = <<ChunkData(o, c)>>
      BY <2>3 DEF Written
    <3>2. ASSUME NEW n, NEW t, NEW o, NEW c
          PROVE  /\ IsLine(<<ChunkStart(n, t), ChunkData(o, c)>>)
                 /\ NotComplete(<<ChunkStart(n, t), ChunkData(o, c)>>)
                 /\ IsLine(<<ChunkData(o, c)>>) /\ NotComplete(<<ChunkData(o, c)>>)
      <4>1. /\ ChunkStart(n, t).type # "TransferComplete"
            /\ ChunkData(o, c).type # "TransferComplete"
        BY SendSays
      <4> QED BY <4>1, LineOfTwo
    <3> QED BY <3>1, <3>2
  <2> QED BY <1>3, <2>1, <2>2, <2>3 DEF ChunkRow
<1>4. CASE ~ChunkRow
  <2>1. \/ inbox["host"] = <<>> \/ inbox["host"] = <<FileList>>
        \/ inbox["host"] = <<TrustedHello("client")>>
    BY <1>4 DEF SendRow, Row
  <2>2. FileList.type # "TransferComplete" /\ TrustedHello("client").type # "TransferComplete"
    BY SendSays
  <2> QED BY <2>1, <2>2, LineOfTwo
<1> QED BY <1>3, <1>4

\* One of the two fails.
LEMMA SendFails ==
  ASSUME Shape, Listing, SendRow, Sends, NEW p \in Side, Fails(p),
         UNCHANGED <<tree, files, sending, writing, out>>,
         at["client"] # "ChunkAck" => UNCHANGED flight
  PROVE  SendLeft'
<1>0. Connected("host") /\ Connected("client")
  BY SendLive
<1>1. CASE p = "host"
  <2>1. Ends("host", "failed", <<>>)
    BY <1>1 DEF Fails
  <2>2. /\ at'["host"] = "over" /\ outcome'["host"] = "failed" /\ inbox'["host"] = <<>>
        /\ at'["client"] = at["client"] /\ outcome'["client"] = outcome["client"]
    BY <2>1, EndsIs, Sides, Zenon
  <2>3. inbox["client"] \o <<>> = inbox["client"]
    BY Lines DEF SendRow, ChunkRow, Acknowledged, Row
  <2>4. inbox'["client"] = inbox["client"]
    BY <2>1, <2>3, EndsQuietly
  <2>5. \/ at["client"] = "TrustedHelloAck" /\ inbox["client"] \in {<<>>, <<TrustedHelloAck("host")>>}
        \/ at["client"] = "FileListAck" /\ inbox["client"] = <<>>
        \/ at["client"] = "FileListAck" /\ inbox["client"] = <<Wanted>>
        \/ at["client"] = "ChunkAck" /\ inbox["client"] = <<>>
        \/ at["client"] = "ChunkAck" /\ SendState /\ Acknowledged
    BY DEF SendRow, ChunkRow, Row
  <2>6. /\ SendState' = SendState
        /\ inbox'["client"] = inbox["client"] => Acknowledged' = Acknowledged
    BY SameList, SameFiles DEF SendState, Acknowledged, HasContent
  <2>8. at["client"] # "ChunkAck" => flight' = "none"
    BY DEF SendRow, ChunkRow, Row, Fresh
  <2>7. SendHostGone'
    BY <2>2, <2>4, <2>5, <2>6, <2>8 DEF SendHostGone
  <2> QED BY <2>2, <2>7 DEF SendLeft, Sends
<1>2. CASE p = "client"
  <2>1. Ends("client", "failed", <<>>)
    BY <1>2 DEF Fails
  <2>2. /\ at'["client"] = "over" /\ outcome'["client"] = "failed"
        /\ at'["host"] = at["host"] /\ outcome'["host"] = outcome["host"]
    BY <2>1, EndsIs, Sides, Zenon
  <2>3. IsLine(inbox["host"]) /\ NotComplete(inbox["host"]) /\ NotSyncing("host")
    BY SendFrames
  <2>4. inbox'["host"] = inbox["host"]
    BY <2>1, <2>3, EndsQuietly, LineEnds
  <2>5. SendClientGone'
    BY <2>2, <2>3, <2>4 DEF SendClientGone, IsLine, NotComplete, NotSyncing, Sends
  <2> QED BY <2>5 DEF SendLeft
<1> QED BY <1>1, <1>2, Sides

\* Where no later entry stops, all entries are through.
LEMMA NothingElseStops ==
  ASSUME Listing, NEW i \in 1..(Len(files) + 1), Through(i - 1),
         \A j \in i..Len(files) : ~Stops(j)
  PROVE  AllWritten
<1>1. Len(files) \in Nat
  BY FilesAre
<1>2. ASSUME NEW j \in 1..Len(files), Stops(j) PROVE HasContent(j) /\ WholeAt(j)
  <2>1. j \in 1..(i - 1)
    BY <1>1, <1>2
  <2> QED BY <1>2, <2>1 DEF Through
<1> QED BY <1>2 DEF AllWritten, Through

\* The sender goes on from the entry at i; the receiver listens.
LEMMA SendsOn ==
  ASSUME Shape, Listing, NEW i \in 1..(Len(files) + 1), SendsFrom(i),
         writing.file + 1 = i, writing.file \in Nat, Through(writing.file),
         flight # "none" => writing.file = sending[1], outcome["host"] = "none", outcome["client"] = "none",
         at["host"] = "Chunks", inbox["host"] = <<>>,
         Connected("client"), NEW f, inbox["client"] = <<f>>
  PROVE  Sends' \/ SendLeft'
<1>0. Connected("host") /\ Connected("client")
  BY DEF Connected, Before, After
<1>1. UNCHANGED <<tree, files, writing, flight, out>>
  BY SendsFromIs
<1>2. PICK q : \/ SendsEnd(i, q) \/ SendsNoMore(q)
               \/ \E n \in i..Len(files) : SendsNext(i, n, q)
  BY SendsFromIs
<1>3. Len(files) \in Nat /\ i - 1 = writing.file
  BY FilesAre
<1>4. CASE SendsEnd(i, q)
  <2> DEFINE n == Len(files) + 1
  <2>1. /\ Ends("client", "ok", q) /\ \A j \in i..Len(files) : ~Stops(j)
        /\ Markers(q, i, n) /\ Len(q) = (n - i) + 1 /\ q[(n - i) + 1] = TransferComplete
    BY <1>4 DEF SendsEnd
  <2>2. /\ at'["client"] = "over" /\ outcome'["client"] = "ok"
        /\ at'["host"] = at["host"] /\ outcome'["host"] = outcome["host"]
    BY <2>1, EndsIs, Sides, Zenon
  <2>3. inbox'["host"] = q
    <3>1. inbox'["host"] = <<>> \o q
      BY <1>0, <2>1, EndsWriting
    <3> QED BY <2>1, <3>1, LineEnds DEF Markers
  <2>4. AllWritten
    BY <1>3, <2>1, NothingElseStops
  <2>5. AllWritten'
    <3>1. \A m : Through(m)' = Through(m)
      BY <1>1, SameFiles
    <3> QED BY <1>1, <2>4, <3>1 DEF AllWritten
  <2>6. Finished(inbox["host"])'
    <3>1. Markers(q, i, n)'
      <4>1. \A j : Stops(j)' = Stops(j)
        BY <1>1, SameList
      <4> QED BY <1>1, <2>1, <4>1 DEF Markers, IsLine
    <3> QED BY <1>1, <2>1, <2>3, <3>1 DEF Finished, TransferComplete
  <2>8. Ended'
    BY <1>1, <1>4, <2>2 DEF SendsEnd, Ended
  <2>7. SendDone'
    BY <2>2, <2>5, <2>6, <2>8 DEF SendDone
  <2> QED BY <2>7 DEF SendLeft
<1>5. CASE SendsNoMore(q)
  <2>1. PICK result \in {"not_found", "failed"} : Ends("client", result, q)
    BY <1>5 DEF SendsNoMore
  <2>2. /\ at'["client"] = "over" /\ outcome'["client"] = result
        /\ at'["host"] = at["host"] /\ outcome'["host"] = outcome["host"]
    BY <2>1, EndsIs, Sides, Zenon
  <2>3. inbox'["host"] = q
    <3>1. inbox'["host"] = <<>> \o q
      BY <1>0, <2>1, EndsWriting
    <3> QED BY <1>5, <3>1, LineEnds DEF SendsNoMore
  <2>4. SendClientGone'
    BY <1>5, <2>2, <2>3 DEF SendsNoMore, SendClientGone, IsLine, NotComplete, NotSyncing
  <2> QED BY <2>4 DEF SendLeft
<1>6. ASSUME NEW n \in i..Len(files), SendsNext(i, n, q) PROVE Sends'
  <2>1. /\ Replies("client", q, "ChunkAck") /\ sending' = <<n, 1>>
        /\ HasContent(n) /\ Markers(q, i, n) /\ Len(q) = (n - i) + 2
        /\ q[(n - i) + 1] = ChunkStart(n, Total(n)) /\ q[(n - i) + 2] = ChunkData(Own(n), 1)
    BY <1>6 DEF SendsNext
  <2>2. /\ at'["client"] = "ChunkAck" /\ at'["host"] = "Chunks" /\ outcome' = outcome
        /\ inbox'["client"] = <<>> /\ inbox'["host"] = <<>> \o q
    <3>1. Tail(inbox["client"]) = <<>>
      BY Lines
    <3> QED BY <1>0, <2>1, <3>1, Answers
  <2>3. inbox'["host"] = q
    BY <2>1, <2>2, LineEnds DEF Markers
  <2>4. Through(writing.file)'
    <3>1. \A m : Through(m)' = Through(m)
      BY <1>1, SameFiles
    <3> QED BY <1>1, <3>1
  <2>5. Announced(inbox["host"])'
    <3>1. sending'[1] = n /\ sending'[2] = 1 /\ UNCHANGED <<tree, files>>
          /\ writing'.file + 1 = i /\ writing'.file \in Nat
      BY <1>1, <2>1
    <3> QED BY <2>1, <2>3, <2>4, <3>1, Announces
  <2>6. SendState'
    <3>1. HasContent(n)' = HasContent(n) /\ Total(n)' = Total(n)
      BY <1>1, SameList
    <3>2. Total(n) \in Nat /\ Total(n) > 0 /\ n \in 1..Len(files)
      BY <1>3, <2>1, FilesAre DEF HasContent
    <3>3. sending'[1] = n /\ sending'[2] = 1 /\ files' = files
      BY <1>1, <2>1
    <3> QED BY <2>1, <3>1, <3>2, <3>3 DEF SendState
  <2>7. SendRow'
    BY <2>2, <2>5, <2>6 DEF ChunkRow, SendRow
  <2> QED BY <2>2, <2>7 DEF Sends
<1> QED BY <1>2, <1>4, <1>5, <1>6

\* The handshake and the list.
LEMMA SendOpens ==
  ASSUME Shape, Listing, SendPair, Sends, SendRow, SameUsers,
         SenderTakesHelloAck \/ ReceiverTakesTrustedHello \/ ReceiveFileList
           \/ AcceptFiles \/ DeclineFiles
  PROVE  (Sends' \/ SendLeft') /\ Listing'
<1>0. Connected("host") /\ Connected("client")
  BY SendLive
<1>n. outcome["host"] = "none" /\ outcome["client"] = "none"
  BY DEF Sends
<1>s. /\ UNCHANGED trustedVars
      /\ UNCHANGED <<tree, files, sending, writing, out>> /\ UNCHANGED flight
  BY DEF SenderTakesHelloAck, ReceiverTakesTrustedHello, ReceiveFileList, AcceptFiles,
         DeclineFiles, NoTransfer, trustedVars
<1>l. Listing' /\ Fresh' = Fresh
  BY <1>s DEF Listing, Rels, Fresh, trustedVars
<1> SUFFICES Sends' \/ SendLeft'
  BY <1>l
<1> USE Sides, Answers DEF Row, Takes
<1>1. CASE SenderTakesHelloAck
  <2>1. Row("FileList", "TrustedHelloAck", <<>>, <<TrustedHelloAck("host")>>) /\ Fresh
    BY <1>1 DEF SenderTakesHelloAck, SendRow, ChunkRow
  <2>2. Replies("client", <<FileList>>, "FileListAck")
    BY <1>1 DEF SenderTakesHelloAck
  <2>3. Row("FileList", "FileListAck", <<FileList>>, <<>>)' /\ outcome' = outcome
    BY <1>0, <2>1, <2>2, Lines
  <2> QED BY <1>n, <1>l, <2>1, <2>3 DEF SendRow, Sends
<1>2. CASE ReceiverTakesTrustedHello
  <2>1. Row("TrustedHello", "TrustedHelloAck", <<TrustedHello("client")>>, <<>>) /\ Fresh
    BY <1>2 DEF ReceiverTakesTrustedHello, SendRow, ChunkRow
  <2>2. CASE Fails("host")
    BY <1>s, <2>2, SendFails
  <2>3. CASE Replies("host", <<TrustedHelloAck("host")>>, "FileList")
    <3>1. Row("FileList", "TrustedHelloAck", <<>>, <<TrustedHelloAck("host")>>)' /\ outcome' = outcome
      BY <1>0, <2>1, <2>3, Lines
    <3> QED BY <1>n, <1>l, <2>1, <3>1 DEF SendRow, Sends
  <2> QED BY <1>2, <2>2, <2>3 DEF ReceiverTakesTrustedHello
<1>3. CASE ReceiveFileList
  <2>1. Row("FileList", "FileListAck", <<FileList>>, <<>>) /\ Fresh
    BY <1>3 DEF ReceiveFileList, SendRow, ChunkRow
  <2>2. Row("asked", "FileListAck", <<>>, <<>>)' /\ outcome' = outcome
    BY <1>0, <1>3, <2>1, Lines DEF ReceiveFileList
  <2> QED BY <1>n, <1>l, <2>1, <2>2 DEF SendRow, Sends
<1>4. CASE AcceptFiles
  <2>1. Row("asked", "FileListAck", <<>>, <<>>) /\ Fresh
    BY <1>4 DEF AcceptFiles, SendRow, ChunkRow
  <2>2. Goes("host", "Chunks", <<Wanted>>, inbox["host"])
    BY <1>4 DEF AcceptFiles, Wanted, Writes
  <2>3. /\ at'["host"] = "Chunks" /\ at'["client"] = at["client"]
        /\ inbox'["host"] = inbox["host"] /\ inbox'["client"] = inbox["client"] \o <<Wanted>>
        /\ outcome' = outcome
    BY <1>0, <2>2, GoOn, Zenon
  <2>5. <<>> \o <<Wanted>> = <<Wanted>>
    BY Lines
  <2>6. Row("Chunks", "FileListAck", <<>>, <<Wanted>>)'
    <3>1. Wanted' = Wanted
      BY DEF Wanted, FileListAck, Frame
    <3> QED BY <2>1, <2>3, <2>5, <3>1
  <2> QED BY <1>n, <1>l, <2>1, <2>3, <2>6 DEF SendRow, Sends
<1>5. CASE DeclineFiles
  <2>1. Row("asked", "FileListAck", <<>>, <<>>) /\ Fresh
    BY <1>5 DEF DeclineFiles, SendRow, ChunkRow
  <2>2. Ends("host", "declined", <<Unwanted>>)
    BY <1>5 DEF DeclineFiles, Unwanted
  <2>3. /\ at'["host"] = "over" /\ outcome'["host"] = "declined" /\ inbox'["host"] = <<>>
        /\ at'["client"] = at["client"] /\ outcome'["client"] = outcome["client"]
    BY <2>2, EndsIs, Zenon
  <2>4. inbox'["client"] = <<Unwanted>>
    BY <1>0, <2>1, <2>2, EndsWriting, Lines
  <2>5. SendHostGone'
    BY <1>s, <2>1, <2>3, <2>4 DEF SendHostGone, Fresh
  <2> QED BY <1>n, <2>3, <2>5 DEF SendLeft
<1> QED BY <1>1, <1>2, <1>3, <1>4, <1>5

\* The sender reads an answer.
LEMMA SendAnswered ==
  ASSUME Shape, Listing, SendPair, Sends, SendRow, SenderTakesListAck \/ SenderTakesChunkAck
  PROVE  (Sends' \/ SendLeft') /\ Listing'
<1>0. Connected("host") /\ Connected("client")
  BY SendLive
<1>n. outcome["host"] = "none" /\ outcome["client"] = "none"
  BY DEF Sends
<1>l. ASSUME UNCHANGED <<tree, files, out>> PROVE Listing'
  BY <1>l DEF Listing, Rels
<1>1. CASE SenderTakesListAck
  <2>1. Row("Chunks", "FileListAck", <<>>, <<Wanted>>) /\ Fresh
    BY <1>1 DEF SenderTakesListAck, SendRow, ChunkRow, Row, Takes
  <2>2. SendsFrom(1)
    <3>1. Saying("client")
      BY <2>1, SendSays, Lines DEF Row, Saying
    <3> QED BY <1>1, <3>1 DEF SenderTakesListAck
  <2>3. 1 \in 1..(Len(files) + 1) /\ writing.file + 1 = 1 /\ writing.file \in Nat
    BY <2>1, FilesAre DEF Fresh
  <2>4. Through(writing.file)
    BY <2>1 DEF Fresh, Through
  <2>5. Sends' \/ SendLeft'
    BY <1>0, <1>n, <2>1, <2>2, <2>3, <2>4, SendsOn DEF Row, Fresh
  <2>6. UNCHANGED <<tree, files, out>>
    BY <2>2, <2>3, SendsFromIs
  <2> QED BY <1>l, <2>5, <2>6
<1>2. CASE SenderTakesChunkAck
  <2>0. PICK n, c : n = sending[1] /\ c = sending[2]
    OBVIOUS
  <2>1. /\ SendState /\ Acknowledged /\ inbox["host"] = <<>>
        /\ at["host"] = "Chunks" /\ at["client"] = "ChunkAck"
    BY <1>2 DEF SenderTakesChunkAck, SendRow, ChunkRow, Row, Takes
  <2>2. /\ n \in 1..Len(files) /\ HasContent(n) /\ c \in 1..Total(n)
        /\ inbox["client"] = <<ChunkIsThere>> /\ Opened(n, c)
    BY <2>0, <2>1 DEF SendState, Acknowledged
  <2>3. Total(n) \in Nat /\ Len(files) \in Nat
    BY <2>2, FilesAre
  <2>4. Saying("client")
    BY <2>2, SendSays, Lines DEF Saying
  <2>5. /\ c < Total(n) =>
             /\ Replies("client", <<ChunkStart(n, Total(n)), ChunkData(Own(n), c + 1)>>, "ChunkAck")
             /\ sending' = <<n, c + 1>> /\ UNCHANGED <<tree, files, writing, flight, out>>
        /\ ~(c < Total(n)) => SendsFrom(n + 1)
    BY <1>2, <2>0, <2>4 DEF SenderTakesChunkAck, Own, Total
  <2>6. CASE c < Total(n)
    <3> DEFINE q == <<ChunkStart(n, Total(n)), ChunkData(Own(n), c + 1)>>
    <3>1. /\ Replies("client", q, "ChunkAck")
          /\ sending' = <<n, c + 1>> /\ UNCHANGED <<tree, files, writing, flight, out>>
      BY <2>5, <2>6
    <3>a. Tail(inbox["client"]) = <<>> /\ <<>> \o q = q
      BY <2>2, Lines
    <3> HIDE DEF q
    <3>2. /\ at'["client"] = "ChunkAck" /\ at'["host"] = "Chunks" /\ outcome' = outcome
          /\ inbox'["client"] = <<>> /\ inbox'["host"] = q
      BY <1>0, <2>1, <3>1, <3>a, Answers
    <3>3. /\ sending'[1] = n /\ sending'[2] = c + 1
          /\ HasContent(n)' = HasContent(n) /\ Total(n)' = Total(n) /\ Own(n)' = Own(n)
          /\ Opened(n, c)' = Opened(n, c)
      BY <3>1, SameList, SameFiles
    <3>4. c + 1 > 1 /\ (c + 1) - 1 = c /\ c + 1 \in 1..Total(n)
      BY <2>2, <2>3, <2>6
    <3>5. SendState'
      BY <2>2, <3>1, <3>3, <3>4 DEF SendState
    <3>6. Written'
      BY <2>2, <3>1, <3>2, <3>3, <3>4 DEF Written, q, ChunkStart, ChunkData
    <3>7. SendRow'
      BY <3>2, <3>5, <3>6 DEF SendRow, ChunkRow
    <3> QED BY <1>n, <1>l, <3>1, <3>2, <3>7 DEF Sends
  <2>7. CASE ~(c < Total(n))
    <3>1. SendsFrom(n + 1) /\ n + 1 \in 1..(Len(files) + 1) /\ c = Total(n)
      BY <2>2, <2>3, <2>5, <2>7
    <3>2. writing.file = n /\ Through(n)
      BY <2>2, <3>1, AllOpened DEF Opened
    <3>3. Sends' \/ SendLeft'
      BY <1>0, <1>n, <2>0, <2>1, <2>2, <3>1, <3>2, SendsOn
    <3>4. UNCHANGED <<tree, files, out>>
      BY <3>1, SendsFromIs
    <3> QED BY <1>l, <3>3, <3>4
  <2> QED BY <2>6, <2>7
<1> QED BY <1>1, <1>2

\* What the receiver does once it has said yes.
LEMMA RowReceives ==
  ASSUME SendRow,
         HandleChunkStart \/ CannotCreate \/ HandleChunkData \/ TakesTransferComplete
  PROVE  /\ at["host"] = "Chunks" /\ at["client"] = "ChunkAck" /\ SendState
         /\ inbox["client"] = <<>> /\ inbox["host"] # <<>>
         /\ Announced(inbox["host"]) \/ Written
<1>1. at["host"] = "Chunks" /\ inbox["host"] # <<>>
  BY DEF HandleChunkStart, CannotCreate, HandleChunkData, TakesTransferComplete, Takes
<1> QED BY <1>1 DEF SendRow, ChunkRow, Row

\* An entry is announced: the line begins with a marker or with the entry.
LEMMA AnnouncedIs ==
  ASSUME Listing, SendState, Announced(inbox["host"])
  PROVE  \E q, n, a :
           /\ q = inbox["host"] /\ n = sending[1] /\ a = writing.file + 1
           /\ n \in 1..Len(files) /\ Len(files) \in Nat /\ sending[2] = 1 /\ HasContent(n)
           /\ a \in 1..n /\ writing.file \in Nat
           /\ Markers(q, a, n) /\ Len(q) = (n - a) + 2
           /\ q[(n - a) + 1] = ChunkStart(n, Total(n)) /\ q[(n - a) + 2] = ChunkData(Own(n), 1)
           /\ Through(writing.file)
<1>1. PICK q, n, a : q = inbox["host"] /\ n = sending[1] /\ a = writing.file + 1
  OBVIOUS
<1>2. /\ n \in 1..Len(files) /\ Len(files) \in Nat /\ sending[2] = 1 /\ HasContent(n)
      /\ a \in 1..n /\ writing.file \in Nat
      /\ Markers(q, a, n) /\ Len(q) = (n - a) + 2
      /\ q[(n - a) + 1] = ChunkStart(n, Total(n)) /\ q[(n - a) + 2] = ChunkData(Own(n), 1)
      /\ Through(writing.file)
  BY <1>1, FilesAre DEF Announced, SendState, Markers
<1> QED BY <1>1, <1>2

\* Every file is as it was, or whole.
LEMMA ThroughStays ==
  ASSUME UNCHANGED <<tree, files>>, NEW m \in Nat, Len(files) \in Nat, m <= Len(files), Through(m),
         \A i \in 1..Len(files) : HasContent(i) /\ WholeAt(i) => WholeAt(i)'
  PROVE  Through(m)'
<1>1. \A i : Stops(i)' = Stops(i) /\ HasContent(i)' = HasContent(i)
  BY SameList
<1>2. \A i \in 1..m : i \in 1..Len(files)
  OBVIOUS
<1> QED BY <1>1, <1>2 DEF Through

\* The receiver takes an announcement.
LEMMA TakesAnnounced ==
  ASSUME Shape, Listing, SendPair, Sends, SendRow, HandleChunkStart, Announced(inbox["host"])
  PROVE  (Sends' \/ SendLeft') /\ Listing'
<1>0. Connected("host") /\ Connected("client")
  BY SendLive
<1>n. outcome["host"] = "none" /\ outcome["client"] = "none"
  BY DEF Sends
<1>1. /\ at["host"] = "Chunks" /\ at["client"] = "ChunkAck" /\ SendState
      /\ inbox["client"] = <<>> /\ inbox["host"] # <<>>
  BY RowReceives
<1>3. PICK q, n, a :
      /\ q = inbox["host"] /\ n = sending[1] /\ a = writing.file + 1
      /\ n \in 1..Len(files) /\ Len(files) \in Nat /\ sending[2] = 1 /\ HasContent(n)
      /\ a \in 1..n /\ writing.file \in Nat
      /\ Markers(q, a, n) /\ Len(q) = (n - a) + 2
      /\ q[(n - a) + 1] = ChunkStart(n, Total(n)) /\ q[(n - a) + 2] = ChunkData(Own(n), 1)
      /\ Through(writing.file)
  BY <1>1, AnnouncedIs
<1>4. /\ Len(Tail(q)) = Len(q) - 1 /\ \A k \in 1..(Len(q) - 1) : Tail(q)[k] = q[k + 1]
      /\ Head(q) = q[1] /\ Len(q) > n - a
  <2>1. a \in Nat /\ n \in Nat /\ Len(q) > n - a
    BY <1>3
  <2> QED BY <1>3, <2>1, MarkersRead
<1>f. ASSUME Fails("host"), UNCHANGED <<tree, files, sending, writing, out>>
      PROVE  SendLeft' /\ Listing'
  <2>1. SendLeft'
    BY <1>1, <1>f, SendFails, Sides
  <2>2. Listing'
    BY <1>f DEF Listing, Rels
  <2> QED BY <2>1, <2>2
<1>5. CASE a < n
  <2>1. /\ UNCHANGED <<tree, files, sending>> /\ Listing'
        /\ \/ Fails("host") /\ UNCHANGED <<writing, out>>
           \/ /\ Replies("host", <<>>, "Chunks") /\ writing'.file = a
              /\ Markers(Tail(q), a + 1, n)
        /\ \A i \in 1..Len(files) : HasContent(i) /\ WholeAt(i) => WholeAt(i)'
    <3>1. n <= Len(files) + 1 /\ n \in Nat /\ a \in Nat
      BY <1>3
    <3> QED BY <1>1, <1>3, <1>4, <1>5, <3>1, MarkerTaken
  <2>2. CASE Replies("host", <<>>, "Chunks") /\ writing'.file = a /\ Markers(Tail(q), a + 1, n)
    <3> DEFINE r == Tail(q)
    <3>1. /\ at'["host"] = "Chunks" /\ at'["client"] = "ChunkAck" /\ outcome' = outcome
          /\ inbox'["host"] = r /\ inbox'["client"] = <<>>
      BY <1>0, <1>1, <1>3, <2>2, Answers, Lines
    <3>2. /\ Len(r) = (n - (a + 1)) + 2
          /\ r[(n - (a + 1)) + 1] = ChunkStart(n, Total(n))
          /\ r[(n - (a + 1)) + 2] = ChunkData(Own(n), 1)
      <4>1. /\ (n - (a + 1)) + 1 \in 1..(Len(q) - 1) /\ ((n - (a + 1)) + 1) + 1 = (n - a) + 1
            /\ (n - (a + 1)) + 2 \in 1..(Len(q) - 1) /\ ((n - (a + 1)) + 2) + 1 = (n - a) + 2
            /\ (n - (a + 1)) + 2 = Len(q) - 1
        <5>1. n \in Nat /\ a \in Nat /\ a < n /\ Len(q) = (n - a) + 2
          BY <1>3, <1>5
        <5> QED BY <5>1
      <4> QED BY <1>3, <1>4, <4>1
    <3> HIDE DEF r
    <3>3. Through(writing.file)'
      <4>1. Through(a)
        <5>1. ~Stops(a) /\ \A i \in 1..a : i = a \/ i \in 1..writing.file
          <6>1. a \in a..(n - 1)
            BY <1>3, <1>5
          <6> QED BY <1>3, <6>1 DEF Markers
        <5> QED BY <1>3, <5>1 DEF Through
      <4>2. a \in Nat /\ a <= Len(files)
        BY <1>3
      <4>3. Through(a)'
        BY <1>3, <2>1, <4>1, <4>2, ThroughStays
      <4> QED BY <2>2, <4>3
    <3>4. /\ sending'[1] = n /\ sending'[2] = 1 /\ writing'.file + 1 = a + 1
          /\ writing'.file \in Nat
      BY <1>3, <2>1, <2>2
    <3>5. Announced(inbox["host"])'
      <4>1. Markers(r, a + 1, n)
        BY <2>2 DEF r
      <4> QED BY <2>1, <3>1, <3>2, <3>3, <3>4, <4>1, Announces
    <3>6. SendState'
      BY <1>1, <2>1, SameList DEF SendState
    <3>7. SendRow'
      BY <3>1, <3>5, <3>6 DEF SendRow, ChunkRow
    <3> QED BY <1>n, <2>1, <3>1, <3>7 DEF Sends
  <2> QED BY <1>f, <2>1, <2>2
<1>6. CASE a = n
  <2>1. Head(q) = ChunkStart(n, Total(n)) /\ Tail(q) = <<ChunkData(Own(n), 1)>>
    <3> DEFINE r == Tail(q)
    <3>1. IsLine(r)
      <4>1. IsLine(q) /\ q # <<>>
        BY <1>1, <1>3 DEF Markers
      <4> QED BY <4>1, LineRead
    <3>2. Len(r) = 1 /\ r[1] = ChunkData(Own(n), 1)
      <4>1. 1 \in 1..(Len(q) - 1) /\ (n - a) + 2 = 2 /\ (n - a) + 1 = 1 /\ Len(q) = 2
        BY <1>3, <1>6
      <4> QED BY <1>3, <1>4, <4>1
    <3> HIDE DEF r
    <3>3. r = <<ChunkData(Own(n), 1)>>
      BY <3>1, <3>2, LineOfOne
    <3>4. (n - a) + 1 = 1
      BY <1>3, <1>6
    <3> QED BY <1>3, <1>4, <3>3, <3>4 DEF r
  <2>2. writing.file # n /\ writing.file = n - 1
    <3>1. writing.file \in Nat /\ n = writing.file + 1
      BY <1>3, <1>6
    <3> QED BY <3>1
  <2>3. /\ UNCHANGED <<tree, files, sending>> /\ Listing'
        /\ \/ Fails("host") /\ UNCHANGED <<writing, out>>
           \/ Replies("host", <<>>, "Chunks") /\ Opened(n, 0)'
    BY <1>1, <1>3, <2>1, <2>2, StartTaken
  <2>4. CASE Replies("host", <<>>, "Chunks") /\ Opened(n, 0)'
    <3>1. /\ at'["host"] = "Chunks" /\ at'["client"] = "ChunkAck" /\ outcome' = outcome
          /\ inbox'["host"] = <<ChunkData(Own(n), 1)>> /\ inbox'["client"] = <<>>
      BY <1>0, <1>1, <1>3, <2>1, <2>4, Answers, Lines
    <3>2. /\ sending'[1] = n /\ sending'[2] = 1 /\ Own(n)' = Own(n) /\ 1 - 1 = 0
      BY <1>3, <2>3, SameList
    <3>3. Written'
      BY <2>4, <3>1, <3>2 DEF Written, ChunkData
    <3>4. SendState'
      BY <1>1, <2>3, SameList DEF SendState
    <3>5. SendRow'
      BY <3>1, <3>3, <3>4 DEF SendRow, ChunkRow
    <3> QED BY <1>n, <2>3, <3>1, <3>5 DEF Sends
  <2> QED BY <1>f, <2>3, <2>4
<1> QED BY <1>3, <1>5, <1>6

\* It takes the start of the file that is written, or a chunk of it.
LEMMA TakesWritten ==
  ASSUME Shape, Listing, SendPair, Sends, SendRow, HandleChunkStart \/ HandleChunkData, Written
  PROVE  (Sends' \/ SendLeft') /\ Listing'
<1>0. Connected("host") /\ Connected("client")
  BY SendLive
<1>n. outcome["host"] = "none" /\ outcome["client"] = "none"
  BY DEF Sends
<1>1. /\ at["host"] = "Chunks" /\ at["client"] = "ChunkAck" /\ SendState
      /\ inbox["client"] = <<>> /\ inbox["host"] # <<>>
  BY RowReceives
<1>2. PICK n, c : n = sending[1] /\ c = sending[2]
  OBVIOUS
<1>3. /\ n \in 1..Len(files) /\ HasContent(n) /\ c \in 1..Total(n)
      /\ Opened(n, c - 1) /\ writing.file = n
      /\ \/ c > 1 /\ inbox["host"] = <<ChunkStart(n, Total(n)), ChunkData(Own(n), c)>>
         \/ inbox["host"] = <<ChunkData(Own(n), c)>>
  BY <1>1, <1>2 DEF Written, SendState, Opened
<1>4. Total(n) \in Nat /\ c \in Nat /\ c - 1 \in Nat /\ (c - 1) + 1 = c
  <2>1. Total(n) \in Nat
    BY <1>3, FilesAre
  <2> QED BY <1>3, <2>1
<1>5. CASE HandleChunkStart
  <2>1. inbox["host"] = <<ChunkStart(n, Total(n)), ChunkData(Own(n), c)>>
    <3>1. Head(inbox["host"]).type = "ChunkStart"
      BY <1>5 DEF HandleChunkStart, Takes
    <3>2. inbox["host"] # <<ChunkData(Own(n), c)>>
      BY <3>1, SendSays, Lines
    <3> QED BY <1>3, <3>2
  <2>2. /\ UNCHANGED <<tree, files, sending, writing, out>> /\ Listing'
        /\ Replies("host", <<>>, "Chunks")
    <3>1. Head(inbox["host"]) = ChunkStart(n, Total(n))
      BY <2>1, Lines
    <3> QED BY <1>1, <1>3, <1>5, <3>1, StartTaken
  <2>3. /\ at'["host"] = "Chunks" /\ at'["client"] = "ChunkAck" /\ outcome' = outcome
        /\ inbox'["host"] = <<ChunkData(Own(n), c)>> /\ inbox'["client"] = <<>>
    <3>1. Tail(inbox["host"]) = <<ChunkData(Own(n), c)>> /\ <<>> \o <<>> = <<>>
      BY <2>1, Lines
    <3> QED BY <1>0, <1>1, <2>2, <3>1, Answers
  <2>4. SendState' /\ Opened(n, c - 1)' /\ Own(n)' = Own(n)
    <3>1. Opened(n, c - 1)' = Opened(n, c - 1)
      BY <2>2, SameFiles
    <3> QED BY <1>1, <1>3, <2>2, <3>1, SameList DEF SendState
  <2>5. Written'
    BY <1>2, <2>2, <2>3, <2>4 DEF Written, ChunkData
  <2>6. SendRow'
    BY <2>3, <2>4, <2>5 DEF SendRow, ChunkRow
  <2> QED BY <1>n, <2>2, <2>3, <2>6 DEF Sends
<1>6. CASE HandleChunkData
  <2>1. inbox["host"] = <<ChunkData(Own(n), c)>>
    <3>1. Head(inbox["host"]).type = "ChunkData"
      BY <1>6 DEF HandleChunkData, Takes
    <3>2. inbox["host"] # <<ChunkStart(n, Total(n)), ChunkData(Own(n), c)>>
      BY <3>1, SendSays, Lines
    <3> QED BY <1>3, <3>2
  <2>2. /\ UNCHANGED <<tree, files, sending, writing>> /\ Listing'
        /\ \/ Ends("host", "failed", <<ChunkIsLost>>) /\ UNCHANGED out
           \/ Replies("host", <<ChunkIsThere>>, "Chunks") /\ Opened(n, c)'
    <3>1. Head(inbox["host"]) = ChunkData(Own(n), (c - 1) + 1)
      BY <1>4, <2>1, Lines
    <3>2. PICK b \in Nat : b = c - 1 /\ b + 1 = c
      BY <1>4
    <3> QED BY <1>1, <1>3, <1>6, <3>1, <3>2, ChunkWritten
  <2>3. CASE Ends("host", "failed", <<ChunkIsLost>>)
    <3>1. /\ at'["host"] = "over" /\ outcome'["host"] = "failed" /\ inbox'["host"] = <<>>
          /\ at'["client"] = at["client"] /\ outcome'["client"] = outcome["client"]
      BY <2>3, EndsIs, Sides, Zenon
    <3>2. inbox'["client"] = <<ChunkIsLost>>
      BY <1>0, <1>1, <2>3, EndsWriting, Lines
    <3>3. SendHostGone'
      BY <1>1, <3>1, <3>2 DEF SendHostGone
    <3> QED BY <1>n, <2>2, <3>1, <3>3 DEF SendLeft
  <2>4. CASE Replies("host", <<ChunkIsThere>>, "Chunks") /\ Opened(n, c)'
    <3>1. /\ at'["host"] = "Chunks" /\ at'["client"] = "ChunkAck" /\ outcome' = outcome
          /\ inbox'["host"] = <<>> /\ inbox'["client"] = <<ChunkIsThere>>
      <4>1. Tail(inbox["host"]) = <<>> /\ <<>> \o <<ChunkIsThere>> = <<ChunkIsThere>>
        BY <2>1, Lines
      <4> QED BY <1>0, <1>1, <2>4, <4>1, Answers
    <3>2. SendState'
      BY <1>1, <2>2, SameList DEF SendState
    <3>3. Acknowledged'
      <4>1. sending'[1] = n /\ sending'[2] = c /\ ChunkIsThere' = ChunkIsThere
        BY <1>2, <2>2 DEF ChunkIsThere, ChunkAck, Frame
      <4> QED BY <2>4, <3>1, <4>1 DEF Acknowledged
    <3>4. SendRow'
      BY <3>1, <3>2, <3>3 DEF SendRow, ChunkRow
    <3> QED BY <1>n, <2>2, <3>1, <3>4 DEF Sends
  <2> QED BY <2>2, <2>3, <2>4
<1> QED BY <1>5, <1>6

-----------------------------------------------------------------------------
(* Every step of the two.                                                   *)

\* The list stays where nothing of the transfer changes.
LEMMA ListingStays == Listing /\ UNCHANGED trustedVars => Listing'
  BY DEF Listing, Rels, trustedVars

\* From row to row, or to an end of the transfer.
LEMMA SendStep ==
  ASSUME Shape, Listing, SendPair, Sends, SendRow, SameUsers, TrustedNext
  PROVE  (Sends' \/ SendLeft') /\ Listing'
<1>1. CASE CannotCreate
  <2>1. Fails("host") /\ UNCHANGED <<tree, files, sending, writing, out>>
    BY <1>1 DEF CannotCreate
  <2>2. at["client"] = "ChunkAck"
    BY <1>1, RowReceives
  <2>3. Listing'
    BY <2>1 DEF Listing, Rels
  <2> QED BY <2>1, <2>2, <2>3, SendFails, Sides
<1>2. ~TakesTransferComplete
  <2>1. inbox["host"] # <<>> => Head(inbox["host"]).type # "TransferComplete"
    BY SendFrames, LineNotComplete
  <2> QED BY <2>1 DEF TakesTransferComplete, Takes
<1>3. CASE HandleChunkStart
  BY <1>3, RowReceives, TakesAnnounced, TakesWritten
<1>4. CASE HandleChunkData
  <2>1. ~Announced(inbox["host"])
    <3> SUFFICES ASSUME Announced(inbox["host"]) PROVE FALSE
      OBVIOUS
    <3>1. SendState
      BY <1>4, RowReceives
    <3>3. PICK q, n, a :
          /\ q = inbox["host"]
          /\ n \in 1..Len(files) /\ Len(files) \in Nat
          /\ a \in 1..n /\ Markers(q, a, n) /\ Len(q) = (n - a) + 2
          /\ q[(n - a) + 1] = ChunkStart(n, Total(n))
      BY <3>1, AnnouncedIs
    <3>4. Head(q) = q[1] /\ (a < n => Head(q) = ChunkStart(a, 0))
      <4>1. a \in Nat /\ n \in Nat /\ Len(q) > n - a
        BY <3>3
      <4> QED BY <3>3, <4>1, MarkersRead
    <3>5. Head(q).type = "ChunkStart"
      <4>1. CASE a < n
        BY <3>4, <4>1, SendSays
      <4>2. CASE a = n
        <5>1. (n - a) + 1 = 1
          BY <3>3, <4>2
        <5> QED BY <3>3, <3>4, <5>1, SendSays
      <4> QED BY <3>3, <4>1, <4>2
    <3> QED BY <1>4, <3>3, <3>5 DEF HandleChunkData, Takes
  <2> QED BY <1>4, <2>1, RowReceives, TakesWritten
<1> QED
  BY <1>1, <1>2, <1>3, <1>4, SendOpens, SendAnswered DEF TrustedNext

(* The sender has gone without success: the receiver reads what is left.    *)
LEMMA SenderGone ==
  ASSUME Shape, SendPair, SendClientGone, CommandsNext
  PROVE  SendClientGone'
<1>0. /\ at["client"] = "over" /\ outcome["client"] # "ok" /\ outcome["host"] # "ok"
      /\ IsLine(inbox["host"]) /\ NotComplete(inbox["host"]) /\ NotSyncing("host")
  BY DEF SendClientGone
<1>l. /\ IsLine(<<>>) /\ NotComplete(<<>>)
      /\ inbox["host"] # <<>> =>
           /\ IsLine(Tail(inbox["host"])) /\ NotComplete(Tail(inbox["host"]))
           /\ Head(inbox["host"]).type # "TransferComplete"
  BY <1>0, LineNotComplete
\* The forms of a step of the receiver.
<1>a. ASSUME at'["client"] = "over", outcome'["client"] = outcome["client"],
             outcome'["host"] # "ok", NotSyncing("host")',
             \/ inbox'["host"] \in {<<>>, inbox["host"]}
             \/ inbox["host"] # <<>> /\ inbox'["host"] = Tail(inbox["host"])
      PROVE  SendClientGone'
  BY <1>0, <1>l, <1>a DEF SendClientGone, IsLine, NotComplete
<1>b. ASSUME NEW frames, NEW next, next \notin {"runs", "SyncIndex", "SyncIndexAck", "over"},
             \/ Writes("host", frames, next)
             \/ Replies("host", frames, next) /\ inbox["host"] # <<>>
      PROVE  SendClientGone'
  <2>1. /\ at'["host"] = next /\ at'["client"] = "over" /\ outcome' = outcome
        /\ \/ inbox'["host"] = inbox["host"]
           \/ inbox["host"] # <<>> /\ inbox'["host"] = Tail(inbox["host"])
    BY <1>0, <1>b, GoesIs, Sides DEF Writes, Replies
  <2> QED BY <1>0, <1>a, <1>b, <2>1 DEF NotSyncing
<1>c. ASSUME NEW frames, NEW result, result # "ok", Ends("host", result, frames)
      PROVE  SendClientGone'
  <2>1. /\ at'["host"] = "over" /\ at'["client"] = "over" /\ inbox'["host"] = <<>>
        /\ outcome'["host"] = result /\ outcome'["client"] = outcome["client"]
    BY <1>0, <1>c, EndsIs, Sides
  <2> QED BY <1>a, <1>c, <2>1 DEF NotSyncing
<1>d. ASSUME Fails("host") PROVE SendClientGone'
  BY <1>c, <1>d DEF Fails
<1>1. ~ClipNext /\ ~SyncNext /\ ~Connect
  <2>1. \A p \in Side : at[p] \notin {"SyncIndex", "SyncIndexAck", "runs"}
    BY <1>0, Sides DEF NotSyncing
  <2> QED
    BY <1>0, <2>1, OthersSync, OthersClip
       DEF Connect, ClipSync, DirSync, Sharing, Copying, Sending, Receiving, SendPair
<1>2. CASE \E p \in Side : Tell(p)
  <2>1. UNCHANGED <<at, inbox, outcome>>
    BY <1>2, TellKeeps
  <2> QED BY <1>0, <1>a, <2>1 DEF NotSyncing
<1>3. ~ClipCannotBegin /\ ~DirCannotBegin /\ ~SendCannotBegin /\ ~UserCancels
  BY <1>0 DEF ClipCannotBegin, DirCannotBegin, SendCannotBegin, GivesUp, UserCancels
<1>4. CASE DiscoveryNext
  <2>1. CASE HostListens
    BY <1>b, <2>1 DEF HostListens, ClipShareListens, ClipSyncListens, DirSyncListens,
                      DeviceListens, Moves
  <2>2. CASE CannotListen
    BY <1>d, <2>2 DEF CannotListen
  <2>3. CASE ServiceWithdrawn
    BY <1>0, <1>a, <2>3 DEF ServiceWithdrawn, connection, NotSyncing
  <2>4. /\ ~UseAddress /\ ~NoAddress /\ ~StartSearch /\ ~CannotSearch /\ ~HearPacket
        /\ ~ResolveService /\ ~HearBeacon /\ ~SearchFails /\ ~FallsBack /\ ~DeviceNotFound
        /\ ~ProbeReaches /\ ~ProbeReachesAgain /\ ~ProbeFails /\ ~ConnectFails
    BY <1>0
       DEF UseAddress, NoAddress, StartSearch, CannotSearch, HearPacket, ResolveService,
           HearBeacon, SearchFails, FallsBack, DeviceNotFound, ProbeReaches,
           ProbeReachesAgain, ProbeFails, ConnectFails, CodeSearch, DeviceSearch, Probing
  <2> QED BY <1>4, <2>1, <2>2, <2>3, <2>4 DEF DiscoveryNext
<1>5. ASSUME NEW p \in Side, Unexpected(p) \/ ReadFails(p) \/ Killed(p) \/ FramesLost(p)
      PROVE  SendClientGone'
  <2>1. CASE FramesLost(p)
    <3>1. /\ inbox' = [inbox EXCEPT ![p] = <<>>] /\ at' = at /\ outcome' = outcome
      BY <2>1 DEF FramesLost
    <3>2. inbox'["host"] \in {<<>>, inbox["host"]}
      BY <3>1, Sides DEF Shape
    <3> QED BY <1>0, <1>a, <3>1, <3>2 DEF NotSyncing
  <2>2. CASE Fails(p) /\ at[p] # "over"
    <3>1. p = "host"
      BY <1>0, <2>2, Sides
    <3> QED BY <1>d, <2>2, <3>1
  <2> QED
    BY <1>5, <2>1, <2>2 DEF Unexpected, ReadFails, Killed, Connected, After, Reading, Awaits
<1>6. CASE TrustedNext
  <2>1. ~SenderTakesHelloAck /\ ~SenderTakesListAck /\ ~SenderTakesChunkAck
    BY <1>0 DEF SenderTakesHelloAck, SenderTakesListAck, SenderTakesChunkAck, Takes
  <2>2. CASE ReceiverTakesTrustedHello \/ ReceiveFileList \/ HandleChunkStart \/ CannotCreate
    BY <1>b, <1>d, <2>2
       DEF ReceiverTakesTrustedHello, ReceiveFileList, HandleChunkStart, CannotCreate, Takes
  <2>3. CASE AcceptFiles \/ DeclineFiles
    BY <1>b, <1>c, <2>3 DEF AcceptFiles, DeclineFiles
  <2>4. CASE HandleChunkData
    BY <1>b, <1>c, <2>4 DEF HandleChunkData, Takes
  <2>5. ~TakesTransferComplete
    BY <1>l DEF TakesTransferComplete, Takes
  <2> QED BY <1>6, <2>1, <2>2, <2>3, <2>4, <2>5 DEF TrustedNext
<1> QED
  BY <1>1, <1>2, <1>3, <1>4, <1>5, <1>6
     DEF CommandsNext, ConnectingNext, Serves, Breaks, Refuses

\* The sender goes on from the entry at i; the receiver has gone.
LEMMA SendsAlone ==
  ASSUME Shape, Listing, NEW i \in 1..(Len(files) + 1), SendsFrom(i),
         Through(i - 1), flight # "none" => writing.file = sending[1],
         at["host"] = "over", outcome["host"] # "ok", inbox["host"] = <<>>,
         outcome["client"] = "none", NEW f, inbox["client"] = <<f>>
  PROVE  SendLeft'
<1>0. ~Connected("host")
  BY DEF Connected, After
<1>1. UNCHANGED <<tree, files, writing, flight, out>>
  BY SendsFromIs
<1>2. PICK q : \/ SendsEnd(i, q) \/ SendsNoMore(q)
               \/ \E n \in i..Len(files) : SendsNext(i, n, q)
  BY SendsFromIs
<1>e. ASSUME NEW result, Ends("client", result, q)
      PROVE  /\ at'["client"] = "over" /\ outcome'["client"] = result
             /\ at'["host"] = "over" /\ outcome'["host"] = outcome["host"]
             /\ inbox'["host"] = <<>>
  <2>1. /\ at'["client"] = "over" /\ outcome'["client"] = result
        /\ at'["host"] = "over" /\ outcome'["host"] = outcome["host"]
    BY <1>e, EndsIs, Sides
  <2>2. inbox'[Peer("client")] = IF Connected(Peer("client")) THEN inbox[Peer("client")] \o q
                                 ELSE inbox[Peer("client")]
    BY <1>e, EndsIs, Sides, Zenon
  <2> QED BY <1>0, <2>1, <2>2, Sides
<1>3. CASE SendsEnd(i, q)
  <2>1. Ends("client", "ok", q) /\ AllWritten
    BY <1>3, NothingElseStops DEF SendsEnd
  <2>2. AllWritten'
    <3>1. \A m : Through(m)' = Through(m)
      BY <1>1, SameFiles
    <3> QED BY <1>1, <2>1, <3>1 DEF AllWritten
  <2>3. outcome'["host"] = outcome["host"] /\ UNCHANGED sending
    BY <1>3, <1>e, <2>1 DEF SendsEnd
  <2>4. Ended'
    BY <1>1, <2>3 DEF Ended
  <2> QED BY <1>e, <2>1, <2>2, <2>4 DEF SendDone, SendLeft
<1>4. CASE SendsNoMore(q)
  <2>1. PICK result \in {"not_found", "failed"} : Ends("client", result, q)
    BY <1>4 DEF SendsNoMore
  <2>2. /\ at'["client"] = "over" /\ outcome'["client"] = result
        /\ at'["host"] = "over" /\ outcome'["host"] = outcome["host"] /\ inbox'["host"] = <<>>
    BY <1>e, <2>1
  <2> QED BY <2>2, LineOfTwo DEF SendClientGone, SendLeft, NotSyncing, IsLine, NotComplete
<1>5. ASSUME NEW n \in i..Len(files), SendsNext(i, n, q) PROVE SendLeft'
  <2>1. Replies("client", q, "ChunkAck")
    BY <1>5 DEF SendsNext
  <2>2. /\ at'["client"] = "ChunkAck" /\ at'["host"] = "over" /\ outcome' = outcome
        /\ inbox'["client"] = <<>> /\ inbox'["host"] = <<>>
    <3>1. Tail(inbox["client"]) = <<>>
      BY Lines
    <3> QED BY <1>0, <2>1, <3>1, GoesIs, Sides DEF Replies
  <2> QED BY <2>2 DEF SendHostGone, SendLeft
<1> QED BY <1>2, <1>3, <1>4, <1>5

(* The receiver has gone without success: the sender reads what is left.    *)
LEMMA ReceiverGone ==
  ASSUME Shape, Listing, SendPair, SendHostGone, outcome["client"] = "none", CommandsNext
  PROVE  SendLeft' /\ Listing'
<1>0. /\ at["host"] = "over" /\ outcome["host"] # "ok" /\ inbox["host"] = <<>>
      /\ at["client"] \in Before \cup {"TrustedHelloAck", "FileListAck", "ChunkAck"}
      /\ at["client"] \notin {"over", "dropped", "pinging"} /\ ~Connected("host")
      /\ NotSyncing("client")
  BY DEF SendHostGone, Before, Connected, After, NotSyncing
\* The forms of a step of the sender.
<1>a. ASSUME NEW result, NEW frames, Ends("client", result, frames), result # "ok"
      PROVE  SendLeft'
  <2>1. /\ at'["client"] = "over" /\ outcome'["client"] = result
        /\ at'["host"] = "over" /\ outcome'["host"] = outcome["host"]
    BY <1>0, <1>a, EndsIs, Sides
  <2>2. inbox'[Peer("client")] = IF Connected(Peer("client")) THEN inbox[Peer("client")] \o frames
                                 ELSE inbox[Peer("client")]
    BY <1>a, EndsIs, Sides, Zenon
  <2>3. inbox'["host"] = <<>>
    BY <1>0, <2>2, Sides
  <2> QED
    BY <1>0, <1>a, <2>1, <2>3, LineOfTwo
       DEF SendClientGone, SendLeft, NotSyncing, IsLine, NotComplete
<1>b. ASSUME NEW frames, NEW next \in Before, at["client"] \in Before, Writes("client", frames, next),
             UNCHANGED flight
      PROVE  SendLeft'
  <2>1. /\ at'["client"] = next /\ at'["host"] = "over" /\ outcome' = outcome
        /\ inbox'["client"] = inbox["client"] /\ inbox'["host"] = <<>>
    BY <1>0, <1>b, GoesIs, Sides DEF Writes
  <2>2. inbox["client"] = <<>> /\ flight' = "none"
    BY <1>b DEF SendHostGone, Before
  <2>3. SendHostGone'
    BY <1>0, <2>1, <2>2 DEF SendHostGone, Before
  <2> QED BY <1>0, <2>1, <2>3 DEF SendLeft
<1>c. ASSUME NEW frames, NEW next \in {"FileListAck", "ChunkAck"},
             Replies("client", frames, next), Tail(inbox["client"]) = <<>>,
             next = "FileListAck" => flight' = "none"
      PROVE  SendLeft'
  <2>1. Goes("client", next, frames, <<>>)
    BY <1>c DEF Replies
  <2>2. /\ at'["client"] = next /\ at'["host"] = "over" /\ outcome' = outcome
        /\ inbox'["client"] = <<>>
    BY <1>0, <2>1, GoesIs, Sides
  <2>3. inbox'[Peer("client")] = IF Connected(Peer("client")) THEN inbox[Peer("client")] \o frames
                                 ELSE inbox[Peer("client")]
    BY <2>1, GoesIs, Sides, Zenon
  <2>4. inbox'["host"] = <<>>
    BY <1>0, <2>3, Sides
  <2>5. SendHostGone'
    BY <1>0, <1>c, <2>2, <2>4 DEF SendHostGone
  <2> QED BY <1>0, <2>2, <2>5 DEF SendLeft
<1>d. ASSUME Fails("client") PROVE SendLeft'
  BY <1>a, <1>d DEF Fails
<1>e. ASSUME UNCHANGED <<at, outcome, tree, files, sending, writing, flight, out>>,
             inbox'["host"] = <<>>, inbox'["client"] \in {<<>>, inbox["client"]}
      PROVE  SendLeft'
  <2>1. SendState' = SendState
    BY <1>e, SameList DEF SendState
  <2>2. inbox'["client"] = inbox["client"] => Acknowledged' = Acknowledged
    BY <1>e, SameFiles DEF Acknowledged, ChunkIsThere, ChunkAck, Frame
  <2>3. SendHostGone'
    BY <1>e, <2>1, <2>2 DEF SendHostGone
  <2> QED BY <1>e, <2>3 DEF SendLeft
<1>1. ~ClipNext /\ ~SyncNext /\ ~Connect
  <2>1. \A p \in Side : at[p] \notin {"SyncIndex", "SyncIndexAck", "runs"}
    BY <1>0, Sides DEF NotSyncing
  <2> QED
    BY <1>0, <2>1, OthersSync, OthersClip
       DEF Connect, ClipSync, DirSync, Sharing, Copying, Sending, Receiving, SendPair
<1>2. CASE \E p \in Side : Tell(p)
  BY <1>0, <1>2, <1>e, TellKeeps, ListingStays DEF trustedVars
<1>3. CASE ClipCannotBegin \/ DirCannotBegin \/ SendCannotBegin \/ UserCancels
  <2>1. UNCHANGED trustedVars
    BY <1>3 DEF ClipCannotBegin, DirCannotBegin, SendCannotBegin, UserCancels, GivesUp, NoTransfer
  <2> QED
    BY <1>3, <1>a, <1>d, <2>1, ListingStays
       DEF ClipCannotBegin, DirCannotBegin, SendCannotBegin, UserCancels, GivesUp
<1>4. CASE DiscoveryNext /\ NoTransfer
  <2> SUFFICES SendLeft'
    BY <1>4, ListingStays DEF NoTransfer
  <2>1. ~HostListens /\ ~CannotListen /\ ~ProbeReaches /\ ~ProbeReachesAgain
    BY <1>0 DEF HostListens, CannotListen, ProbeReaches, ProbeReachesAgain
  <2>2. CASE NoAddress \/ CannotSearch \/ SearchFails \/ DeviceNotFound \/ ConnectFails
    BY <1>a, <1>d, <2>2 DEF NoAddress, CannotSearch, SearchFails, DeviceNotFound, ConnectFails
  <2>0. UNCHANGED flight
    BY <1>4 DEF NoTransfer, trustedVars
  <2>3. CASE UseAddress \/ StartSearch \/ HearPacket \/ ResolveService \/ HearBeacon \/ FallsBack
    BY <1>b, <2>0, <2>3 DEF UseAddress, StartSearch, HearPacket, ResolveService, HearBeacon,
         FallsBack, CodeSearch, DeviceSearch, Met, Moves, Before
  <2>4. CASE ProbeFails
    BY <1>b, <1>d, <2>0, <2>4 DEF ProbeFails, Probing, Moves, Before
  <2>5. CASE ServiceWithdrawn
    BY <1>0, <1>4, <1>e, <2>5 DEF ServiceWithdrawn, connection, NoTransfer, trustedVars
  <2> QED BY <1>4, <2>1, <2>2, <2>3, <2>4, <2>5 DEF DiscoveryNext
<1>5. ASSUME NEW p \in Side, Unexpected(p) \/ ReadFails(p) \/ Killed(p) \/ FramesLost(p),
             NoTransfer
      PROVE  SendLeft' /\ Listing'
  <2> SUFFICES SendLeft'
    BY <1>5, ListingStays DEF NoTransfer
  <2>1. CASE FramesLost(p)
    <3>1. /\ inbox' = [inbox EXCEPT ![p] = <<>>] /\ at' = at /\ outcome' = outcome
      BY <2>1 DEF FramesLost
    <3>2. inbox'["host"] = <<>> /\ inbox'["client"] \in {<<>>, inbox["client"]}
      BY <1>0, <3>1, Sides DEF Shape
    <3> QED BY <1>5, <1>e, <3>1, <3>2 DEF NoTransfer, trustedVars
  <2>2. CASE Fails(p) /\ at[p] # "over"
    <3>1. p = "client"
      BY <1>0, <2>2, Sides
    <3> QED BY <1>d, <2>2, <3>1
  <2> QED
    BY <1>5, <2>1, <2>2 DEF Unexpected, ReadFails, Killed, Connected, After, Reading, Awaits
<1>6. CASE TrustedNext
  <2>1. /\ ~ReceiverTakesTrustedHello /\ ~ReceiveFileList /\ ~HandleChunkStart /\ ~CannotCreate
        /\ ~AcceptFiles /\ ~DeclineFiles /\ ~HandleChunkData /\ ~TakesTransferComplete
    BY <1>0
       DEF ReceiverTakesTrustedHello, ReceiveFileList, HandleChunkStart, CannotCreate,
           AcceptFiles, DeclineFiles, HandleChunkData, TakesTransferComplete, Takes
  <2>2. CASE SenderTakesHelloAck
    <3>1. inbox["client"] = <<TrustedHelloAck("host")>>
      BY <2>2 DEF SenderTakesHelloAck, Takes, SendHostGone, Before
    <3>2. Tail(inbox["client"]) = <<>>
      BY <3>1, Lines
    <3>3. flight' = "none"
      BY <2>2 DEF SenderTakesHelloAck, Takes, SendHostGone, NoTransfer, trustedVars
    <3> QED BY <1>c, <2>2, <3>2, <3>3, ListingStays DEF SenderTakesHelloAck, NoTransfer
  <2>3. CASE SenderTakesListAck
    <3>1. /\ inbox["client"] = <<Wanted>> \/ inbox["client"] = <<Unwanted>>
          /\ flight = "none"
      BY <2>3 DEF SenderTakesListAck, Takes, SendHostGone, Before
    <3>2. CASE inbox["client"] = <<Wanted>>
      <4>1. SendsFrom(1)
        BY <2>3, <3>2, SendSays, Lines DEF SenderTakesListAck, Saying
      <4>2. 1 \in 1..(Len(files) + 1) /\ Through(1 - 1)
        BY FilesAre DEF Through
      <4>3. SendLeft'
        BY <1>0, <3>1, <3>2, <4>1, <4>2, SendsAlone
      <4>4. UNCHANGED <<tree, files, out>>
        BY <4>1, <4>2, SendsFromIs
      <4> QED BY <4>3, <4>4 DEF Listing, Rels
    <3>3. CASE inbox["client"] = <<Unwanted>>
      <4>1. Ends("client", "rejected", <<>>) /\ NoTransfer
        BY <2>3, <3>3, SendSays, Lines DEF SenderTakesListAck, Saying
      <4> QED BY <1>a, <4>1, ListingStays DEF NoTransfer
    <3> QED BY <3>1, <3>2, <3>3
  <2>4. CASE SenderTakesChunkAck
    <3>1. inbox["client"] = <<ChunkIsLost>> \/ (SendState /\ Acknowledged)
      BY <2>4 DEF SenderTakesChunkAck, Takes, SendHostGone, Before
    <3>2. CASE inbox["client"] = <<ChunkIsLost>>
      <4>1. Fails("client") /\ NoTransfer
        BY <2>4, <3>2, SendSays, Lines DEF SenderTakesChunkAck, Saying
      <4> QED BY <1>d, <4>1, ListingStays DEF NoTransfer
    <3>3. CASE SendState /\ Acknowledged
      <4>0. PICK n, c : n = sending[1] /\ c = sending[2]
        OBVIOUS
      <4>1. /\ n \in 1..Len(files) /\ HasContent(n) /\ c \in 1..Total(n)
            /\ inbox["client"] = <<ChunkIsThere>> /\ Opened(n, c)
        BY <3>3, <4>0 DEF SendState, Acknowledged
      <4>2. Total(n) \in Nat /\ Len(files) \in Nat
        BY <4>1, FilesAre
      <4>3. Saying("client")
        BY <4>1, SendSays, Lines DEF Saying
      <4>4. /\ c < Total(n) =>
                 /\ Replies("client", <<ChunkStart(n, Total(n)), ChunkData(Own(n), c + 1)>>, "ChunkAck")
                 /\ UNCHANGED <<tree, files, out>>
            /\ ~(c < Total(n)) => SendsFrom(n + 1)
        BY <2>4, <4>0, <4>3 DEF SenderTakesChunkAck, Own, Total
      <4>5. CASE c < Total(n)
        <5>1. PICK q : Replies("client", q, "ChunkAck") /\ UNCHANGED <<tree, files, out>>
          BY <4>4, <4>5
        <5>2. Tail(inbox["client"]) = <<>>
          BY <4>1, Lines
        <5>4. Listing'
          BY <5>1 DEF Listing, Rels
        <5> QED BY <1>c, <5>1, <5>2, <5>4
      <4>6. CASE ~(c < Total(n))
        <5>1. SendsFrom(n + 1) /\ n + 1 \in 1..(Len(files) + 1) /\ c = Total(n) /\ (n + 1) - 1 = n
          BY <4>1, <4>2, <4>4, <4>6
        <5>2. Through(n)
          BY <4>1, <5>1, AllOpened
        <5>3. SendLeft'
          <6>1. writing.file = sending[1]
            BY <4>0, <4>1 DEF Opened
          <6> QED BY <1>0, <4>1, <5>1, <5>2, <6>1, SendsAlone
        <5>4. UNCHANGED <<tree, files, out>>
          BY <5>1, SendsFromIs
        <5> QED BY <5>3, <5>4 DEF Listing, Rels
      <4> QED BY <4>5, <4>6
    <3> QED BY <3>1, <3>2, <3>3
  <2> QED BY <1>6, <2>1, <2>2, <2>3, <2>4 DEF TrustedNext
<1> QED
  BY <1>1, <1>2, <1>3, <1>4, <1>5, <1>6
     DEF CommandsNext, ConnectingNext, Serves, Breaks, Refuses

\* The sender has finished: the line begins with a marker or with the end.
LEMMA FinishedIs ==
  ASSUME Listing, Finished(inbox["host"]), NEW q, q = inbox["host"],
         NEW n, n = Len(files) + 1, NEW a, a = writing.file + 1
  PROVE  /\ writing.file \in Nat /\ Len(files) \in Nat /\ Markers(q, a, n)
         /\ Len(q) = (n - a) + 1 /\ q[(n - a) + 1] = TransferComplete /\ a \in 1..n
  BY FilesAre DEF Finished, Markers

(* The sender has sent everything: all of it is there, and the receiver     *)
(* reads the last markers and the end.                                      *)
LEMMA AllSentKept ==
  ASSUME Shape, Listing, SendPair, SendDone, CommandsNext
  PROVE  SendDone' /\ Listing'
<1>0. /\ at["client"] = "over" /\ outcome["client"] = "ok" /\ AllWritten
      /\ at["host"] \in {"over", "Chunks"}
      /\ at["host"] = "Chunks" => inbox["host"] = <<>> \/ Finished(inbox["host"])
      /\ Ended
  BY DEF SendDone
<1>a. ASSUME UNCHANGED <<tree, files, out>> PROVE AllWritten' /\ Listing'
  <2>1. \A m : Through(m)' = Through(m)
    BY <1>a, SameFiles
  <2> QED BY <1>0, <1>a, <2>1 DEF AllWritten, Listing, Rels
<1>b. ASSUME UNCHANGED <<tree, files, sending, writing, out>>,
             at'["client"] = "over", outcome'["client"] = "ok", Ended',
             \/ at'["host"] = "over"
             \/ at'["host"] = at["host"] /\ inbox'["host"] \in {<<>>, inbox["host"]}
      PROVE  SendDone' /\ Listing'
  <2>1. Finished(inbox["host"]) /\ inbox'["host"] = inbox["host"] => Finished(inbox["host"])'
    BY <1>b, SameFiles DEF Finished, TransferComplete
  <2> QED BY <1>0, <1>a, <1>b, <2>1 DEF SendDone
<1>s. ASSUME UNCHANGED trustedVars, UNCHANGED outcome PROVE Ended'
  BY <1>0, <1>s DEF Ended, trustedVars
<1>c. ASSUME NEW result, NEW frames, Ends("host", result, frames),
             UNCHANGED <<tree, files, sending, writing, out>>,
             WriteEnded \/ (result # "ok" /\ (MayBeLost \/ UNCHANGED flight))
      PROVE  SendDone' /\ Listing'
  <2>1. /\ at'["host"] = "over" /\ at'["client"] = "over" /\ outcome'["client"] = "ok"
        /\ outcome'["host"] = result
    BY <1>0, <1>c, EndsIs, Sides
  <2>2. Ended'
    BY <1>0, <1>c, <2>1 DEF Ended, WriteEnded, MayBeLost
  <2> QED BY <1>b, <1>c, <2>1, <2>2
<1>d. ASSUME Fails("host"), UNCHANGED <<tree, files, sending, writing, out>>,
             MayBeLost \/ UNCHANGED flight
      PROVE  SendDone' /\ Listing'
  BY <1>c, <1>d DEF Fails
<1>1. ~ClipNext /\ ~SyncNext /\ ~Connect
  <2>1. \A p \in Side : at[p] \notin {"SyncIndex", "SyncIndexAck", "runs"}
    BY <1>0, Sides
  <2> QED
    BY <1>0, <2>1, OthersSync, OthersClip
       DEF Connect, ClipSync, DirSync, Sharing, Copying, Sending, Receiving, SendPair
<1>2. CASE DiscoveryNext /\ NoTransfer
  <2>1. ServiceWithdrawn
    BY <1>0, <1>2
       DEF DiscoveryNext, HostListens, CannotListen, UseAddress, NoAddress, StartSearch,
           CannotSearch, HearPacket, ResolveService, HearBeacon, SearchFails, FallsBack,
           DeviceNotFound, ProbeReaches, ProbeReachesAgain, ProbeFails, ConnectFails,
           CodeSearch, DeviceSearch, Probing
  <2> QED
    BY <1>0, <1>2, <1>b, <1>s, <2>1 DEF ServiceWithdrawn, connection, NoTransfer, trustedVars
<1>3. CASE \E p \in Side : Tell(p)
  BY <1>0, <1>3, <1>b, <1>s, TellKeeps DEF trustedVars
<1>4. ~ClipCannotBegin /\ ~DirCannotBegin /\ ~SendCannotBegin /\ ~UserCancels
  BY <1>0 DEF ClipCannotBegin, DirCannotBegin, SendCannotBegin, GivesUp, UserCancels
<1>5. ASSUME NEW p \in Side, Unexpected(p) \/ ReadFails(p) \/ Killed(p) \/ FramesLost(p),
             NoTransfer
      PROVE  SendDone' /\ Listing'
  <2>1. CASE FramesLost(p)
    <3>1. /\ inbox' = [inbox EXCEPT ![p] = <<>>] /\ at' = at /\ outcome' = outcome
      BY <2>1 DEF FramesLost
    <3>2. inbox'["host"] \in {<<>>, inbox["host"]}
      BY <3>1, Sides DEF Shape
    <3> QED BY <1>0, <1>5, <1>b, <1>s, <3>1, <3>2 DEF NoTransfer, trustedVars
  <2>2. CASE Fails(p) /\ at[p] # "over"
    <3>1. p = "host"
      BY <1>0, <2>2, Sides
    <3> QED BY <1>5, <1>d, <2>2, <3>1 DEF NoTransfer, trustedVars
  <2> QED
    BY <1>5, <2>1, <2>2 DEF Unexpected, ReadFails, Killed, Connected, After, Reading, Awaits
<1>6. CASE TrustedNext
  <2>1. /\ ~SenderTakesHelloAck /\ ~SenderTakesListAck /\ ~SenderTakesChunkAck
        /\ ~ReceiverTakesTrustedHello /\ ~ReceiveFileList /\ ~AcceptFiles /\ ~DeclineFiles
    BY <1>0 DEF SenderTakesHelloAck, SenderTakesListAck, SenderTakesChunkAck,
                ReceiverTakesTrustedHello, ReceiveFileList, AcceptFiles, DeclineFiles, Takes
  <2>2. CASE CannotCreate \/ TakesTransferComplete
    BY <1>c, <1>d, <2>2 DEF CannotCreate, TakesTransferComplete
  <2>3. CASE HandleChunkStart \/ HandleChunkData
    <3>c. at["host"] = "Chunks" /\ inbox["host"] # <<>>
      <4>1. Takes("host", "Chunks", "ChunkStart") \/ Takes("host", "Chunks", "ChunkData")
        BY <2>3 DEF HandleChunkStart, HandleChunkData
      <4> QED BY <4>1 DEF Takes
    <3>0. at["host"] = "Chunks" /\ inbox["host"] # <<>> /\ Finished(inbox["host"])
      BY <1>0, <3>c
    <3>1. PICK q, n, a : q = inbox["host"] /\ n = Len(files) + 1 /\ a = writing.file + 1
      OBVIOUS
    <3>2. /\ writing.file \in Nat /\ Len(files) \in Nat /\ Markers(q, a, n)
          /\ Len(q) = (n - a) + 1 /\ q[(n - a) + 1] = TransferComplete /\ a \in 1..n
      BY <3>0, <3>1, FinishedIs
    <3>3. /\ a \in Nat /\ n \in Nat /\ Len(q) > n - a
      BY <3>1, <3>2
    <3>4. /\ Len(Tail(q)) = Len(q) - 1 /\ \A k \in 1..(Len(q) - 1) : Tail(q)[k] = q[k + 1]
          /\ Head(q) = q[1] /\ (a < n => Head(q) = ChunkStart(a, 0) /\ ~Stops(a))
      BY <3>2, <3>3, MarkersRead
    <3>5. a < n /\ HandleChunkStart
      <4>1. CASE a = n
        <5>1. (n - a) + 1 = 1
          BY <3>3, <4>1
        <5>2. Head(q).type = "TransferComplete"
          BY <3>2, <3>4, <5>1, SendSays
        <5> QED BY <2>3, <3>1, <5>2 DEF HandleChunkStart, HandleChunkData, Takes
      <4>2. CASE a < n
        <5>1. Head(q).type = "ChunkStart"
          BY <3>4, <4>2, SendSays
        <5>2. ~HandleChunkData
          BY <3>1, <5>1 DEF HandleChunkData, Takes
        <5> QED BY <2>3, <4>2, <5>2
      <4>3. a = n \/ a < n
        BY <3>2, <3>3
      <4> QED BY <4>1, <4>2, <4>3
    <3>6. /\ UNCHANGED <<tree, files, sending>> /\ Listing' /\ flight' = "none"
          /\ \/ Fails("host") /\ UNCHANGED <<writing, out>>
             \/ /\ Replies("host", <<>>, "Chunks") /\ writing'.file = a
                /\ Markers(Tail(q), a + 1, n)
          /\ \A i \in 1..Len(files) : HasContent(i) /\ WholeAt(i) => WholeAt(i)'
      <4>1. n <= Len(files) + 1
        BY <3>1, <3>2
      <4> QED BY <3>0, <3>1, <3>2, <3>3, <3>5, <4>1, MarkerTaken
    <3>7. CASE Fails("host") /\ UNCHANGED <<writing, out>>
      BY <1>d, <3>6, <3>7 DEF MayBeLost, WriteEnded
    <3>8. CASE Replies("host", <<>>, "Chunks") /\ writing'.file = a /\ Markers(Tail(q), a + 1, n)
      <4> DEFINE r == Tail(q)
      <4>1. /\ at'["host"] = "Chunks" /\ at'["client"] = "over" /\ outcome' = outcome
            /\ inbox'["host"] = r
        BY <1>0, <3>1, <3>8, GoesIs, Sides DEF Replies
      <4>2. AllWritten'
        <5>1. Through(Len(files))'
          BY <1>0, <3>2, <3>6, ThroughStays DEF AllWritten
        <5> QED BY <3>6, <5>1 DEF AllWritten
      <4>3. /\ Len(r) = (n - (a + 1)) + 1 /\ r[(n - (a + 1)) + 1] = TransferComplete
        <5>1. /\ (n - (a + 1)) + 1 \in 1..(Len(q) - 1) /\ ((n - (a + 1)) + 1) + 1 = (n - a) + 1
              /\ (n - (a + 1)) + 1 = Len(q) - 1
          BY <3>2, <3>3, <3>5
        <5> QED BY <3>2, <3>4, <5>1
      <4>4. Markers(r, a + 1, n)
        BY <3>8
      <4> HIDE DEF r
      <4>5. Markers(r, a + 1, n)'
        <5>1. \A j : Stops(j)' = Stops(j)
          BY <3>6, SameList
        <5> QED BY <4>4, <5>1 DEF Markers, IsLine
      <4>6. Finished(inbox["host"])'
        <5>1. /\ files' = files /\ writing'.file + 1 = a + 1 /\ writing'.file \in Nat
          BY <3>3, <3>6, <3>8
        <5> QED BY <3>1, <4>1, <4>3, <4>5, <5>1 DEF Finished, TransferComplete
      <4> QED BY <1>0, <3>6, <4>1, <4>2, <4>6 DEF SendDone, Ended
    <3> QED BY <3>6, <3>7, <3>8
  <2> QED BY <1>6, <2>1, <2>2, <2>3 DEF TrustedNext
<1> QED
  BY <1>1, <1>2, <1>3, <1>4, <1>5, <1>6
     DEF CommandsNext, ConnectingNext, Serves, Breaks, Refuses

-----------------------------------------------------------------------------
(* The invariant of all sessions, and what follows from it.                 *)

\* Every step leaves the list, and a file or none at every path of it.
LEMMA ListingKept ==
  ASSUME Listing, CommandsNext
  PROVE  Listing'
<1>1. CASE UNCHANGED trustedVars
  BY <1>1, ListingStays
<1>2. CASE UNCHANGED <<tree, files, out>>
  BY <1>2 DEF Listing, Rels
<1>3. ASSUME UNCHANGED <<tree, files>>, NEW rel, NEW entry, out' = [out EXCEPT ![rel] = entry]
      PROVE  Listing'
  <2>1. Rels' = Rels
    BY <1>3 DEF Rels
  <2>2. out' = [r \in Rels |-> out'[r]]
    <3>1. out = [r \in Rels |-> out[r]]
      BY DEF Listing
    <3> QED BY <1>3, <3>1
  <2> QED BY <1>3, <2>1, <2>2 DEF Listing
<1>4. CASE TrustedNext
  <2>1. ASSUME NEW i, SendsFrom(i) PROVE Listing'
    <3>1. UNCHANGED <<tree, files, writing, flight, out>>
      BY <2>1 DEF SendsFrom
    <3> QED BY <1>2, <3>1
  <2>2. CASE SenderTakesListAck \/ SenderTakesChunkAck
    <3>1. \/ UNCHANGED trustedVars \/ UNCHANGED <<tree, files, out>>
          \/ \E i : SendsFrom(i)
      BY <2>2 DEF SenderTakesListAck, SenderTakesChunkAck, NoTransfer
    <3> QED BY <1>1, <1>2, <2>1, <3>1
  <2>3. CASE HandleChunkStart
    <3>1. PICK rel, entry : /\ UNCHANGED <<tree, files>>
                            /\ (out' = out \/ out' = [out EXCEPT ![rel] = entry])
      <4> DEFINE start == files[Saying("host")[1]]
                 value == IF Saying("host")[2] = 0 \/ start.dir THEN Directory ELSE Empty
      <4>1. /\ UNCHANGED <<tree, files>>
            /\ (out' = out \/ out' = [out EXCEPT ![start.rel] = value])
        BY <2>3 DEF HandleChunkStart
      <4> HIDE DEF start, value
      <4> QED BY <4>1
    <3> QED BY <1>2, <1>3, <3>1
  <2>4. CASE HandleChunkData
    <3>1. PICK rel, entry : /\ UNCHANGED <<tree, files>>
                            /\ (out' = out \/ out' = [out EXCEPT ![rel] = entry])
      BY <2>4 DEF HandleChunkData
    <3> QED BY <1>2, <1>3, <3>1
  <2>5. CASE \/ SenderTakesHelloAck \/ ReceiverTakesTrustedHello \/ ReceiveFileList
             \/ AcceptFiles \/ DeclineFiles \/ CannotCreate \/ TakesTransferComplete
    BY <1>1, <1>2, <2>5
       DEF SenderTakesHelloAck, ReceiverTakesTrustedHello, ReceiveFileList, AcceptFiles,
           DeclineFiles, CannotCreate, TakesTransferComplete, NoTransfer
  <2> QED BY <1>4, <2>2, <2>3, <2>4, <2>5 DEF TrustedNext
<1>5. CASE \E p \in Side : Tell(p)
  BY <1>1, <1>5 DEF Tell, connectingVars, trustedVars
<1>6. CASE ClipCannotBegin \/ DirCannotBegin \/ SendCannotBegin \/ UserCancels
  BY <1>1, <1>6
     DEF ClipCannotBegin, DirCannotBegin, SendCannotBegin, UserCancels, GivesUp, NoTransfer
<1> QED
  BY <1>1, <1>4, <1>5, <1>6 DEF CommandsNext, ConnectingNext, Serves, NoTransfer

\* Every step of a sender and a receiver.
LEMMA SendKept ==
  ASSUME Shape, Listing, SendPair, Sends \/ SendLeft, CommandsNext
  PROVE  Sends' \/ SendLeft'
<1>1. CASE SendHostGone /\ outcome["client"] = "none"
  BY <1>1, ReceiverGone
<1>2. CASE SendClientGone
  BY <1>2, SenderGone DEF SendLeft
<1>3. CASE SendDone
  BY <1>3, AllSentKept DEF SendLeft
<1>4. CASE Sends /\ SendRow
  <2>1. ~ClipNext /\ ~SyncNext
    <3>1. /\ at["client"] # "pinging"
          /\ \A p \in Side : at[p] \notin {"SyncIndex", "SyncIndexAck", "runs"}
      BY <1>4, SendFrames, Sides DEF NotSyncing
    <3> QED
      BY <3>1, OthersSync, OthersClip
         DEF ClipSync, DirSync, Sharing, Copying, Sending, Receiving, SendPair
  <2>2. CASE NoTransfer /\ \E p \in Side : Fails(p)
    BY <1>4, <2>2, SendFails DEF NoTransfer, trustedVars
  <2>3. CASE TrustedNext
    BY <1>4, <2>3, SendStep, PairStays
  <2> QED BY <1>4, <2>1, <2>2, <2>3, SendLive, LiveStep
<1>5. CASE Sends /\ Apart /\ Fresh
  <2>0. /\ outcome["host"] = "none" /\ outcome["client"] = "none"
        /\ at["host"] \in {"idle", "listening"} /\ inbox["host"] = <<>>
    BY <1>5 DEF Sends, Apart
  <2>1. NoTransfer
    BY <1>5, ApartStep
  <2>2. CASE Apart' /\ outcome' = outcome
    BY <1>5, <2>0, <2>1, <2>2 DEF Sends, Fresh, NoTransfer, trustedVars
  <2>3. CASE Connect
    BY <1>5, <2>0, <2>1, <2>3, SendConnect
  <2>4. CASE HostGaveUp /\ NothingOnWay
    <3>1. flight' = "none" /\ at'["client"] # "ChunkAck"
      BY <1>5, <2>1, <2>4 DEF Fresh, NoTransfer, trustedVars, HostGaveUp, Before
    <3> QED BY <2>0, <2>4, <3>1 DEF HostGaveUp, NothingOnWay, SendHostGone, SendLeft
  <2>5. CASE ClientGaveUp /\ NothingOnWay
    BY <2>0, <2>5, LineOfTwo
       DEF ClientGaveUp, NothingOnWay, SendClientGone, SendLeft, IsLine, NotComplete, NotSyncing
  <2> QED BY <1>5, <2>2, <2>3, <2>4, <2>5, ApartStep
<1> QED BY <1>1, <1>2, <1>3, <1>4, <1>5 DEF Sends, SendLeft

(* The whole connection: what holds of every pair of sessions that belong   *)
(* together, at every moment.                                               *)
SessionsInv == Shape /\ Listing /\ HandshakeInv /\ CopiesInv /\ SendInv

\* It holds at first.
LEMMA SessionsInvInit == YoopInit => SessionsInv
<1> SUFFICES ASSUME YoopInit PROVE SessionsInv
  OBVIOUS
<1>1. TrustedInit
  BY DEF YoopInit, CommandInit, ConnectingInit
<1>2. Listing
  BY <1>1 DEF TrustedInit, Listing, Rels
<1>3. HandshakeInv
  BY AtFirst DEF HandshakeInv
<1>4. SendInv
  BY <1>1, AtFirst DEF TrustedInit, Fresh, SendInv, Sends
<1> QED BY <1>2, <1>3, <1>4, CopiesInvInit DEF SessionsInv, CopiesInv

\* And every step keeps it.
LEMMA SessionsInvKept == SessionsInv /\ [YoopNext]_yoopVars => SessionsInv'
<1> SUFFICES ASSUME SessionsInv, [YoopNext]_yoopVars PROVE SessionsInv'
  OBVIOUS
<1>0. CopiesInv' /\ Shape'
  BY CopiesInvKept DEF SessionsInv, CopiesInv
<1>1. CASE CommandsNext
  <2>1. Listing' /\ HandshakeInv'
    BY <1>1, ListingKept, HandshakeKept DEF SessionsInv
  <2>2. SendPair => Sends' \/ SendLeft'
    BY <1>1, SendKept DEF SessionsInv, SendInv
  <2>3. SendPair' = SendPair
    BY <1>1, PairStays DEF SessionsInv
  <2>4. SendInv' <=> (SendPair' => Sends' \/ SendLeft')
    BY DEF SendInv
  <2> QED BY <1>0, <2>1, <2>2, <2>3, <2>4 DEF SessionsInv
<1>2. CASE UNCHANGED commandVars
  <2>1. /\ UNCHANGED <<kind, creds, at, inbox, outcome>> /\ UNCHANGED trustedVars
        /\ UNCHANGED <<tree, files, sending, writing, flight, out>>
    BY <1>2 DEF commandVars, connectingVars, connection, trustedVars
  <2>2. Code' = Code
    BY <2>1 DEF Code, CodeVerify, Frame
  <2>3. Listing'
    BY <2>1, ListingStays DEF SessionsInv
  <2>4. HandshakeInv'
    <3>1. /\ Apart' = Apart /\ Gone' = Gone /\ TrustedSyncRow' = TrustedSyncRow
          /\ CodeSyncRow' = CodeSyncRow /\ DirRow' = DirRow
      BY <2>1, <2>2 DEF Apart, Gone, TrustedSyncRow, CodeSyncRow, DirRow, Row
    <3>2. /\ TrustedSyncPair' = TrustedSyncPair /\ CodeSyncPair' = CodeSyncPair
          /\ DirPair' = DirPair
      BY <2>1 DEF TrustedSyncPair, CodeSyncPair, DirPair, ClipSync, DirSync
    <3> QED BY <3>1, <3>2 DEF SessionsInv, HandshakeInv
  <2>5. SendInv'
    <3>1. /\ \A i : Stops(i)' = Stops(i) /\ Own(i)' = Own(i) /\ Total(i)' = Total(i)
                    /\ HasContent(i)' = HasContent(i)
          /\ \A m : Through(m)' = Through(m)
          /\ \A n, c : Opened(n, c)' = Opened(n, c)
          /\ SendState' = SendState
      BY <2>1, SameList, SameFiles DEF SendState, HasContent
    <3>2. /\ \A q, a, n : Markers(q, a, n)' = Markers(q, a, n)
      BY <3>1 DEF Markers, IsLine
    <3>3. /\ \A q : Announced(q)' = Announced(q) /\ Finished(q)' = Finished(q)
          /\ Written' = Written /\ Acknowledged' = Acknowledged /\ AllWritten' = AllWritten
      BY <2>1, <3>1, <3>2
         DEF Announced, Finished, Written, Acknowledged, AllWritten, TransferComplete,
             ChunkIsThere, ChunkAck, Frame
    <3>4. Sends' = Sends
      BY <2>1, <3>1, <3>3 DEF Sends, SendRow, ChunkRow, Row, Apart, Fresh
    <3>5. SendLeft' = SendLeft
      BY <2>1, <3>1, <3>3
         DEF SendLeft, SendHostGone, SendClientGone, SendDone, Ended, IsLine, NotComplete,
             NotSyncing
    <3>6. SendPair' = SendPair
      BY <2>1 DEF SendPair, Sending, Receiving
    <3> QED BY <3>4, <3>5, <3>6 DEF SessionsInv, SendInv
  <2> QED BY <1>0, <2>3, <2>4, <2>5 DEF SessionsInv
<1> QED BY <1>1, <1>2 DEF YoopNext, yoopVars

(* Two sides that have nothing to read and wait for a frame: neither waits  *)
(* for its user, and neither has gone.                                      *)
LEMMA DeafIs ==
  ASSUME NEW p \in Side, Deaf(p)
  PROVE  /\ inbox[p] = <<>>
         /\ at[p] \notin Before \cup After \cup {"offered", "pinging", "asked"}
  BY DEF Deaf, Reading, Awaits, Before, After

\* A file is announced, written or acknowledged at any moment of the transfer.
LEMMA ChunkSpeaks ==
  ASSUME ChunkRow, Listing
  PROVE  inbox["host"] # <<>> \/ inbox["client"] # <<>>
<1>1. Announced(inbox["host"]) => inbox["host"] # <<>>
  <2> SUFFICES ASSUME Announced(inbox["host"]) PROVE Len(inbox["host"]) # 0
    OBVIOUS
  <2>1. PICK n, a : n \in 1..Len(files) /\ Len(files) \in Nat /\ a \in 1..n
                    /\ Len(inbox["host"]) = (n - a) + 2
    BY AnnouncedIs DEF ChunkRow
  <2> QED BY <2>1
<1>2. Written => inbox["host"] # <<>>
  BY Lines DEF Written
<1>3. Acknowledged => inbox["client"] # <<>>
  BY Lines DEF Acknowledged
<1> QED BY <1>1, <1>2, <1>3 DEF ChunkRow

\* Two such sides run a session, or do not belong together.
LEMMA SpeaksOrRuns ==
  ASSUME SessionsInv, Deaf("host"), Deaf("client")
  PROVE  /\ TrustedSyncPair \/ CodeSyncPair \/ DirPair =>
              at["host"] = "runs" /\ at["client"] = "runs"
         /\ ~CopyPair /\ ~SendPair
<1>0. /\ ~Apart /\ ~Gone
      /\ \A p \in Side : at[p] \notin After
  BY DeafIs, Sides DEF Apart, Gone, Before, After
<1>d. /\ inbox["host"] = <<>> /\ inbox["client"] = <<>>
      /\ at["host"] \notin {"offered", "pinging", "asked"}
      /\ at["client"] \notin {"offered", "pinging", "asked"}
  BY DeafIs, Sides
<1>1. TrustedSyncRow \/ CodeSyncRow => at["host"] = "runs" /\ at["client"] = "runs"
  <2>1. TrustedSyncRow => at["host"] = "runs" /\ at["client"] = "runs"
    BY <1>d DEF TrustedSyncRow, Row
  <2>2. CodeSyncRow => at["host"] = "runs" /\ at["client"] = "runs"
    BY <1>d DEF CodeSyncRow, Row
  <2> QED BY <2>1, <2>2
<1>2. DirRow => at["host"] = "runs" /\ at["client"] = "runs"
  BY <1>d DEF DirRow, Row
<1>3. ~CopyRow
  BY <1>d DEF CopyRow, Row
<1>4. ~SendRow
  <2>1. ~ChunkRow
    BY ChunkSpeaks, DeafIs, Sides DEF SessionsInv
  <2> QED BY <1>d, <2>1 DEF SendRow, Row
<1>5. ~CopyHostGone /\ ~CopyClientGone
  BY <1>0, Sides DEF CopyHostGone, CopyClientGone, After
<1>6. ~SendLeft
  BY <1>0 DEF SendLeft, SendHostGone, SendClientGone, SendDone, Gone
<1>7. ~CopyPair
  BY <1>0, <1>3, <1>5 DEF SessionsInv, CopiesInv, CopyInv
<1>8. ~SendPair
  BY <1>0, <1>4, <1>6 DEF SessionsInv, SendInv, Sends
<1> QED BY <1>0, <1>1, <1>2, <1>7, <1>8 DEF SessionsInv, HandshakeInv

\* The sessions that belong together never wait for each other for ever
\* (the handshakes of clipboard/session.rs and sync/session.rs, and
\* transfer/trusted.rs): whatever frames are lost and whoever is killed, two
\* sides that both wait for a frame have one on its way.
THEOREM NobodyStalls == YoopSpec => []MatchedNeverStall
<1>1. ASSUME SessionsInv PROVE MatchedNeverStall
  <2> SUFFICES ASSUME Matched, Deaf("host"), Deaf("client")
               PROVE  at["host"] = "runs" /\ at["client"] = "runs"
    BY Sides DEF MatchedNeverStall
  <2>1. TrustedSyncPair \/ CodeSyncPair \/ DirPair \/ CopyPair \/ SendPair
    BY DEF Matched, TrustedSyncPair, CodeSyncPair, DirPair, CopyPair, SendPair
  <2> QED BY <1>1, <2>1, SpeaksOrRuns
<1> QED BY <1>1, SessionsInvInit, SessionsInvKept, PTL DEF YoopSpec

\* What success means in a trusted transfer (transfer/trusted.rs, TrustedSendSession
\* and TrustedReceiveSession): the receiver has taken every file with content
\* whole, for every tree, every order of steps and every failure on the way, and
\* all of it has been written but, at most, the last write of the file sent
\* last, and that only when the receiver does not report success.
THEOREM SentIsWritten == YoopSpec => []SentMeansWritten
<1>1. ASSUME SessionsInv PROVE SentMeansWritten
  <2> SUFFICES ASSUME Sending, Receiving, "ok" \in {outcome["host"], outcome["client"]}
               PROVE  /\ \A i \in 1..Len(files) :
                           ~files[i].dir /\ tree.has[files[i].own] > 0
                             /\ Unambiguous(tree, files[i])
                             => out[files[i].rel] = WholeFile(files[i].own)
                      /\ flight # "none" => outcome["host"] # "ok" /\ writing.file = sending[1]
    BY DEF SentMeansWritten
  <2>1. SendDone
    BY <1>1 DEF SessionsInv, SendInv, SendPair, Sends, SendLeft, SendHostGone, SendClientGone
  <2>2. ASSUME NEW i \in 1..Len(files), ~files[i].dir, tree.has[files[i].own] > 0,
               Unambiguous(tree, files[i])
        PROVE  out[files[i].rel] = WholeFile(files[i].own)
    <3>1. Stops(i) => HasContent(i) /\ WholeAt(i)
      BY <2>1 DEF SendDone, AllWritten, Through
    <3>2. IsFile(tree, Own(i))
      <4>1. ~IsFile(tree, Own(i)) => Stops(i)
        BY <2>2 DEF Stops, Own
      <4> QED BY <3>1, <4>1 DEF HasContent
    <3>3. Own(i) = files[i].own
      <4>1. tree \in Trees /\ files = EnumerateFiles(tree)
        BY <1>1 DEF SessionsInv, Listing
      <4> QED BY <2>2, <3>2, <4>1, FoundIsListed DEF Own, SendersFile
    <3>4. Stops(i)
      BY <2>2, <3>3 DEF Stops, Own
    <3> QED BY <3>1, <3>3, <3>4 DEF WholeAt, Part, Total, WholeFile
  <2> QED BY <2>1, <2>2 DEF SendDone, Ended
<1> QED BY <1>1, SessionsInvInit, SessionsInvKept, PTL DEF YoopSpec
=============================================================================
