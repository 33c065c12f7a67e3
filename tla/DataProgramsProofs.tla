------------------------- MODULE DataProgramsProofs -------------------------
(***************************************************************************)
(* Theorems about the programs of DataPrograms, for every value of the     *)
(* constants: buffered_perf.c keeps the stream, the programs that fill one *)
(* buffer write the beginning of their input, the answers of the UDP server *)
(* come in step, the benchmarks touch what they report, fuse_json.py's tree *)
(* is the JSON file, and the loops in assembly compute what they are for.  *)
(***************************************************************************)
EXTENDS DataPrograms, FiniteSetTheorems, FunctionTheorems, SequenceTheorems,
        WellFoundedInduction, TLAPS

-----------------------------------------------------------------------------
(* Runs of the input *)

\* Bytes(a, b) is a sequence of b - a positions.
LEMMA BytesType ==
    ASSUME NEW a \in Nat, NEW b \in Nat, a <= b
    PROVE  /\ Bytes(a, b) \in Seq(Nat)
           /\ Len(Bytes(a, b)) = b - a
           /\ \A k \in 1 .. b - a : Bytes(a, b)[k] = a + k
<1>1. b - a \in Nat
    OBVIOUS
<1>. QED
    BY <1>1 DEF Bytes

\* Two runs, the second of which begins where the first ends, make one.
LEMMA BytesConcat ==
    ASSUME NEW a \in Nat, NEW b \in Nat, NEW c \in Nat, a <= b, b <= c
    PROVE  Bytes(a, b) \o Bytes(b, c) = Bytes(a, c)
<1>1. /\ Bytes(a, b) \in Seq(Nat) /\ Len(Bytes(a, b)) = b - a
      /\ \A k \in 1 .. b - a : Bytes(a, b)[k] = a + k
    BY BytesType
<1>2. /\ Bytes(b, c) \in Seq(Nat) /\ Len(Bytes(b, c)) = c - b
      /\ \A k \in 1 .. c - b : Bytes(b, c)[k] = b + k
    BY BytesType
<1>3. /\ Bytes(a, c) \in Seq(Nat) /\ Len(Bytes(a, c)) = c - a
      /\ \A k \in 1 .. c - a : Bytes(a, c)[k] = a + k
    BY BytesType
<1>. DEFINE both == Bytes(a, b) \o Bytes(b, c)
<1>4. /\ both \in Seq(Nat) /\ Len(both) = (b - a) + (c - b)
      /\ \A k \in 1 .. (b - a) + (c - b) :
            both[k] = IF k <= b - a THEN Bytes(a, b)[k] ELSE Bytes(b, c)[k - (b - a)]
    <2>1. /\ both \in Seq(Nat) /\ Len(both) = Len(Bytes(a, b)) + Len(Bytes(b, c))
          /\ \A k \in 1 .. Len(Bytes(a, b)) + Len(Bytes(b, c)) :
                both[k] = IF k <= Len(Bytes(a, b)) THEN Bytes(a, b)[k]
                          ELSE Bytes(b, c)[k - Len(Bytes(a, b))]
        BY <1>1, <1>2, ConcatProperties
    <2>. HIDE DEF both
    <2>. QED
        BY <2>1, <1>1, <1>2
<1>. HIDE DEF both
<1>5. \A k \in 1 .. c - a : both[k] = a + k
    <2>. SUFFICES ASSUME NEW k \in 1 .. c - a PROVE both[k] = a + k
        OBVIOUS
    <2>1. CASE k <= b - a
        BY <2>1, <1>1, <1>4
    <2>2. CASE k > b - a
        <3>1. k - (b - a) \in 1 .. c - b
            BY <2>2
        <3>. QED
            BY <2>2, <3>1, <1>2, <1>4
    <2>. QED
        BY <2>1, <2>2
<1>6. Len(both) = c - a
    BY <1>4
<1>7. both = Bytes(a, c)
    BY <1>3, <1>4, <1>5, <1>6, SeqEqual
<1>. QED
    BY <1>7 DEF both

\* A part of a run is a run.
LEMMA BytesPart ==
    ASSUME NEW a \in Nat, NEW b \in Nat, NEW c \in Nat, NEW d \in Nat,
           a <= c, c < d, d <= b,
           NEW i \in Nat, NEW j \in Nat, i = c - a + 1, j = d - a
    PROVE  SubSeq(Bytes(a, b), i, j) = Bytes(c, d)
<1>1. /\ Bytes(a, b) \in Seq(Nat) /\ Len(Bytes(a, b)) = b - a
      /\ \A k \in 1 .. b - a : Bytes(a, b)[k] = a + k
    BY BytesType
<1>2. /\ Bytes(c, d) \in Seq(Nat) /\ Len(Bytes(c, d)) = d - c
      /\ \A k \in 1 .. d - c : Bytes(c, d)[k] = c + k
    BY BytesType
<1>. DEFINE part == SubSeq(Bytes(a, b), i, j)
<1>3. \A k \in i .. j : Bytes(a, b)[k] = a + k /\ Bytes(a, b)[k] \in Nat
    BY <1>1
<1>4. i \in Int /\ j \in Int /\ i <= j /\ j - i + 1 = d - c
    OBVIOUS
<1>5. /\ part \in Seq(Nat) /\ Len(part) = d - c
      /\ \A k \in 1 .. d - c : part[k] = Bytes(a, b)[i + k - 1]
    BY <1>3, <1>4, SubSeqProperties
<1>. HIDE DEF part
<1>6. \A k \in 1 .. d - c : part[k] = c + k
    <2>. SUFFICES ASSUME NEW k \in 1 .. d - c PROVE part[k] = c + k
        OBVIOUS
    <2>1. i + k - 1 \in i .. j /\ a + (i + k - 1) = c + k
        OBVIOUS
    <2>2. part[k] = Bytes(a, b)[i + k - 1]
        BY <1>5
    <2>3. Bytes(a, b)[i + k - 1] = a + (i + k - 1)
        BY <2>1, <1>3
    <2>. QED
        BY <2>1, <2>2, <2>3
<1>7. part = Bytes(c, d)
    <2>. DEFINE run == Bytes(c, d)
    <2>1. /\ run \in Seq(Nat) /\ Len(run) = Len(part)
          /\ \A k \in 1 .. Len(part) : part[k] = run[k]
        BY <1>2, <1>5, <1>6
    <2>. HIDE DEF run
    <2>2. part = run
        BY <1>5, <2>1, SeqEqual
    <2>. QED
        BY <2>2 DEF run
<1>. QED
    BY <1>7 DEF part

\* No bytes.
LEMMA BytesNone ==
    ASSUME NEW a \in Nat
    PROVE  Bytes(a, a) = << >>
BY BytesType

Rising(s) == \A k \in 1 .. Len(s) - 1 : s[k] < s[k + 1]
UpTo(s, p) == \A k \in 1 .. Len(s) : s[k] <= p

\* An output that has come up to p at most goes on rising with the run after p.
LEMMA RisingOn ==
    ASSUME NEW s \in Seq(Nat), NEW p \in Nat, NEW q \in Nat, p <= q,
           Rising(s), UpTo(s, p)
    PROVE  /\ s \o Bytes(p, q) \in Seq(Nat)
           /\ Rising(s \o Bytes(p, q)) /\ UpTo(s \o Bytes(p, q), q)
<1>1. /\ Bytes(p, q) \in Seq(Nat) /\ Len(Bytes(p, q)) = q - p
      /\ \A k \in 1 .. q - p : Bytes(p, q)[k] = p + k
    BY BytesType
<1>. DEFINE run == Bytes(p, q)
           t == s \o run
<1>0. Len(s) \in Nat /\ q - p \in Nat
    BY LenProperties
<1>r. run \in Seq(Nat) /\ Len(run) = q - p /\ \A k \in 1 .. q - p : run[k] = p + k
    BY <1>1
<1>. HIDE DEF run
<1>2. /\ t \in Seq(Nat) /\ Len(t) = Len(s) + (q - p)
      /\ \A k \in 1 .. Len(s) + (q - p) :
            t[k] = IF k <= Len(s) THEN s[k] ELSE run[k - Len(s)]
    <2>1. /\ t \in Seq(Nat) /\ Len(t) = Len(s) + Len(run)
          /\ \A k \in 1 .. Len(s) + Len(run) :
                t[k] = IF k <= Len(s) THEN s[k] ELSE run[k - Len(s)]
        BY <1>r, ConcatProperties
    <2>. QED
        BY <1>r, <2>1
<1>. HIDE DEF t
<1>3. \A k \in 1 .. Len(s) : t[k] = s[k]
    <2>1. \A k \in 1 .. Len(s) : k \in 1 .. Len(s) + (q - p) /\ k <= Len(s)
        BY <1>0
    <2>. QED
        BY <1>2, <2>1
<1>4. \A k \in Len(s) + 1 .. Len(t) : t[k] = p + (k - Len(s))
    <2>. SUFFICES ASSUME NEW k \in Len(s) + 1 .. Len(t) PROVE t[k] = p + (k - Len(s))
        OBVIOUS
    <2>1. k - Len(s) \in 1 .. q - p /\ k \in 1 .. Len(s) + (q - p) /\ ~(k <= Len(s))
        <3>1. \A l, r \in Nat : \A i \in l + 1 .. l + r :
                 i - l \in 1 .. r /\ i \in 1 .. l + r /\ ~(i <= l)
            OBVIOUS
        <3>2. k \in Len(s) + 1 .. Len(s) + (q - p)
            BY <1>2
        <3>. QED
            BY <3>1, <3>2, <1>0
    <2>. QED
        BY <2>1, <1>r, <1>2
<1>5. UpTo(t, q)
    <2>. SUFFICES ASSUME NEW k \in 1 .. Len(t) PROVE t[k] <= q
        BY DEF UpTo
    <2>1. CASE k <= Len(s)
        BY <2>1, <1>0, <1>3 DEF UpTo
    <2>2. CASE k > Len(s)
        <3>1. k \in Len(s) + 1 .. Len(t)
            BY <2>2, <1>0
        <3>. QED
            BY <3>1, <1>0, <1>2, <1>4
    <2>. QED
        BY <2>1, <2>2, <1>0
<1>6. ASSUME NEW k \in 1 .. Len(t) - 1
      PROVE  t[k] < t[k + 1]
    <2>1. CASE k < Len(s)
        <3>1. k \in 1 .. Len(s) /\ k + 1 \in 1 .. Len(s) /\ k \in 1 .. Len(s) - 1
            BY <2>1, <1>0
        <3>. QED
            BY <3>1, <1>3 DEF Rising
    <2>2. CASE k = Len(s)
        <3>1. t[k] = s[k] /\ s[k] <= p
            BY <2>2, <1>0, <1>3 DEF UpTo
        <3>2. t[k + 1] = p + 1
            <4>1. k + 1 \in Len(s) + 1 .. Len(t) /\ (k + 1) - Len(s) = 1
                BY <2>2, <1>0, <1>2
            <4>. QED
                BY <4>1, <1>4
        <3>3. s[k] \in Nat
            BY <2>2, <1>0
        <3>. QED
            BY <3>1, <3>2, <3>3
    <2>3. CASE k > Len(s)
        <3>1. k \in Len(s) + 1 .. Len(t) /\ k + 1 \in Len(s) + 1 .. Len(t)
            BY <2>3, <1>0, <1>2
        <3>. QED
            BY <3>1, <1>0, <1>4
    <2>. QED
        BY <2>1, <2>2, <2>3, <1>0
<1>. QED
    BY <1>2, <1>5, <1>6 DEF Rising, t, run
-----------------------------------------------------------------------------
(* buffered_perf.c: the inductive invariant *)

\* Where in the input the line, and before it the buffer, begin.
LineStart   == taken - Len(string)
BufferStart == taken - Len(string) - Len(buffer)

WriterTypes ==
    /\ program = "buffered_perf"
    /\ pc \in {"getline", "flush", "close", "end"}
    /\ total \in Nat /\ taken \in Nat /\ taken <= total
    /\ string \in Seq(Nat) /\ buffer \in Seq(Nat) /\ output \in Seq(Nat)
    /\ done \in Nat
    /\ lost \in BOOLEAN

\* What each point of the program relies on.
Points ==
    /\ Len(buffer) <= capacity /\ Len(string) <= capacity
    /\ pc # "flush" => string = << >>
    /\ pc \in {"flush", "close"} => done < Len(buffer)
    /\ pc \in {"getline", "end"} => done = 0
    /\ pc \in {"close", "end"} => taken = total
    /\ pc = "end" => buffer = << >>

\* The buffer and the line are neighbouring runs of the input, up to where it
\* was read.
Placed ==
    /\ BufferStart \in Nat
    /\ buffer = Bytes(BufferStart, LineStart)
    /\ string = Bytes(LineStart, taken)

\* The output has come as far as the first byte not written.
Written ==
    /\ Rising(output)
    /\ UpTo(output, BufferStart + done)
    /\ ~lost => output = Bytes(0, BufferStart + done)

WriterInv == WriterTypes /\ Points /\ Placed /\ Written
-----------------------------------------------------------------------------

\* The invariant holds at the start.
LEMMA WriterBegins == Init => WriterInv
<1>. SUFFICES ASSUME Init PROVE WriterInv
    OBVIOUS
<1>0. << >> \in Seq(Nat) /\ Len(<< >>) = 0
    BY EmptySeq
<1>1. WriterTypes
    <2>1. total \in Nat /\ taken \in Nat /\ taken <= total /\ done \in Nat
        BY WriterAssumption DEF Init
    <2>2. lost \in BOOLEAN
        BY DEF Init
    <2>. QED
        BY <2>1, <2>2, <1>0 DEF Init, WriterTypes
<1>2. Points
    BY WriterAssumption DEF Init, Points
<1>3. LineStart = 0 /\ BufferStart = 0
    <2>1. Len(string) = 0 /\ Len(buffer) = 0 /\ taken = 0
        BY <1>0 DEF Init
    <2>. QED
        BY <2>1 DEF LineStart, BufferStart
<1>4. Bytes(0, 0) = << >>
    BY BytesNone
<1>5. Placed
    BY <1>3, <1>4 DEF Init, Placed
<1>6. Written
    BY <1>3, <1>4 DEF Init, Written, Rising, UpTo
<1>. QED
    BY <1>1, <1>2, <1>5, <1>6 DEF WriterInv

\* A line that fits extends the run in the buffer.
LEMMA KeepInv ==
    ASSUME WriterInv, NEW n \in 1 .. MaxLine, Keep(n)
    PROVE  WriterInv'
<1>. USE DEF WriterInv
<1>n. n \in Nat /\ n > 0
    BY WriterAssumption
<1>1. string = << >> /\ done = 0 /\ LineStart = taken
    BY EmptySeq DEF Keep, Points, LineStart, WriterTypes
<1>2. /\ BufferStart \in Nat /\ BufferStart = taken - Len(buffer)
      /\ buffer = Bytes(BufferStart, taken)
    BY <1>1 DEF Placed, BufferStart, WriterTypes
<1>3. BufferStart <= taken
    BY <1>2 DEF WriterTypes
<1>e. /\ taken \in Nat /\ taken + n \in Nat /\ taken <= taken + n
      /\ BufferStart <= taken + n /\ Len(buffer) \in Nat
      /\ (taken + n) - BufferStart = Len(buffer) + n
    BY <1>2, <1>3, <1>n DEF WriterTypes
<1>4. buffer' = Bytes(BufferStart, taken + n)
    <2>1. Bytes(BufferStart, taken) \o Bytes(taken, taken + n) = Bytes(BufferStart, taken + n)
        BY <1>2, <1>3, <1>e, BytesConcat
    <2>. QED
        BY <2>1, <1>2 DEF Keep
<1>5. buffer' \in Seq(Nat) /\ Len(buffer') = Len(buffer) + n
    BY <1>2, <1>4, <1>e, BytesType
<1>6. string' = << >> /\ taken' = taken + n /\ done' = 0 /\ pc' = pc
    BY <1>1 DEF Keep
<1>7. LineStart' = taken + n /\ BufferStart' = BufferStart
    BY <1>1, <1>2, <1>5, <1>6, <1>n DEF LineStart, BufferStart, WriterTypes
<1>8. WriterTypes'
    BY <1>5, <1>6, <1>n DEF WriterTypes, Keep
<1>9. Points'
    BY <1>5, <1>6, <1>n DEF Points, Keep, WriterTypes
<1>10. Placed'
    BY <1>2, <1>4, <1>6, <1>7, <1>e, BytesNone DEF Placed
<1>11. Written'
    BY <1>1, <1>6, <1>7 DEF Written, Keep, Rising, UpTo
<1>. QED
    BY <1>8, <1>9, <1>10, <1>11

\* One that does not is cut where the buffer is full.
LEMMA FillInv ==
    ASSUME WriterInv, NEW n \in 1 .. MaxLine, Fill(n)
    PROVE  WriterInv'
<1>. USE DEF WriterInv
<1>. DEFINE first == capacity - Len(buffer)
<1>n. n \in Nat /\ n <= capacity /\ capacity \in Nat /\ capacity > 0
    BY WriterAssumption
<1>f. first \in Nat /\ first < n
    BY <1>n DEF Fill, Points, WriterTypes
<1>1. string = << >> /\ done = 0 /\ LineStart = taken
    BY EmptySeq DEF Fill, Points, LineStart, WriterTypes
<1>2. /\ BufferStart \in Nat /\ BufferStart = taken - Len(buffer)
      /\ buffer = Bytes(BufferStart, taken)
    BY <1>1 DEF Placed, BufferStart, WriterTypes
<1>3. BufferStart <= taken
    BY <1>2 DEF WriterTypes
<1>. DEFINE cut == taken + first
            end == taken + n
<1>e. /\ taken \in Nat /\ cut \in Nat /\ end \in Nat /\ taken <= cut /\ cut <= end
      /\ BufferStart <= cut /\ Len(buffer) \in Nat
      /\ cut - BufferStart = capacity /\ end - cut = n - first
    BY <1>2, <1>3, <1>f, <1>n DEF WriterTypes
<1>6. buffer' = buffer \o Bytes(taken, cut) /\ string' = Bytes(cut, end) /\ taken' = end
    BY DEF Fill
<1>. HIDE DEF cut, end
<1>4. buffer' = Bytes(BufferStart, cut)
    <2>1. Bytes(BufferStart, taken) \o Bytes(taken, cut) = Bytes(BufferStart, cut)
        BY <1>2, <1>3, <1>e, BytesConcat
    <2>. QED
        BY <2>1, <1>2, <1>6
<1>5. buffer' \in Seq(Nat) /\ Len(buffer') = capacity
    BY <1>2, <1>4, <1>e, BytesType
<1>7. string' \in Seq(Nat) /\ Len(string') = n - first
    BY <1>6, <1>e, BytesType
<1>8. LineStart' = cut /\ BufferStart' = BufferStart
    <2>1. first \in Nat /\ end = taken + n /\ cut = taken + first
        BY <1>f DEF end, cut
    <2>2. LineStart' = end - (n - first) /\ BufferStart' = end - (n - first) - capacity
        BY <1>5, <1>6, <1>7 DEF LineStart, BufferStart
    <2>. HIDE DEF first
    <2>. QED
        BY <2>1, <2>2, <1>2, <1>e, <1>n
<1>9. WriterTypes'
    BY <1>5, <1>6, <1>7, <1>e DEF WriterTypes, Fill, end
<1>10. Points'
    BY <1>1, <1>5, <1>7, <1>f, <1>n DEF Points, Fill
<1>11. Placed'
    BY <1>2, <1>4, <1>6, <1>8 DEF Placed
<1>12. Written'
    BY <1>8 DEF Written, Fill, Rising, UpTo
<1>. QED
    BY <1>9, <1>10, <1>11, <1>12

\* write_retry() returns: the buffer begins where the line did.
LEMMA ReturnsInv ==
    ASSUME WriterInv, pc \in {"flush", "close"}, Returns, UNCHANGED <<program, total, taken>>
    PROVE  /\ BufferStart' = LineStart /\ done' = 0
           /\ Points' /\ Placed'
           /\ pc' \in {"getline", "end"} /\ buffer' \in Seq(Nat) /\ string' \in Seq(Nat)
<1>. USE DEF WriterInv
<1>1. buffer' = string /\ string' = << >> /\ done' = 0 /\ taken' = taken
    BY DEF Returns
<1>2. LineStart' = taken /\ BufferStart' = LineStart
    BY <1>1 DEF LineStart, BufferStart, WriterTypes
<1>3. LineStart \in Nat
    BY DEF Placed, LineStart, BufferStart, WriterTypes
<1>4. Placed'
    BY <1>1, <1>2, <1>3, BytesNone DEF Placed, WriterTypes
<1>5. Points'
    BY <1>1, WriterAssumption DEF Points, Returns
<1>. QED
    BY <1>1, <1>2, <1>4, <1>5 DEF Returns, WriterTypes

\* A write() keeps the invariant, whatever it returns.
LEMMA WriteInv ==
    ASSUME WriterInv, NEW n \in 1 .. capacity, Write(n)
    PROVE  WriterInv'
<1>. USE DEF WriterInv
<1>. DEFINE p == BufferStart + done
<1>n. n \in Nat \ {0}
    BY WriterAssumption
<1>1. /\ BufferStart \in Nat /\ LineStart \in Nat /\ done \in Nat
      /\ LineStart = BufferStart + Len(buffer) /\ done + n <= Len(buffer)
    BY DEF Placed, BufferStart, LineStart, WriterTypes, Write
<1>2. p = BufferStart + done
    OBVIOUS
<1>p. p \in Nat /\ p + n \in Nat /\ p <= p + n /\ 0 <= p /\ 0 \in Nat
    BY <1>1, <1>n
<1>. HIDE DEF p
<1>3. output' = output \o Bytes(p, p + n)
    <2>. DEFINE q == p + n
                i == done + 1
                j == done + n
    <2>1. /\ q \in Nat /\ i \in Nat /\ j \in Nat /\ BufferStart <= p /\ p < q
          /\ q <= LineStart /\ i = p - BufferStart + 1 /\ j = q - BufferStart
        BY <1>1, <1>2, <1>n, <1>p DEF WriterTypes
    <2>2. output' = output \o SubSeq(Bytes(BufferStart, LineStart), i, j)
        BY DEF Write, Placed
    <2>. HIDE DEF q, i, j
    <2>3. SubSeq(Bytes(BufferStart, LineStart), i, j) = Bytes(p, q)
        BY <2>1, <1>1, <1>p, BytesPart
    <2>. QED
        BY <2>2, <2>3 DEF q
<1>4. output' \in Seq(Nat) /\ Rising(output') /\ UpTo(output', p + n)
    BY <1>3, <1>p, <1>2, RisingOn DEF Written, WriterTypes
<1>5. ~lost' => output' = Bytes(0, p + n)
    <2>1. Bytes(0, p) \o Bytes(p, p + n) = Bytes(0, p + n)
        BY <1>p, BytesConcat
    <2>. QED
        BY <2>1, <1>3, <1>2 DEF Written, Write
<1>6. CASE done + n = Len(buffer)
    <2>1. Returns /\ UNCHANGED <<program, total, taken, lost>> /\ pc \in {"flush", "close"}
        BY <1>6 DEF Write
    <2>2. /\ BufferStart' = LineStart /\ done' = 0 /\ Points' /\ Placed'
          /\ pc' \in {"getline", "end"} /\ buffer' \in Seq(Nat) /\ string' \in Seq(Nat)
        BY <2>1, ReturnsInv
    <2>3. BufferStart' + done' = p + n
        <3>1. BufferStart' = BufferStart + (done + n) /\ done' = 0
            BY <2>2, <1>1, <1>6
        <3>. QED
            BY <3>1, <1>1, <1>2, <1>n
    <2>4. Written'
        BY <2>3, <1>4, <1>5 DEF Written, Rising, UpTo
    <2>5. WriterTypes'
        BY <2>1, <2>2, <1>4 DEF WriterTypes
    <2>. QED
        BY <2>2, <2>4, <2>5
<1>7. CASE done + n # Len(buffer)
    <2>1. done' = done + n /\ UNCHANGED <<program, pc, total, taken, string, buffer, lost>>
        BY <1>7 DEF Write
    <2>2. BufferStart' = BufferStart /\ LineStart' = LineStart
        BY <2>1 DEF BufferStart, LineStart
    <2>3. WriterTypes'
        BY <2>1, <1>4, <1>n DEF WriterTypes
    <2>4. Points'
        BY <2>1, <1>1, <1>7, <1>n DEF Points, WriterTypes, Write
    <2>5. Placed'
        BY <2>1, <2>2 DEF Placed
    <2>6. BufferStart' + done' = p + n
        BY <2>1, <2>2, <1>1, <1>2, <1>n
    <2>7. Written'
        BY <2>6, <1>4, <1>5 DEF Written, Rising, UpTo
    <2>. QED
        BY <2>3, <2>4, <2>5, <2>7
<1>. QED
    BY <1>6, <1>7

\* A failed write() leaves a gap; what comes later is still behind it.
LEMMA GiveUpInv ==
    ASSUME WriterInv, GiveUp
    PROVE  WriterInv'
<1>. USE DEF WriterInv
<1>1. /\ Returns /\ UNCHANGED <<program, total, taken, output>>
      /\ pc \in {"flush", "close"} /\ lost' = TRUE
    BY DEF GiveUp
<1>2. /\ BufferStart' = LineStart /\ done' = 0 /\ Points' /\ Placed'
      /\ pc' \in {"getline", "end"} /\ buffer' \in Seq(Nat) /\ string' \in Seq(Nat)
    BY <1>1, ReturnsInv
<1>3. /\ BufferStart \in Nat /\ LineStart \in Nat
      /\ BufferStart + done <= LineStart
    BY <1>1 DEF Placed, BufferStart, LineStart, WriterTypes, Points
<1>4. UpTo(output, LineStart)
    BY <1>3 DEF Written, UpTo, WriterTypes
<1>5. Written'
    BY <1>1, <1>2, <1>3, <1>4 DEF Written, Rising, UpTo
<1>6. WriterTypes'
    BY <1>1, <1>2 DEF WriterTypes
<1>. QED
    BY <1>2, <1>5, <1>6

\* The end of the input keeps the invariant.
LEMMA EndOfInputInv ==
    ASSUME WriterInv, EndOfInput
    PROVE  WriterInv'
<1>. USE DEF WriterInv
<1>1. LineStart' = LineStart /\ BufferStart' = BufferStart
    BY DEF EndOfInput, LineStart, BufferStart
<1>2. WriterTypes'
    BY DEF EndOfInput, WriterTypes
<1>3. Points'
    BY DEF EndOfInput, Points, WriterTypes
<1>4. Placed'
    BY <1>1 DEF EndOfInput, Placed
<1>5. Written'
    BY <1>1 DEF EndOfInput, Written, Rising, UpTo
<1>. QED
    BY <1>2, <1>3, <1>4, <1>5

\* Each step keeps the invariant.
LEMMA WriterInductive == WriterInv /\ [Next]_vars => WriterInv'
<1>. SUFFICES ASSUME WriterInv, [Next]_vars PROVE WriterInv'
    OBVIOUS
<1>1. ASSUME NEW n \in 1 .. MaxLine, Keep(n) PROVE WriterInv'
    BY <1>1, KeepInv
<1>2. ASSUME NEW n \in 1 .. MaxLine, Fill(n) PROVE WriterInv'
    BY <1>2, FillInv
<1>3. ASSUME NEW n \in 1 .. capacity, Write(n) PROVE WriterInv'
    BY <1>3, WriteInv
<1>4. CASE GiveUp
    BY <1>4, GiveUpInv
<1>5. CASE EndOfInput
    BY <1>5, EndOfInputInv
<1>6. CASE UNCHANGED vars
    BY <1>6 DEF vars, WriterInv, WriterTypes, Points, Placed, Written, BufferStart, LineStart,
                Rising, UpTo
<1>. QED
    BY <1>1, <1>2, <1>3, <1>4, <1>5, <1>6 DEF Next

\* The invariant gives what is promised of the output.
LEMMA WriterKeeps == WriterInv => StreamKept
<1>. SUFFICES ASSUME WriterInv PROVE StreamKept
    OBVIOUS
<1>1. taken - Held = BufferStart + done
    BY DEF WriterInv, WriterTypes, Held, BufferStart
<1>2. pc = "end" => taken = total /\ Held = 0
    BY DEF WriterInv, Points, Held
<1>. QED
    BY <1>1, <1>2 DEF WriterInv, Points, Written, Rising, StreamKept

-----------------------------------------------------------------------------
(* FileCopy: the inductive invariant *)

CopyTypes ==
    /\ program \in CopyProgram
    /\ pc \in {"read", "write", "end", "failed"}
    /\ total \in Nat /\ taken \in Nat /\ taken <= total
    /\ buffer \in Seq(Nat) /\ done \in Nat
    /\ nul \in 1 .. total + 1

\* The programs whose buffer, once it is to be written, holds all that fits.
Filling == Copy!UntilZero \cup {"read_retry"}

\* What was read is the beginning of the input.  Only simple_reprinter.c prints
\* a buffer it has not filled, and only the programs that loop have surely
\* filled theirs when they leave the loop.
Gathered ==
    /\ taken <= BUFFER_SIZE
    /\ buffer = Bytes(0, Len(buffer))
       \/ (program = "simple_reprinter" /\ buffer = <<Copy!Junk>>)
    /\ pc = "read" => /\ buffer = Bytes(0, taken)
                      /\ program \notin Filling => taken = 0
    /\ pc \in {"write", "end"} /\ program \in Filling =>
          buffer = Bytes(0, taken) /\ taken = Copy!Lesser(BUFFER_SIZE, total)

\* What was written is the beginning of the buffer; what read_retry has printed ends
\* at the first NUL byte.
PutOut ==
    /\ pc = "read" => done = 0 /\ output = << >>
    /\ program \notin Copy!Reprinter =>
          done <= Len(buffer) /\ output = Bytes(0, done)
    /\ program \in Copy!Reprinter =>
          \/ output = << >>
          \/ pc = "end" /\ output = Bytes(0, Len(output))
          \/ pc = "end" /\ program = "simple_reprinter" /\ output = <<Copy!Junk>>
    /\ pc = "end" /\ program \in Copy!UntilZero => done = Len(buffer)
    /\ pc = "end" /\ program = "read_retry" /\ "output" \notin broken =>
          Len(output) = Copy!Lesser(BUFFER_SIZE, nul - 1)

CopyInv == CopyTypes /\ Gathered /\ PutOut
-----------------------------------------------------------------------------

\* The copy of the operator that FileCopy has is the same.
LEMMA SameBytes == ASSUME NEW a, NEW b PROVE Copy!Bytes(a, b) = Bytes(a, b)
BY DEF Copy!Bytes, Bytes

\* The invariant holds at the start.
LEMMA CopyBegins == Copy!Init => CopyInv
<1>. SUFFICES ASSUME Copy!Init PROVE CopyInv
    OBVIOUS
<1>0. << >> \in Seq(Nat) /\ Len(<< >>) = 0
    BY EmptySeq
<1>1. CopyTypes
    <2>1. total \in Nat /\ taken \in Nat /\ taken <= total /\ done \in Nat
        BY WriterAssumption DEF Copy!Init
    <2>2. nul \in 1 .. total + 1
        BY <2>1 DEF Copy!Init
    <2>. QED
        BY <2>1, <2>2, <1>0 DEF Copy!Init, CopyTypes
<1>2. Bytes(0, 0) = << >>
    BY BytesNone
<1>3. Gathered
    BY <1>0, <1>2, DataAssumption DEF Copy!Init, Gathered
<1>4. PutOut
    BY <1>0, <1>2 DEF Copy!Init, PutOut
<1>. QED
    BY <1>1, <1>3, <1>4 DEF CopyInv

\* read() extends what is in the buffer; read_retry() goes on until it is full.
LEMMA CopyReads ==
    ASSUME CopyInv, NEW n \in 1 .. BUFFER_SIZE, Copy!Read(n)
    PROVE  CopyInv'
<1>. USE DEF CopyInv
<1>n. n \in Nat /\ n > 0 /\ BUFFER_SIZE \in Nat
    BY DataAssumption
<1>0. /\ buffer = Bytes(0, taken) /\ done = 0 /\ output = << >>
      /\ taken \in Nat /\ total \in Nat
    BY DEF Copy!Read, Gathered, PutOut, CopyTypes
<1>1. Len(buffer) = taken
    BY <1>0, BytesType
<1>2. n <= BUFFER_SIZE - taken /\ n <= total - taken
    <2>1. n <= Copy!Lesser(BUFFER_SIZE - taken, total - taken)
        BY <1>1 DEF Copy!Read, Copy!space
    <2>. QED
        BY <2>1, <1>0, <1>n DEF Copy!Lesser
<1>. DEFINE upto == taken + n
<1>3. /\ upto \in Nat /\ 0 <= taken /\ taken <= upto
      /\ upto <= BUFFER_SIZE /\ upto <= total
    BY <1>0, <1>2, <1>n
<1>4. /\ taken' = upto /\ buffer' = buffer \o Bytes(taken, upto)
      /\ UNCHANGED <<program, total, done, output, broken, nul>>
    BY SameBytes DEF Copy!Read
<1>. HIDE DEF upto
<1>5. buffer' = Bytes(0, upto)
    <2>1. Bytes(0, taken) \o Bytes(taken, upto) = Bytes(0, upto)
        BY <1>0, <1>3, BytesConcat
    <2>. QED
        BY <2>1, <1>0, <1>4
<1>6. buffer' \in Seq(Nat) /\ Len(buffer') = upto
    BY <1>3, <1>5, BytesType
<1>7. /\ pc' = IF program \in Copy!UntilZero \/ (program = "read_retry" /\ n < BUFFER_SIZE - taken)
               THEN "read" ELSE "write"
    BY <1>1 DEF Copy!Read, Copy!space
<1>8. CopyTypes'
    BY <1>3, <1>4, <1>6, <1>7 DEF CopyTypes
<1>9. Gathered'
    <2>1. pc' = "write" /\ program \in Filling => upto = BUFFER_SIZE
        <3>1. pc' = "write" /\ program \in Filling => ~(n < BUFFER_SIZE - taken)
            BY <1>7 DEF Filling
        <3>2. ~(n < BUFFER_SIZE - taken) => taken + n = BUFFER_SIZE
            BY <1>0, <1>2, <1>n
        <3>. QED
            BY <3>1, <3>2 DEF upto
    <2>2. upto = BUFFER_SIZE => upto = Copy!Lesser(BUFFER_SIZE, total)
        BY <1>3, <1>0, <1>n DEF Copy!Lesser
    <2>3. pc' = "read" => program \in Filling
        BY <1>7 DEF Filling
    <2>4. pc' \in {"read", "write"}
        BY <1>7
    <2>. QED
        BY <1>3, <1>4, <1>5, <1>6, <2>1, <2>2, <2>3, <2>4 DEF Gathered
<1>10. PutOut'
    <2>1. Bytes(0, 0) = << >>
        BY BytesNone
    <2>2. pc' \in {"read", "write"}
        BY <1>7
    <2>. QED
        BY <1>0, <1>3, <1>4, <1>6, <2>1, <2>2 DEF PutOut
<1>. QED
    BY <1>8, <1>9, <1>10

\* The end of the input, or a full buffer, ends the loop.
LEMMA CopyReadsNothing ==
    ASSUME CopyInv, Copy!ReadZero
    PROVE  CopyInv'
<1>. USE DEF CopyInv
<1>0. /\ pc = "read" /\ pc' = "write"
      /\ UNCHANGED <<program, total, taken, buffer, done, output, broken, nul>>
    BY DEF Copy!ReadZero
<1>1. buffer = Bytes(0, taken) /\ taken \in Nat /\ total \in Nat /\ BUFFER_SIZE \in Nat
    BY <1>0, DataAssumption DEF Gathered, CopyTypes
<1>2. Len(buffer) = taken
    BY <1>1, BytesType
<1>3. taken = Copy!Lesser(BUFFER_SIZE, total)
    <2>1. taken = total \/ BUFFER_SIZE - taken = 0
        BY <1>2 DEF Copy!ReadZero, Copy!space
    <2>. QED
        BY <2>1, <1>1 DEF Copy!Lesser, Gathered, CopyTypes
<1>4. Bytes(0, 0) = << >>
    BY BytesNone
<1>5. CopyTypes'
    BY <1>0 DEF CopyTypes
<1>6. Gathered'
    BY <1>0, <1>1, <1>2, <1>3 DEF Gathered
<1>7. PutOut'
    BY <1>0, <1>1, <1>2, <1>4 DEF PutOut
<1>. QED
    BY <1>5, <1>6, <1>7

\* A failed read() ends the program, or is taken for a length.
LEMMA CopyReadFails ==
    ASSUME CopyInv, NEW error, Copy!ReadError(error)
    PROVE  CopyInv'
<1>. USE DEF CopyInv
<1>0. pc = "read" /\ UNCHANGED <<program, total, taken, done, output, broken, nul>>
    BY DEF Copy!ReadError
<1>1. buffer = Bytes(0, taken) /\ taken \in Nat /\ done = 0 /\ output = << >>
    BY <1>0 DEF Gathered, PutOut, CopyTypes
<1>2. Len(buffer) = taken
    BY <1>1, BytesType
<1>3. Bytes(0, 0) = << >> /\ << >> \in Seq(Nat) /\ Len(<< >>) = 0
    BY BytesNone, EmptySeq
<1>4. <<Copy!Junk>> \in Seq(Nat) /\ Len(<<Copy!Junk>>) = 1
    BY DEF Copy!Junk
<1>5. CASE pc' = "failed" /\ buffer' = buffer
    <2>1. CopyTypes'
        BY <1>0, <1>5 DEF CopyTypes
    <2>2. Gathered'
        BY <1>0, <1>1, <1>2, <1>5 DEF Gathered
    <2>3. PutOut'
        BY <1>0, <1>1, <1>2, <1>3, <1>5 DEF PutOut
    <2>. QED
        BY <2>1, <2>2, <2>3
<1>6. CASE /\ program \in {"basic_io", "simple_reprinter"} /\ pc' = "write"
           /\ buffer' = IF program = "simple_reprinter" THEN <<Copy!Junk>> ELSE << >>
    <2>1. CopyTypes'
        BY <1>0, <1>3, <1>4, <1>6 DEF CopyTypes
    <2>2. program \notin Filling
        BY <1>6 DEF Filling, Copy!UntilZero
    <2>3. Gathered'
        BY <1>0, <1>1, <1>3, <1>6, <2>2 DEF Gathered
    <2>4. program \notin Copy!Reprinter => buffer' = << >>
        BY <1>6 DEF Copy!Reprinter
    <2>5. PutOut'
        BY <1>0, <1>1, <1>3, <1>6, <2>4 DEF PutOut
    <2>. QED
        BY <2>1, <2>3, <2>5
<1>. QED
    BY <1>5, <1>6 DEF Copy!ReadError

\* write() takes the bytes behind those it has taken.
LEMMA CopyWrites ==
    ASSUME CopyInv, NEW n \in 0 .. BUFFER_SIZE, Copy!Write(n)
    PROVE  CopyInv'
<1>. USE DEF CopyInv
<1>n. n \in Nat
    BY DataAssumption
<1>. DEFINE upto == done + n
<1>0. /\ pc = "write" /\ program \notin Copy!Reprinter
      /\ upto <= Len(buffer) /\ (n = 0 => done = Len(buffer))
      /\ output' = output \o SubSeq(buffer, done + 1, upto) /\ done' = upto
      /\ pc' = IF program \in Copy!UntilZero /\ n > 0 THEN "write" ELSE "end"
      /\ UNCHANGED <<program, total, taken, buffer, broken, nul>>
    BY <1>n DEF Copy!Write, CopyTypes
<1>1. /\ Len(buffer) \in Nat /\ buffer = Bytes(0, Len(buffer))
      /\ output = Bytes(0, done) /\ done \in Nat /\ upto \in Nat /\ done <= upto
    BY <1>0, <1>n DEF Gathered, PutOut, CopyTypes, Copy!Reprinter
<1>2. output' = Bytes(0, upto)
    <2>1. CASE n = 0
        <3>1. upto = done
            BY <2>1, <1>1
        <3>2. SubSeq(buffer, done + 1, done) = << >>
            BY <1>1
        <3>3. output \in Seq(Nat)
            BY <1>1, BytesType
        <3>4. output \o << >> = output
            BY <3>3
        <3>. QED
            BY <3>1, <3>2, <3>4, <1>0, <1>1
    <2>2. CASE n > 0
        <3>. DEFINE l == Len(buffer)
                    i == done + 1
        <3>1. /\ l \in Nat /\ i \in Nat /\ 0 <= done /\ done < upto /\ upto <= l
              /\ i = done - 0 + 1 /\ upto = upto - 0
            BY <1>0, <1>1, <1>n, <2>2
        <3>2. output' = Bytes(0, done) \o SubSeq(Bytes(0, l), i, upto)
            BY <1>0, <1>1
        <3>. HIDE DEF l, i, upto
        <3>3. SubSeq(Bytes(0, l), i, upto) = Bytes(done, upto)
            BY <3>1, <1>1, BytesPart
        <3>4. Bytes(0, done) \o Bytes(done, upto) = Bytes(0, upto)
            BY <3>1, <1>1, BytesConcat
        <3>. QED
            BY <3>2, <3>3, <3>4
    <2>. QED
        BY <2>1, <2>2, <1>n
<1>. HIDE DEF upto
<1>3. CopyTypes'
    BY <1>0, <1>1 DEF CopyTypes
<1>4. Gathered'
    BY <1>0 DEF Gathered
<1>5. pc' = "end" /\ program \in Copy!UntilZero => upto = Len(buffer)
    BY <1>0, <1>1, <1>n DEF upto
<1>6. PutOut'
    BY <1>0, <1>1, <1>2, <1>5 DEF PutOut, Copy!Reprinter
<1>. QED
    BY <1>3, <1>4, <1>6

\* A failed write() ends the program.
LEMMA CopyWriteFails ==
    ASSUME CopyInv, NEW error, Copy!WriteError(error)
    PROVE  CopyInv'
<1>. USE DEF CopyInv
<1>0. /\ pc = "write" /\ program \notin Copy!Reprinter
      /\ pc' \in {"failed", "end"}
      /\ pc' = "end" => program = "basic_io"
      /\ UNCHANGED <<program, total, taken, buffer, done, output, broken, nul>>
    BY DEF Copy!WriteError
<1>1. CopyTypes'
    BY <1>0 DEF CopyTypes
<1>2. Gathered'
    BY <1>0 DEF Gathered
<1>3. PutOut'
    BY <1>0 DEF PutOut, Copy!UntilZero, Copy!Reprinter
<1>. QED
    BY <1>1, <1>2, <1>3

\* printf() puts out the beginning of the buffer, up to the first NUL byte or to
\* where stdout failed.
LEMMA CopyPrints ==
    ASSUME CopyInv, NEW n \in 0 .. BUFFER_SIZE, Copy!PrintBuffer(n)
    PROVE  CopyInv'
<1>. USE DEF CopyInv
<1>1. PICK length \in Copy!printable :
          /\ n <= length
          /\ broken' = IF n < length THEN broken \cup {"output"} ELSE broken
    BY DEF Copy!PrintBuffer
<1>2. /\ pc = "write" /\ program \in Copy!Reprinter /\ pc' = "end"
      /\ "output" \in broken => n = 0
      /\ output' = SubSeq(buffer, 1, n)
      /\ UNCHANGED <<program, total, taken, buffer, done, nul>>
    BY DEF Copy!PrintBuffer
<1>3. /\ n \in Nat /\ BUFFER_SIZE \in Nat /\ total \in Nat /\ taken \in Nat /\ taken <= total
      /\ nul \in Nat /\ 1 <= nul /\ nul <= total + 1
      /\ buffer \in Seq(Nat) /\ Len(buffer) \in Nat
    BY DataAssumption DEF CopyTypes
<1>4. CopyTypes'
    BY <1>2 DEF CopyTypes
<1>5. Gathered'
    BY <1>2 DEF Gathered
<1>6. CASE buffer = Bytes(0, Len(buffer))
    <2>. DEFINE l == Len(buffer)
    <2>1. buffer # <<Copy!Junk>>
        <3>1. l = 1 => buffer[1] = 1
            BY <1>3, <1>6 DEF Bytes
        <3>. QED BY <3>1 DEF Copy!Junk
    <2>2. length = Copy!Lesser(l, nul - 1)
        BY <1>1, <2>1 DEF Copy!printable
    <2>3. n <= l /\ length \in Nat
        BY <1>1, <1>3, <2>2 DEF Copy!Lesser
    <2>4. output' = Bytes(0, n)
        <3>1. CASE n = 0
            <4>1. output' = << >>
                BY <1>2, <1>3, <3>1
            <4>. QED BY <3>1, <4>1, BytesNone
        <3>2. CASE n > 0
            <4>1. 0 < n /\ n <= l /\ l \in Nat /\ 1 \in Nat /\ 1 = 0 - 0 + 1 /\ n = n - 0
                  /\ 0 <= 0
                BY <1>3, <2>3, <3>2
            <4>2. output' = SubSeq(Bytes(0, l), 1, n)
                BY <1>2, <1>6
            <4>. HIDE DEF l
            <4>. QED BY <4>1, <4>2, <1>3, BytesPart
        <3>. QED BY <1>3, <3>1, <3>2
    <2>5. Len(output') = n /\ output' = Bytes(0, Len(output'))
        BY <1>3, <2>4, BytesType
    <2>6. program = "read_retry" /\ "output" \notin broken' =>
             n = Copy!Lesser(BUFFER_SIZE, nul - 1)
        <3>. SUFFICES ASSUME program = "read_retry", "output" \notin broken'
                      PROVE  n = Copy!Lesser(BUFFER_SIZE, nul - 1)
            OBVIOUS
        <3>1. buffer = Bytes(0, taken) /\ taken = Copy!Lesser(BUFFER_SIZE, total)
            BY <1>2 DEF Gathered, Filling
        <3>2. l = taken
            BY <1>3, <3>1, BytesType
        <3>3. n = length
            BY <1>1, <1>3, <2>3
        <3>. QED BY <1>3, <2>2, <3>1, <3>2, <3>3 DEF Copy!Lesser
    <2>. HIDE DEF l
    <2>7. PutOut'
        BY <1>2, <2>5, <2>6 DEF PutOut, Copy!UntilZero, Copy!Reprinter
    <2>. QED BY <1>4, <1>5, <2>7
<1>7. CASE program = "simple_reprinter" /\ buffer = <<Copy!Junk>>
    <2>1. n \in 0 .. 1
        BY <1>1, <1>3, <1>7 DEF Copy!printable
    <2>2. output' = << >> \/ output' = <<Copy!Junk>>
        <3>1. SubSeq(<<Copy!Junk>>, 1, 0) = << >>
            BY SubSeqEmpty
        <3>2. SubSeq(<<Copy!Junk>>, 1, 1) = <<Copy!Junk>>
            <4>1. <<Copy!Junk>> \in Seq(Nat) /\ Len(<<Copy!Junk>>) = 1
                BY DEF Copy!Junk
            <4>. QED BY <4>1, SubSeqFull
        <3>. QED BY <1>2, <1>7, <2>1, <3>1, <3>2
    <2>3. PutOut'
        BY <1>2, <1>7, <2>2 DEF PutOut, Copy!UntilZero, Copy!Reprinter
    <2>. QED BY <1>4, <1>5, <2>3
<1>. QED
    BY <1>6, <1>7 DEF Gathered

\* Each step keeps the invariant.
LEMMA CopyInductive == CopyInv /\ [Copy!Next]_(Copy!vars) => CopyInv'
<1>1. CopyInv /\ Copy!Next => CopyInv'
    BY CopyReads, CopyReadsNothing, CopyReadFails, CopyWrites, CopyWriteFails, CopyPrints
    DEF Copy!Next
<1>2. CopyInv /\ UNCHANGED Copy!vars => CopyInv'
    BY DEF Copy!vars, CopyInv, CopyTypes, Gathered, PutOut
<1>. QED
    BY <1>1, <1>2

\* The invariant gives what is promised of the output.
LEMMA CopyKeeps == CopyInv => Copy!CopiesTheStart
<1>. SUFFICES ASSUME CopyInv PROVE Copy!CopiesTheStart
    OBVIOUS
<1>. USE DEF CopyInv
<1>0. /\ Bytes(0, 0) = << >> /\ Len(<< >>) = 0
      /\ \A b \in Nat : Len(Bytes(0, b)) = b
    BY BytesNone, BytesType, EmptySeq
<1>1. output = Copy!Bytes(0, Len(output))
      \/ (program = "simple_reprinter" /\ output = <<Copy!Junk>>)
    <2>1. output = Bytes(0, Len(output))
          \/ (program = "simple_reprinter" /\ output = <<Copy!Junk>>)
        BY <1>0 DEF PutOut, Gathered, CopyTypes
    <2>. QED
        BY <2>1, SameBytes
<1>2. pc = "end" /\ program \in Copy!UntilZero
          => Len(output) = Copy!Lesser(BUFFER_SIZE, total)
    BY <1>0 DEF PutOut, Gathered, CopyTypes, Filling, Copy!UntilZero, Copy!Reprinter
<1>3. pc = "end" /\ program = "read_retry" /\ "output" \notin broken
          => Len(output) = Copy!Lesser(BUFFER_SIZE, nul - 1)
    BY DEF PutOut
<1>. QED
    BY <1>1, <1>2, <1>3 DEF Copy!CopiesTheStart
-----------------------------------------------------------------------------
(* UdpEcho: the inductive invariant *)

\* The words that have been answered, and those of which a datagram is on its
\* way or has been answered.
Answered == {answers[k] : k \in DOMAIN answers}
Known    == (toServer \cup toClient \cup Answered) \ {0}

UdpTypes ==
    /\ client \in {"scanf", "recvfrom", "end"}
    /\ words \in Nat /\ copies \in Nat
    /\ toServer \in SUBSET (0 .. words) /\ toClient \in SUBSET (0 .. words)
    /\ answers \in Seq(Nat \ {0})

\* The client waits for an answer to each word before it sends the next, and
\* no answer is to a later word than has been sent.
Alternate ==
    /\ Len(answers) <= words
    /\ client = "scanf" => Len(answers) = words
    /\ client = "recvfrom" => Len(answers) + 1 = words
    /\ \A k \in DOMAIN answers : answers[k] <= k

\* While nothing was repeated there is one datagram on its way at most, that of
\* the word the client waits for an answer to.
OneOnItsWay ==
    copies = 0 =>
        /\ \A k \in DOMAIN answers : answers[k] = k
        /\ client = "scanf" => toServer \cup toClient \subseteq {0}
        /\ client = "recvfrom" =>
              /\ toServer \cup toClient \subseteq {0, words}
              /\ words \notin toServer \cap toClient

\* Datagrams and answers to the same word, beyond the first, are copies.
SurplusCopied ==
    Len(answers) + Cardinality(toServer \ {0}) + Cardinality(toClient \ {0})
        <= copies + Cardinality(Known)

UdpInv == UdpTypes /\ Alternate /\ OneOnItsWay /\ SurplusCopied
-----------------------------------------------------------------------------

\* There are finitely many datagrams and words.
LEMMA UdpFinite ==
    ASSUME UdpTypes, Alternate
    PROVE  /\ Len(answers) \in Nat /\ DOMAIN answers = 1 .. Len(answers)
           /\ Answered \in SUBSET (1 .. words) /\ Known \in SUBSET (1 .. words)
           /\ IsFiniteSet(toServer \ {0}) /\ IsFiniteSet(toClient \ {0})
           /\ IsFiniteSet(Answered) /\ IsFiniteSet(Known)
           /\ Cardinality(toServer \ {0}) \in Nat /\ Cardinality(toClient \ {0}) \in Nat
           /\ Cardinality(Answered) \in Nat /\ Cardinality(Known) \in Nat
<1>1. Len(answers) \in Nat /\ DOMAIN answers = 1 .. Len(answers)
    BY LenProperties DEF UdpTypes
<1>2. Answered \in SUBSET (1 .. words)
    <2>. SUFFICES ASSUME NEW k \in DOMAIN answers PROVE answers[k] \in 1 .. words
        BY DEF Answered
    <2>1. answers[k] \in Nat \ {0}
        BY <1>1, ElementOfSeq DEF UdpTypes
    <2>2. answers[k] <= k /\ k \in 1 .. Len(answers) /\ Len(answers) <= words
        BY <1>1 DEF Alternate
    <2>. QED
        BY <1>1, <2>1, <2>2 DEF UdpTypes
<1>3. /\ Known \in SUBSET (1 .. words)
      /\ toServer \ {0} \in SUBSET (1 .. words) /\ toClient \ {0} \in SUBSET (1 .. words)
    BY <1>2 DEF Known, UdpTypes
<1>4. IsFiniteSet(1 .. words)
    BY FS_Interval DEF UdpTypes
<1>5. \A S \in SUBSET (1 .. words) : IsFiniteSet(S) /\ Cardinality(S) \in Nat
    BY <1>4, FS_Subset, FS_CardinalityType
<1>. QED
    BY <1>1, <1>2, <1>3, <1>5

\* Taking a member out of a set, or putting one in, changes its size by one at most.
LEMMA OneMore ==
    ASSUME NEW S, IsFiniteSet(S), NEW d
    PROVE  /\ Cardinality(S) \in Nat
           /\ IsFiniteSet(S \cup {d})
           /\ Cardinality(S \cup {d}) = IF d \in S THEN Cardinality(S) ELSE Cardinality(S) + 1
           /\ Cardinality(S) <= Cardinality(S \cup {d})
           /\ Cardinality(S \cup {d}) <= Cardinality(S) + 1
<1>1. Cardinality(S) \in Nat
    BY FS_CardinalityType
<1>2. /\ IsFiniteSet(S \cup {d})
      /\ Cardinality(S \cup {d}) = IF d \in S THEN Cardinality(S) ELSE Cardinality(S) + 1
    BY FS_AddElement
<1>. QED
    BY <1>1, <1>2

\* What taking an element from a finite set does to its size.
LEMMA OneLess ==
    ASSUME NEW S, IsFiniteSet(S), NEW d
    PROVE  /\ IsFiniteSet(S \ {d})
           /\ Cardinality(S \ {d}) \in Nat /\ Cardinality(S) \in Nat
           /\ Cardinality(S) = IF d \in S THEN Cardinality(S \ {d}) + 1 ELSE Cardinality(S \ {d})
           /\ Cardinality(S \ {d}) <= Cardinality(S)
           /\ Cardinality(S) <= Cardinality(S \ {d}) + 1
<1>1. Cardinality(S) \in Nat /\ IsFiniteSet(S \ {d}) /\ Cardinality(S \ {d}) \in Nat
    BY FS_CardinalityType, FS_RemoveElement
<1>2. Cardinality(S \ {d}) = IF d \in S THEN Cardinality(S) - 1 ELSE Cardinality(S)
    BY FS_RemoveElement
<1>. QED
    BY <1>1, <1>2

\* The invariant holds at the start.
LEMMA UdpBegins == Udp!Init => UdpInv
<1>. SUFFICES ASSUME Udp!Init PROVE UdpInv
    OBVIOUS
<1>0. /\ << >> \in Seq(Nat \ {0}) /\ Len(<< >>) = 0 /\ DOMAIN << >> = {}
      /\ {} \ {0} = {} /\ Cardinality({}) = 0
    BY EmptySeq, FS_EmptySet
<1>1. UdpTypes
    BY <1>0 DEF Udp!Init, UdpTypes
<1>2. Alternate /\ OneOnItsWay
    BY <1>0 DEF Udp!Init, Alternate, OneOnItsWay
<1>3. Known = {}
    BY <1>0 DEF Udp!Init, Known, Answered
<1>4. SurplusCopied
    BY <1>0, <1>3 DEF Udp!Init, SurplusCopied
<1>. QED
    BY <1>1, <1>2, <1>4 DEF UdpInv

\* A word is sent of which nothing was on its way.
LEMMA SendKeeps ==
    ASSUME UdpInv, Udp!Send
    PROVE  UdpInv'
<1>. USE DEF UdpInv
<1>. DEFINE w == words + 1
            S == toServer \ {0}
<1>0. /\ client = "scanf" /\ client' = "recvfrom" /\ words' = w
      /\ toServer' = toServer \cup {w}
      /\ UNCHANGED <<toClient, answers, copies>>
    BY DEF Udp!Send
<1>1. /\ Len(answers) \in Nat /\ Len(answers) = words /\ words \in Nat
      /\ Known \in SUBSET (1 .. words) /\ IsFiniteSet(Known) /\ IsFiniteSet(S)
      /\ DOMAIN answers = 1 .. Len(answers)
    BY <1>0, UdpFinite DEF Alternate, UdpTypes
<1>2. w \notin S /\ w \notin Known /\ toServer' \ {0} = S \cup {w} /\ w # 0
    BY <1>0, <1>1 DEF UdpTypes
<1>3. Known' = Known \cup {w}
    BY <1>0, <1>2 DEF Known, Answered
<1>4. UdpTypes'
    BY <1>0, <1>1 DEF UdpTypes
<1>5. Alternate'
    BY <1>0, <1>1 DEF Alternate
<1>6. OneOnItsWay'
    BY <1>0, <1>1 DEF OneOnItsWay, UdpTypes
<1>7. SurplusCopied'
    <2>1. /\ Cardinality(toServer' \ {0}) = Cardinality(S) + 1
          /\ Cardinality(Known') = Cardinality(Known) + 1
        BY <1>1, <1>2, <1>3, OneMore
    <2>2. /\ Cardinality(S) \in Nat /\ Cardinality(Known) \in Nat
          /\ Cardinality(toClient \ {0}) \in Nat /\ copies \in Nat
        BY UdpFinite DEF UdpTypes
    <2>. QED
        BY <1>0, <1>1, <2>1, <2>2 DEF SurplusCopied
<1>. QED
    BY <1>4, <1>5, <1>6, <1>7

\* The answer that comes leaves the network; while nothing was repeated it is
\* the only datagram there was.
LEMMA ReceiveKeeps ==
    ASSUME UdpInv, NEW d \in 1 .. MaxWords, Udp!Receive(d)
    PROVE  UdpInv'
<1>. USE DEF UdpInv
<1>. DEFINE C == toClient \ {0}
<1>0. /\ client = "recvfrom" /\ client' = "scanf" /\ d \in toClient /\ d \in Nat \ {0}
      /\ answers' = Append(answers, d) /\ toClient' = toClient \ {d}
      /\ UNCHANGED <<words, toServer, copies>>
    BY DEF Udp!Receive
<1>1. /\ Len(answers) \in Nat /\ Len(answers) + 1 = words /\ words \in Nat
      /\ DOMAIN answers = 1 .. Len(answers) /\ d <= words
      /\ answers \in Seq(Nat \ {0}) /\ IsFiniteSet(C)
    BY <1>0, UdpFinite DEF Alternate, UdpTypes
<1>2. /\ answers' \in Seq(Nat \ {0}) /\ Len(answers') = Len(answers) + 1
      /\ \A k \in 1 .. Len(answers) : answers'[k] = answers[k]
      /\ answers'[Len(answers) + 1] = d
    BY <1>0, <1>1, AppendProperties
<1>3. DOMAIN answers' = 1 .. Len(answers) + 1
    BY <1>2
<1>4. UdpTypes'
    BY <1>0, <1>2 DEF UdpTypes
<1>5. Alternate'
    <2>1. ASSUME NEW k \in DOMAIN answers' PROVE answers'[k] <= k
        <3>1. CASE k = Len(answers) + 1
            BY <3>1, <1>1, <1>2
        <3>2. CASE k \in 1 .. Len(answers)
            BY <3>2, <1>1, <1>2 DEF Alternate
        <3>. QED
            BY <3>1, <3>2, <1>1, <1>3
    <2>. QED
        BY <2>1, <1>0, <1>1, <1>2 DEF Alternate
<1>6. OneOnItsWay'
    <2>. SUFFICES ASSUME copies = 0
                  PROVE  /\ \A k \in DOMAIN answers' : answers'[k] = k
                         /\ toServer' \cup toClient' \subseteq {0}
        BY <1>0 DEF OneOnItsWay
    <2>1. d = words
        BY <1>0 DEF OneOnItsWay
    <2>2. ASSUME NEW k \in DOMAIN answers' PROVE answers'[k] = k
        <3>1. CASE k = Len(answers) + 1
            BY <3>1, <2>1, <1>1, <1>2
        <3>2. CASE k \in 1 .. Len(answers)
            BY <3>2, <1>1, <1>2 DEF OneOnItsWay
        <3>. QED
            BY <3>1, <3>2, <1>1, <1>3
    <2>3. toServer' \cup toClient' \subseteq {0}
        BY <1>0, <2>1 DEF OneOnItsWay
    <2>. QED
        BY <2>2, <2>3
<1>7. SurplusCopied'
    <2>1. Answered' = Answered \cup {d}
        <3>1. Answered' \subseteq Answered \cup {d}
            <4>. SUFFICES ASSUME NEW k \in 1 .. Len(answers) + 1
                          PROVE  answers'[k] \in Answered \cup {d}
                BY <1>3 DEF Answered
            <4>1. CASE k = Len(answers) + 1
                BY <4>1, <1>2
            <4>2. CASE k \in 1 .. Len(answers)
                BY <4>2, <1>1, <1>2 DEF Answered
            <4>. QED
                BY <4>1, <4>2, <1>1
        <3>2. Answered \subseteq Answered'
            BY <1>1, <1>2, <1>3 DEF Answered
        <3>3. d \in Answered'
            BY <1>1, <1>2, <1>3 DEF Answered
        <3>. QED
            BY <3>1, <3>2, <3>3
    <2>2. Known' = Known
        BY <2>1, <1>0 DEF Known
    <2>3. d \in C /\ toClient' \ {0} = C \ {d}
        BY <1>0
    <2>4. Cardinality(C) = Cardinality(C \ {d}) + 1 /\ Cardinality(C \ {d}) \in Nat
        BY <1>1, <2>3, OneLess
    <2>5. /\ Cardinality(toServer \ {0}) \in Nat /\ Cardinality(Known) \in Nat
          /\ copies \in Nat
        BY UdpFinite DEF UdpTypes
    <2>6. Len(answers) + Cardinality(toServer \ {0}) + Cardinality(C)
              <= copies + Cardinality(Known)
        BY DEF SurplusCopied
    <2>7. (Len(answers) + 1) + Cardinality(toServer \ {0}) + Cardinality(C \ {d})
              <= copies + Cardinality(Known)
        BY <1>1, <2>4, <2>5, <2>6
    <2>. QED
        BY <1>0, <1>2, <2>2, <2>3, <2>7 DEF SurplusCopied
<1>. QED
    BY <1>4, <1>5, <1>6, <1>7

\* A datagram that comes back is still one datagram.
LEMMA EchoKeeps ==
    ASSUME UdpInv, NEW d \in 1 .. MaxWords, Udp!Echo(d)
    PROVE  UdpInv'
<1>. USE DEF UdpInv
<1>. DEFINE S == toServer \ {0}
            C == toClient \ {0}
<1>0. /\ d \in toServer /\ d # 0
      /\ toServer' = toServer \ {d} /\ toClient' = toClient \cup {d}
      /\ UNCHANGED <<client, words, answers, copies>>
    BY DEF Udp!Echo
<1>1. UdpTypes'
    BY <1>0 DEF UdpTypes
<1>2. Alternate'
    BY <1>0 DEF Alternate
<1>3. OneOnItsWay'
    BY <1>0 DEF OneOnItsWay
<1>4. Known' = Known
    BY <1>0 DEF Known, Answered
<1>5. SurplusCopied'
    <2>1. d \in S /\ toServer' \ {0} = S \ {d} /\ toClient' \ {0} = C \cup {d}
        BY <1>0
    <2>2. /\ IsFiniteSet(S) /\ IsFiniteSet(C) /\ Cardinality(Known) \in Nat
          /\ copies \in Nat /\ Len(answers) \in Nat
        BY UdpFinite DEF UdpTypes
    <2>3. /\ Cardinality(S) = Cardinality(S \ {d}) + 1 /\ Cardinality(S \ {d}) \in Nat
        BY <2>1, <2>2, OneLess
    <2>4. /\ Cardinality(C \cup {d}) <= Cardinality(C) + 1 /\ Cardinality(C) \in Nat
          /\ Cardinality(C \cup {d}) \in Nat
        BY <2>2, OneMore, FS_CardinalityType
    <2>5. Len(answers) + Cardinality(S) + Cardinality(C) <= copies + Cardinality(Known)
        BY DEF SurplusCopied
    <2>6. Len(answers) + Cardinality(S \ {d}) + Cardinality(C \cup {d})
              <= copies + Cardinality(Known)
        BY <2>2, <2>3, <2>4, <2>5
    <2>. QED
        BY <1>0, <1>4, <2>1, <2>6 DEF SurplusCopied
<1>. QED
    BY <1>1, <1>2, <1>3, <1>5

\* A loss takes one datagram, and with it a word from the known at most.
LEMMA LoseKeeps ==
    ASSUME UdpInv, NEW d \in 1 .. MaxWords, Udp!Lose(d)
    PROVE  UdpInv'
<1>. USE DEF UdpInv
<1>. DEFINE S == toServer \ {0}
            C == toClient \ {0}
<1>0. /\ \/ d \in toServer /\ toServer' = toServer \ {d} /\ toClient' = toClient
         \/ d \in toClient /\ toClient' = toClient \ {d} /\ toServer' = toServer
      /\ UNCHANGED <<client, words, answers, copies>> /\ d # 0
    BY DEF Udp!Lose
<1>1. UdpTypes'
    BY <1>0 DEF UdpTypes
<1>2. Alternate'
    BY <1>0 DEF Alternate
<1>3. OneOnItsWay'
    BY <1>0 DEF OneOnItsWay
<1>4. Known \ {d} \in SUBSET Known' /\ Known' \in SUBSET Known
    BY <1>0 DEF Known, Answered
<1>5. /\ IsFiniteSet(S) /\ IsFiniteSet(C) /\ IsFiniteSet(Known)
      /\ Cardinality(S) \in Nat /\ Cardinality(C) \in Nat /\ Cardinality(Known) \in Nat
      /\ copies \in Nat /\ Len(answers) \in Nat
    BY UdpFinite DEF UdpTypes
<1>6. Cardinality(Known) <= Cardinality(Known') + 1 /\ Cardinality(Known') \in Nat
    <2>1. IsFiniteSet(Known') /\ Cardinality(Known') \in Nat
        BY <1>4, <1>5, FS_Subset, FS_CardinalityType
    <2>2. Cardinality(Known \ {d}) <= Cardinality(Known')
        BY <1>4, <2>1, FS_Subset
    <2>3. Cardinality(Known) <= Cardinality(Known \ {d}) + 1 /\ Cardinality(Known \ {d}) \in Nat
        BY <1>5, OneLess
    <2>. QED
        BY <1>5, <2>1, <2>2, <2>3
<1>7. Len(answers) + Cardinality(S) + Cardinality(C) <= copies + Cardinality(Known)
    BY DEF SurplusCopied
<1>8. SurplusCopied'
    <2>1. CASE d \in toServer /\ toServer' = toServer \ {d} /\ toClient' = toClient
        <3>1. d \in S /\ toServer' \ {0} = S \ {d} /\ toClient' \ {0} = C
            BY <1>0, <2>1
        <3>2. Cardinality(S) = Cardinality(S \ {d}) + 1 /\ Cardinality(S \ {d}) \in Nat
            BY <1>5, <3>1, OneLess
        <3>3. Len(answers) + Cardinality(S \ {d}) + Cardinality(C)
                  <= copies + Cardinality(Known')
            BY <1>5, <1>6, <1>7, <3>2
        <3>. QED
            BY <1>0, <3>1, <3>3 DEF SurplusCopied
    <2>2. CASE d \in toClient /\ toClient' = toClient \ {d} /\ toServer' = toServer
        <3>1. d \in C /\ toClient' \ {0} = C \ {d} /\ toServer' \ {0} = S
            BY <1>0, <2>2
        <3>2. Cardinality(C) = Cardinality(C \ {d}) + 1 /\ Cardinality(C \ {d}) \in Nat
            BY <1>5, <3>1, OneLess
        <3>3. Len(answers) + Cardinality(S) + Cardinality(C \ {d})
                  <= copies + Cardinality(Known')
            BY <1>5, <1>6, <1>7, <3>2
        <3>. QED
            BY <1>0, <3>1, <3>3 DEF SurplusCopied
    <2>. QED
        BY <1>0, <2>1, <2>2
<1>. QED
    BY <1>1, <1>2, <1>3, <1>8

\* A repetition adds one datagram at most, and is counted.
LEMMA RepeatKeeps ==
    ASSUME UdpInv, NEW d \in 1 .. MaxWords, Udp!Repeat(d)
    PROVE  UdpInv'
<1>. USE DEF UdpInv
<1>. DEFINE S == toServer \ {0}
            C == toClient \ {0}
<1>0. /\ \/ toServer' = toServer \cup {d} /\ toClient' = toClient
         \/ toClient' = toClient \cup {d} /\ toServer' = toServer
      /\ UNCHANGED <<client, words, answers>> /\ copies' = copies + 1
      /\ d \in Nat /\ d # 0 /\ d <= words
    BY DEF Udp!Repeat
<1>1. UdpTypes'
    <2>1. d \in 0 .. words /\ copies' \in Nat
        BY <1>0 DEF UdpTypes
    <2>2. toServer' \in SUBSET (0 .. words) /\ toClient' \in SUBSET (0 .. words)
        BY <2>1, <1>0 DEF UdpTypes
    <2>. QED
        BY <2>1, <2>2, <1>0 DEF UdpTypes
<1>2. Alternate'
    BY <1>0 DEF Alternate
<1>3. OneOnItsWay'
    BY <1>0 DEF OneOnItsWay, UdpTypes
<1>4. Known \in SUBSET Known' /\ Known' \in SUBSET (Known \cup {d})
    BY <1>0 DEF Known, Answered
<1>5. /\ IsFiniteSet(S) /\ IsFiniteSet(C) /\ IsFiniteSet(Known)
      /\ Cardinality(S) \in Nat /\ Cardinality(C) \in Nat /\ Cardinality(Known) \in Nat
      /\ copies \in Nat /\ Len(answers) \in Nat
    BY UdpFinite DEF UdpTypes
<1>6. Cardinality(Known) <= Cardinality(Known') /\ Cardinality(Known') \in Nat
    <2>1. IsFiniteSet(Known')
        <3>1. IsFiniteSet(Known \cup {d})
            BY <1>5, OneMore
        <3>. QED
            BY <3>1, <1>4, FS_Subset
    <2>. QED
        BY <1>4, <2>1, FS_Subset, FS_CardinalityType
<1>7. Len(answers) + Cardinality(S) + Cardinality(C) <= copies + Cardinality(Known)
    BY DEF SurplusCopied
<1>8. SurplusCopied'
    <2>1. CASE toServer' = toServer \cup {d} /\ toClient' = toClient
        <3>1. toServer' \ {0} = S \cup {d} /\ toClient' \ {0} = C
            BY <1>0, <2>1
        <3>2. Cardinality(S \cup {d}) <= Cardinality(S) + 1 /\ Cardinality(S \cup {d}) \in Nat
            BY <1>5, OneMore, FS_CardinalityType
        <3>3. Len(answers) + Cardinality(S \cup {d}) + Cardinality(C)
                  <= (copies + 1) + Cardinality(Known')
            BY <1>5, <1>6, <1>7, <3>2
        <3>. QED
            BY <1>0, <3>1, <3>3 DEF SurplusCopied
    <2>2. CASE toClient' = toClient \cup {d} /\ toServer' = toServer
        <3>1. toClient' \ {0} = C \cup {d} /\ toServer' \ {0} = S
            BY <1>0, <2>2
        <3>2. Cardinality(C \cup {d}) <= Cardinality(C) + 1 /\ Cardinality(C \cup {d}) \in Nat
            BY <1>5, OneMore, FS_CardinalityType
        <3>3. Len(answers) + Cardinality(S) + Cardinality(C \cup {d})
                  <= (copies + 1) + Cardinality(Known')
            BY <1>5, <1>6, <1>7, <3>2
        <3>. QED
            BY <1>0, <3>1, <3>3 DEF SurplusCopied
    <2>. QED
        BY <1>0, <2>1, <2>2
<1>. QED
    BY <1>1, <1>2, <1>3, <1>8

\* Empty datagrams, and the end of a program, are no answers.
LEMMA NothingSaid ==
    ASSUME UdpInv,
           toServer' \ {0} = toServer \ {0}, toClient' \ {0} = toClient \ {0},
           toServer' \in SUBSET (0 .. words), toClient' \in SUBSET (0 .. words),
           client' \in {client, "end"}, UNCHANGED <<words, answers, copies>>
    PROVE  UdpInv'
<1>. USE DEF UdpInv
<1>1. UdpTypes'
    BY DEF UdpTypes
<1>2. Alternate'
    BY DEF Alternate
<1>3. OneOnItsWay'
    <2>1. toServer' \cup toClient' \subseteq toServer \cup toClient \cup {0}
        OBVIOUS
    <2>2. client = "recvfrom" => words # 0
        BY UdpFinite DEF Alternate
    <2>3. words # 0 /\ words \notin toServer \cap toClient
              => words \notin toServer' \cap toClient'
        OBVIOUS
    <2>. QED
        BY <2>1, <2>2, <2>3 DEF OneOnItsWay
<1>4. Known' = Known
    <2>1. Known = (toServer \ {0}) \cup (toClient \ {0}) \cup (Answered \ {0})
        BY DEF Known
    <2>2. Known' = (toServer' \ {0}) \cup (toClient' \ {0}) \cup (Answered \ {0})
        BY DEF Known, Answered
    <2>. QED
        BY <2>1, <2>2
<1>5. SurplusCopied'
    BY <1>4 DEF SurplusCopied
<1>. QED
    BY <1>1, <1>2, <1>3, <1>5

\* Each step keeps the invariant.
LEMMA UdpInductive == UdpInv /\ [Udp!Next]_(Udp!vars) => UdpInv'
<1>. SUFFICES ASSUME UdpInv, [Udp!Next]_(Udp!vars) PROVE UdpInv'
    OBVIOUS
<1>0. /\ words \in Nat /\ toServer \in SUBSET (0 .. words)
      /\ toClient \in SUBSET (0 .. words)
    BY DEF UdpInv, UdpTypes
<1>1. CASE Udp!Send
    BY <1>1, SendKeeps
<1>2. CASE Udp!EndClient
    BY <1>2, <1>0, NothingSaid DEF Udp!EndClient, Udp!network
<1>3. CASE Udp!EmptyEnds
    <2>1. /\ toServer' = toServer \ {0} /\ toClient' = toClient
          /\ UNCHANGED <<client, words, answers, copies>>
        BY <1>3 DEF Udp!EmptyEnds
    <2>. QED
        BY <2>1, <1>0, NothingSaid
<1>4. CASE Udp!SendEmpty
    <2>1. /\ \/ toServer' = toServer \cup {0} /\ toClient' = toClient
             \/ toClient' = toClient \cup {0} /\ toServer' = toServer
          /\ UNCHANGED <<client, words, answers, copies>>
        BY <1>4 DEF Udp!SendEmpty
    <2>2. toServer' \in SUBSET (0 .. words) /\ toClient' \in SUBSET (0 .. words)
        <3>1. 0 \in 0 .. words
            BY <1>0
        <3>. QED
            BY <3>1, <2>1, <1>0
    <2>3. toServer' \ {0} = toServer \ {0} /\ toClient' \ {0} = toClient \ {0}
        BY <2>1
    <2>. QED
        BY <2>1, <2>2, <2>3, NothingSaid
<1>5. CASE UNCHANGED Udp!vars
    BY <1>5 DEF Udp!vars, UdpInv, UdpTypes, Alternate, OneOnItsWay, SurplusCopied,
                Known, Answered
<1>. QED
    BY <1>1, <1>2, <1>3, <1>4, <1>5, ReceiveKeeps, EchoKeeps, LoseKeeps, RepeatKeeps
    DEF Udp!Next, Udp!Client, Udp!Server

\* The copy of the operator that UdpEcho has is the same.
LEMMA SameCardinality == ASSUME NEW T PROVE Udp!Cardinality(T) = Cardinality(T)
BY Zenon DEF Udp!Cardinality, Cardinality

\* The invariant gives what is promised of the answers.
LEMMA UdpKeeps == UdpInv => Udp!AnswersInStep
<1>. SUFFICES ASSUME UdpInv PROVE Udp!AnswersInStep
    OBVIOUS
<1>. USE DEF UdpInv
<1>. DEFINE S == toServer \ {0}
            C == toClient \ {0}
            A == Answered
<1>1. /\ IsFiniteSet(S) /\ IsFiniteSet(C) /\ IsFiniteSet(A) /\ IsFiniteSet(Known)
      /\ Cardinality(S) \in Nat /\ Cardinality(C) \in Nat /\ Cardinality(A) \in Nat
      /\ Cardinality(Known) \in Nat /\ copies \in Nat /\ Len(answers) \in Nat
    BY UdpFinite DEF UdpTypes
<1>2. Known \subseteq S \cup C \cup A
    BY DEF Known
<1>. HIDE DEF S, C, A
<1>3. /\ IsFiniteSet(S \cup C) /\ Cardinality(S \cup C) \in Nat
      /\ Cardinality(S \cup C) <= Cardinality(S) + Cardinality(C)
    <2>1. IsFiniteSet(S \cup C) /\ Cardinality(S \cup C) \in Nat
        BY <1>1, FS_Union, FS_CardinalityType
    <2>2. Cardinality(S \cup C) = Cardinality(S) + Cardinality(C) - Cardinality(S \cap C)
        BY <1>1, FS_Union
    <2>3. Cardinality(S \cap C) \in Nat
        BY <1>1, FS_Intersection, FS_CardinalityType
    <2>. QED
        BY <1>1, <2>1, <2>2, <2>3
<1>4. /\ IsFiniteSet((S \cup C) \cup A) /\ Cardinality((S \cup C) \cup A) \in Nat
      /\ Cardinality((S \cup C) \cup A) <= Cardinality(S \cup C) + Cardinality(A)
    <2>1. IsFiniteSet((S \cup C) \cup A) /\ Cardinality((S \cup C) \cup A) \in Nat
        BY <1>1, <1>3, FS_Union, FS_CardinalityType
    <2>2. Cardinality((S \cup C) \cup A) =
              Cardinality(S \cup C) + Cardinality(A) - Cardinality((S \cup C) \cap A)
        BY <1>1, <1>3, FS_Union
    <2>3. Cardinality((S \cup C) \cap A) \in Nat
        BY <1>3, FS_Intersection, FS_CardinalityType
    <2>. QED
        BY <1>1, <1>3, <2>1, <2>2, <2>3
<1>5. Cardinality(Known) <= Cardinality((S \cup C) \cup A)
    BY <1>2, <1>4, FS_Subset
<1>6. Len(answers) + Cardinality(S) + Cardinality(C) <= copies + Cardinality(Known)
    BY DEF SurplusCopied, S, C
<1>7. Len(answers) - Cardinality(A) <= copies
    BY <1>1, <1>3, <1>4, <1>5, <1>6
<1>8. Len(answers) - Cardinality({answers[k] : k \in DOMAIN answers}) <= copies
    BY <1>7 DEF A, Answered
<1>9. copies = 0 => \A k \in DOMAIN answers : answers[k] = k
    BY DEF OneOnItsWay
<1>10. \A k \in DOMAIN answers : answers[k] <= k
    BY DEF Alternate
<1>. QED
    BY <1>8, <1>9, <1>10, SameCardinality DEF Udp!AnswersInStep
-----------------------------------------------------------------------------
(* Counting places in blocks *)

\* The multiples of stride below limit.
Every(stride, limit) == {k \in 0 .. limit - 1 : k % stride = 0}

\* Of n blocks of L numbers, the places o[k] and the first four of each.
OneOf(L, n, o) == {k * L + o[k] : k \in 0 .. n - 1}
FourOf(L, n) == {k * L + q : k \in 0 .. n - 1, q \in 0 .. 3}

\* The numbers in the blocks of L that begin below n.
AllOf(L, n) == {b + k : b \in Every(L, n), k \in 0 .. L - 1}

\* Multiples are in the order of what is multiplied.
LEMMA Times ==
    ASSUME NEW s \in Nat, NEW a \in Int, NEW b \in Int, a <= b
    PROVE  a * s <= b * s /\ (b + 1) * s = b * s + s
OBVIOUS

\* A number is made of its quotient and its remainder,
LEMMA Division ==
    ASSUME NEW s \in Nat, s > 0, NEW a \in Nat
    PROVE  /\ a \div s \in Nat /\ (a % s) \in 0 .. s - 1
           /\ a = (a \div s) * s + (a % s)
OBVIOUS

\* and only of them.
LEMMA Quotient ==
    ASSUME NEW s \in Nat, s > 0, NEW q \in Nat, NEW r \in 0 .. s - 1
    PROVE  ((q * s) + r) \div s = q /\ ((q * s) + r) % s = r
OBVIOUS

\* A set counted by a function.
LEMMA CountedBy ==
    ASSUME NEW n \in Nat, NEW T, NEW f \in [0 .. n - 1 -> T],
           \A a, b \in 0 .. n - 1 : f[a] = f[b] => a = b,
           \A y \in T : \E a \in 0 .. n - 1 : f[a] = y
    PROVE  IsFiniteSet(T) /\ Cardinality(T) = n
<1>1. IsFiniteSet(0 .. n - 1) /\ Cardinality(0 .. n - 1) = n
    <2>1. n - 1 \in Int /\ (0 > n - 1 <=> n = 0) /\ (n - 1) - 0 + 1 = n
        OBVIOUS
    <2>. QED BY <2>1, FS_Interval
<1>2. f \in Bijection(0 .. n - 1, T)
    BY Fun_IsBij
<1>. QED BY <1>1, <1>2, FS_Bijection DEF ExistsBijection

\* There are n numbers below n.
LEMMA CardinalityBelow == ASSUME NEW n \in Nat PROVE Cardinality(0 .. n - 1) = n
<1>1. n - 1 \in Int /\ (0 > n - 1 <=> n = 0) /\ (n - 1) - 0 + 1 = n
    OBVIOUS
<1>. QED BY <1>1, FS_Interval

\* As many of the first n numbers are divisible by s as n goes into s, or one more.
LEMMA MultiplesCount ==
    ASSUME NEW s \in Nat, s > 0, NEW n \in Nat
    PROVE  /\ IsFiniteSet(Every(s, n))
           /\ Cardinality(Every(s, n)) \in {n \div s, (n \div s) + 1}
<1>. DEFINE q == n \div s  r == n % s  c == IF r = 0 THEN q ELSE q + 1
            f == [k \in 0 .. c - 1 |-> k * s]
<1>1. q \in Nat /\ r \in 0 .. s - 1 /\ n = q * s + r
    BY Division
<1>2. c \in Nat /\ c \in {q, q + 1}
    BY <1>1
<1>. HIDE DEF q, r
<1>3. ASSUME NEW k \in 0 .. c - 1 PROVE k * s \in Every(s, n)
    <2>1. k \in Nat /\ (k * s) % s = 0 /\ k * s \in Nat
        <3>1. k \in Nat /\ 0 \in 0 .. s - 1
            BY <1>2
        <3>2. ((k * s) + 0) % s = 0 /\ k * s \in Nat
            BY <3>1, Quotient
        <3>. QED BY <3>1, <3>2
    <2>2. k * s < n
        <3>1. CASE r = 0
            <4>1. k + 1 <= q
                BY <1>1, <3>1
            <4>2. (k + 1) * s <= q * s /\ (k + 1) * s = k * s + s
                BY <1>1, <2>1, <4>1, Times
            <4>. QED BY <1>1, <2>1, <3>1, <4>2
        <3>2. CASE r # 0
            <4>1. k <= q
                BY <1>1, <3>2
            <4>2. k * s <= q * s /\ q * s \in Nat
                BY <1>1, <2>1, <4>1, Times
            <4>. QED BY <1>1, <2>1, <3>2, <4>2
        <3>. QED BY <3>1, <3>2
    <2>. QED BY <2>1, <2>2 DEF Every
<1>4. ASSUME NEW a \in 0 .. c - 1, NEW b \in 0 .. c - 1, f[a] = f[b] PROVE a = b
    <2>1. a \in Nat /\ b \in Nat /\ (a * s) + 0 = (b * s) + 0 /\ 0 \in 0 .. s - 1
        BY <1>2, <1>4
    <2>2. ((a * s) + 0) \div s = a /\ ((b * s) + 0) \div s = b
        BY <2>1, Quotient
    <2>. QED BY <2>1, <2>2
<1>5. ASSUME NEW y \in Every(s, n) PROVE \E a \in 0 .. c - 1 : f[a] = y
    <2>1. y \in Nat /\ y < n /\ y % s = 0
        BY DEF Every
    <2>. DEFINE p == y \div s
    <2>2. p \in Nat /\ y = p * s
        BY <2>1, Division
    <2>. HIDE DEF p
    <2>3. p < c
        <3>. SUFFICES ASSUME c <= p PROVE FALSE
            BY <1>2, <2>2
        <3>1. c * s <= p * s
            BY <1>2, <2>2, Times
        <3>2. n <= c * s
            <4>1. r = 0 => c = q
                OBVIOUS
            <4>2. r # 0 => c = q + 1 /\ (q + 1) * s = q * s + s
                BY <1>1, Times
            <4>3. q * s \in Nat
                BY <1>1
            <4>. QED BY <1>1, <4>1, <4>2, <4>3
        <3>3. c * s \in Nat
            BY <1>2
        <3>. QED BY <2>1, <2>2, <3>1, <3>2, <3>3
    <2>4. p \in 0 .. c - 1
        BY <1>2, <2>2, <2>3
    <2>. QED BY <2>2, <2>4
<1>6. f \in [0 .. c - 1 -> Every(s, n)]
    BY <1>3
<1>. HIDE DEF f, c
<1>7. IsFiniteSet(Every(s, n)) /\ Cardinality(Every(s, n)) = c
    BY <1>2, <1>4, <1>5, <1>6, CountedBy
<1>. QED BY <1>2, <1>7 DEF q

\* Places o[k] in consecutive blocks k of L numbers are as many as the blocks.
LEMMA OnePerBlock ==
    ASSUME NEW L \in Nat, L > 0, NEW n \in Nat, NEW o,
           \A k \in 0 .. n - 1 : o[k] \in 0 .. L - 1
    PROVE  /\ OneOf(L, n, o) \subseteq 0 .. (n * L) - 1
           /\ Cardinality(OneOf(L, n, o)) = n
<1>. DEFINE T == {k * L + o[k] : k \in 0 .. n - 1}
            f == [k \in 0 .. n - 1 |-> k * L + o[k]]
<1>1. f \in [0 .. n - 1 -> T] /\ \A y \in T : \E a \in 0 .. n - 1 : f[a] = y
    OBVIOUS
<1>2. ASSUME NEW a \in 0 .. n - 1, NEW b \in 0 .. n - 1, f[a] = f[b] PROVE a = b
    <2>1. a \in Nat /\ b \in Nat /\ o[a] \in 0 .. L - 1 /\ o[b] \in 0 .. L - 1
        OBVIOUS
    <2>2. (a * L) + o[a] = (b * L) + o[b]
        BY <1>2
    <2>3. ((a * L) + o[a]) \div L = a
        BY <2>1, Quotient
    <2>4. ((b * L) + o[b]) \div L = b
        BY <2>1, Quotient
    <2>. QED BY <2>2, <2>3, <2>4
<1>3. ASSUME NEW y \in T PROVE y \in 0 .. (n * L) - 1
    <2>1. PICK k \in 0 .. n - 1 : y = k * L + o[k]
        OBVIOUS
    <2>2. k \in Nat /\ k + 1 <= n /\ o[k] \in 0 .. L - 1 /\ k * L \in Nat /\ n * L \in Nat
        OBVIOUS
    <2>3. (k + 1) * L <= n * L /\ (k + 1) * L = k * L + L
        BY <2>2, Times
    <2>. QED BY <2>1, <2>2, <2>3
<1>. HIDE DEF f, T
<1>4. IsFiniteSet(T) /\ Cardinality(T) = n
    BY <1>1, <1>2, CountedBy
<1>. QED BY <1>3, <1>4 DEF T, OneOf

\* The first four places in each of n blocks of L numbers, if there are so many.
LEMMA FourPerBlock ==
    ASSUME NEW L \in Nat, L > 3, NEW n \in Nat
    PROVE  /\ FourOf(L, n) \subseteq 0 .. (n * L) - 1
           /\ Cardinality(FourOf(L, n)) = n * 4
<1>. DEFINE T == {k * L + q : k \in 0 .. n - 1, q \in 0 .. 3}
            f == [j \in 0 .. (n * 4) - 1 |-> (j \div 4) * L + (j % 4)]
<1>0. n * 4 \in Nat /\ n * L \in Nat
    OBVIOUS
<1>1. ASSUME NEW j \in 0 .. (n * 4) - 1
      PROVE  j \div 4 \in 0 .. n - 1 /\ j % 4 \in 0 .. 3 /\ j = (j \div 4) * 4 + (j % 4)
    OBVIOUS
<1>2. ASSUME NEW a \in 0 .. (n * 4) - 1, NEW b \in 0 .. (n * 4) - 1, f[a] = f[b] PROVE a = b
    <2>1. /\ a \div 4 \in Nat /\ b \div 4 \in Nat
          /\ (a % 4) \in 0 .. L - 1 /\ (b % 4) \in 0 .. L - 1
        BY <1>1
    <2>2. ((a \div 4) * L) + (a % 4) = ((b \div 4) * L) + (b % 4)
        BY <1>2
    <2>. DEFINE p == a \div 4  r == a % 4  q == b \div 4  u == b % 4
    <2>3. p \in Nat /\ r \in 0 .. L - 1 /\ q \in Nat /\ u \in 0 .. L - 1
          /\ (p * L) + r = (q * L) + u /\ a = p * 4 + r /\ b = q * 4 + u
        BY <1>1, <2>1, <2>2
    <2>. HIDE DEF p, r, q, u
    <2>4. ((p * L) + r) \div L = p /\ ((p * L) + r) % L = r
        BY <2>3, Quotient
    <2>5. ((q * L) + u) \div L = q /\ ((q * L) + u) % L = u
        BY <2>3, Quotient
    <2>. QED BY <2>3, <2>4, <2>5
<1>3. ASSUME NEW y \in T PROVE y \in 0 .. (n * L) - 1 /\ \E a \in 0 .. (n * 4) - 1 : f[a] = y
    <2>1. PICK k \in 0 .. n - 1, q \in 0 .. 3 : y = k * L + q
        OBVIOUS
    <2>2. k \in Nat /\ k + 1 <= n /\ k * L \in Nat
        OBVIOUS
    <2>3. (k + 1) * L <= n * L /\ (k + 1) * L = k * L + L
        BY <2>2, Times
    <2>4. y \in 0 .. (n * L) - 1
        BY <1>0, <2>1, <2>2, <2>3
    <2>5. k * 4 + q \in 0 .. (n * 4) - 1
        OBVIOUS
    <2>6. ((k * 4) + q) \div 4 = k /\ ((k * 4) + q) % 4 = q
        <3>1. k \in Nat /\ q \in 0 .. 4 - 1 /\ 4 \in Nat /\ 4 > 0
            OBVIOUS
        <3>. QED BY <3>1, Quotient
    <2>. DEFINE j == k * 4 + q
    <2>7. j \in 0 .. (n * 4) - 1 /\ j \div 4 = k /\ j % 4 = q
        BY <2>5, <2>6
    <2>. HIDE DEF j
    <2>8. f[j] = y
        BY <2>1, <2>7
    <2>. QED BY <2>4, <2>7, <2>8
<1>4. f \in [0 .. (n * 4) - 1 -> T]
    BY <1>1
<1>. HIDE DEF f, T
<1>5. IsFiniteSet(T) /\ Cardinality(T) = n * 4
    BY <1>0, <1>2, <1>3, <1>4, CountedBy
<1>. QED BY <1>3, <1>5 DEF T, FourOf

\* Whole blocks cover everything.
LEMMA WholeBlocks ==
    ASSUME NEW L \in Nat, L > 0, NEW n \in Nat
    PROVE  AllOf(L, n) \cap (0 .. n - 1) = 0 .. n - 1
<1>. SUFFICES ASSUME NEW y \in 0 .. n - 1
              PROVE  \E b \in Every(L, n), k \in 0 .. L - 1 : y = b + k
    BY DEF AllOf
<1>. DEFINE q == y \div L  r == y % L
<1>1. q \in Nat /\ r \in 0 .. L - 1 /\ y = q * L + r
    BY Division
<1>. HIDE DEF q, r
<1>2. 0 \in 0 .. L - 1 /\ q * L \in Nat
    BY <1>1
<1>3. ((q * L) + 0) % L = 0
    BY <1>1, <1>2, Quotient
<1>4. q * L \in Every(L, n)
    BY <1>1, <1>2, <1>3 DEF Every
<1>. QED BY <1>1, <1>4

-----------------------------------------------------------------------------
(* MemoryBenchmarks: the invariant *)

Ints == args.size_bytes \div 4

\* What an iteration is said to have done.
Operations ==
    CASE args.benchmark_type = "full_line"                       -> Ints
      [] args.benchmark_type \in {"one_per_line", "random_line"} -> Ints \div INTS_PER_CACHE_LINE
      [] args.benchmark_type = "false_sharing"     -> (Ints \div INTS_PER_CACHE_LINE) * 4
      [] args.benchmark_type \in {"stride", "varying_stride"} -> Ints \div args.parameter

\* cache_line_benchmark: what is known when it reports.
LinesInv ==
    /\ Ints \in Nat
    /\ args.parameter \in Nat /\ args.parameter > 0
    /\ args.benchmark_type = "random_line" =>
          shuffled \in [0 .. INTS_PER_CACHE_LINE - 1 -> 0 .. INTS_PER_CACHE_LINE - 1]
    /\ pc \in {"start", "report", "end", "unknown type"}
    /\ pc \in {"report", "end"} =>
          args.benchmark_type \in Bench!BenchmarkType /\ touched = Bench!Pattern
    /\ pc = "end" => operations = Operations

\* list_traversal: the list is in the order of the shuffle, and the nodes passed
\* are its first.
ListInv ==
    /\ Len(shuffled) \in Nat \ {0}
    /\ shuffled \in [1 .. Len(shuffled) -> 1 .. Len(shuffled)]
    /\ \A a, b \in 1 .. Len(shuffled) : shuffled[a] = shuffled[b] => a = b
    /\ pc \in {"start", "traverse", "end"}
    /\ pc # "start" =>
          /\ \A a \in 1 .. Len(shuffled) :
                next[shuffled[a]] = IF a < Len(shuffled) THEN shuffled[a + 1] ELSE 0
          /\ seen \in Seq(1 .. Len(shuffled))
          /\ Len(seen) \in 1 .. Len(shuffled)
          /\ \A a \in 1 .. Len(seen) : seen[a] = shuffled[a]
    /\ pc = "end" => Len(seen) = Len(shuffled)

\* A matrix of what rand() returns.
Matrix == [1 .. SIDE -> [1 .. SIDE -> Entry]]

\* naive: what fast() is given, and what it makes of it.
MatrixInv ==
    /\ pc \in {"start", "end"}
    /\ pc = "start" => Len(product) = 2 /\ product \in Seq(Matrix)
    /\ pc = "end" => product[3] = Bench!Fast(product[1], product[2])

\* Each benchmark keeps its own.
BenchInv ==
    /\ program = "cache_line_benchmark" => LinesInv
    /\ program = "list_traversal" => ListInv
    /\ program = "naive" => MatrixInv

\* A sequence and one thing more.
LEMMA LongerByOne ==
    ASSUME NEW S, NEW q \in Seq(S), NEW e \in S, NEW r, r = Append(q, e)
    PROVE  /\ r \in Seq(S) /\ Len(r) = Len(q) + 1
           /\ \A k \in 1 .. Len(q) : r[k] = q[k]
           /\ r[Len(q) + 1] = e
OBVIOUS

\* A function on 1 .. 2 is a sequence of two.
LEMMA PairSeq ==
    ASSUME NEW M, NEW p \in [1 .. 2 -> M]
    PROVE  p \in Seq(M) /\ Len(p) = 2
<1>1. 2 \in Nat
    OBVIOUS
<1>2. p \in Seq(M)
    BY <1>1, SeqDef
<1>. QED BY <1>1, <1>2

\* It holds at the start.
LEMMA BenchBegins == Bench!Init => BenchInv
<1>. SUFFICES ASSUME Bench!Init PROVE BenchInv
    OBVIOUS
<1>1. pc = "start"
    BY DEF Bench!Init
<1>2. ASSUME program = "cache_line_benchmark" PROVE LinesInv
    <2>1. args \in Bench!Arguments
        BY <1>2 DEF Bench!Init
    <2>2. args \in [benchmark_type : Bench!BenchmarkType \cup {"avx_line"},
                    size_bytes : {4 * e : e \in 0 .. MaxElements},
                    parameter : 1 .. MaxStride]
        BY <2>1 DEF Bench!Arguments
    <2>3. PICK e \in 0 .. MaxElements : args.size_bytes = 4 * e
        BY <2>2
    <2>4. Ints = e /\ e \in Nat
        BY <2>3, DataAssumption DEF Ints
    <2>5. args.parameter \in Nat /\ args.parameter > 0
        BY <2>2, DataAssumption
    <2>6. args.benchmark_type = "random_line" =>
             shuffled \in Bench!Permutation(0 .. INTS_PER_CACHE_LINE - 1)
        BY <1>2 DEF Bench!Init, Bench!Line
    <2>. QED BY <1>1, <2>4, <2>5, <2>6 DEF LinesInv, Bench!Permutation
<1>3. ASSUME program = "list_traversal" PROVE ListInv
    <2>1. shuffled \in UNION {Bench!Permutation(1 .. N) : N \in 1 .. MaxNodes}
        BY <1>3 DEF Bench!Init
    <2>2. PICK N \in 1 .. MaxNodes : shuffled \in Bench!Permutation(1 .. N)
        BY <2>1
    <2>3. /\ shuffled \in [1 .. N -> 1 .. N]
          /\ \A a, b \in 1 .. N : shuffled[a] = shuffled[b] => a = b
        BY <2>2 DEF Bench!Permutation
    <2>4. N \in Nat \ {0} /\ Len(shuffled) = N
        BY <2>3, DataAssumption
    <2>. HIDE DEF Bench!Permutation
    <2>. QED BY <1>1, <2>3, <2>4 DEF ListInv
<1>4. ASSUME program = "naive" PROVE MatrixInv
    <2>1. product \in [1 .. 2 -> Matrix]
        BY <1>4 DEF Bench!Init, Bench!Side, Matrix
    <2>2. product \in Seq(Matrix) /\ Len(product) = 2
        BY <2>1, PairSeq
    <2>. QED BY <1>1, <2>2 DEF MatrixInv
<1>. QED BY <1>2, <1>3, <1>4 DEF BenchInv

\* An iteration leaves the pattern behind.
LEMMA MeasureInv == BenchInv /\ Bench!Measure => BenchInv'
<1>. SUFFICES ASSUME BenchInv, Bench!Measure PROVE BenchInv'
    OBVIOUS
<1>1. LinesInv /\ pc = "start" /\ program = "cache_line_benchmark"
    BY DEF BenchInv, Bench!Measure
<1>2. UNCHANGED <<program, args, shuffled, operations, next, seen, product>>
    BY DEF Bench!Measure
<1>3. Bench!Pattern' = Bench!Pattern /\ Ints' = Ints
    BY <1>2 DEF Bench!Pattern, Ints, Bench!elements, Bench!FullLine, Bench!RandomLine,
       Bench!FalseSharing, Bench!FullLines, Bench!Every, Bench!Below, Bench!Line
<1>4. \/ /\ args.benchmark_type \in Bench!BenchmarkType
         /\ touched' = Bench!Pattern /\ pc' = "report"
      \/ pc' = "unknown type"
    BY DEF Bench!Measure
<1>5. LinesInv'
    BY <1>1, <1>2, <1>3, <1>4 DEF LinesInv
<1>. QED BY <1>1, <1>2, <1>5 DEF BenchInv

\* The report is of that pattern.
LEMMA ReportInv == BenchInv /\ Bench!Report => BenchInv'
<1>. SUFFICES ASSUME BenchInv, Bench!Report PROVE BenchInv'
    OBVIOUS
<1>1. LinesInv /\ pc = "report" /\ program = "cache_line_benchmark"
    BY DEF BenchInv, Bench!Report
<1>2. UNCHANGED <<program, args, shuffled, touched, next, seen, product>> /\ pc' = "end"
    BY DEF Bench!Report
<1>3. Bench!Pattern' = Bench!Pattern /\ Ints' = Ints
    BY <1>2 DEF Bench!Pattern, Ints, Bench!elements, Bench!FullLine, Bench!RandomLine,
       Bench!FalseSharing, Bench!FullLines, Bench!Every, Bench!Below, Bench!Line
<1>4. operations' = Operations
    BY DEF Bench!Report, Operations, Ints, Bench!elements, Bench!Line
<1>5. Operations' = Operations
    BY <1>2, <1>3 DEF Operations
<1>6. LinesInv'
    BY <1>1, <1>2, <1>3, <1>4, <1>5 DEF LinesInv
<1>. QED BY <1>1, <1>2, <1>6 DEF BenchInv

\* Each node is linked to the one after it in the order of the shuffle.
LEMMA LinkInv == BenchInv /\ Bench!Link => BenchInv'
<1>. SUFFICES ASSUME BenchInv, Bench!Link PROVE BenchInv'
    OBVIOUS
<1>. DEFINE N == Len(shuffled)
<1>1. ListInv /\ program = "list_traversal"
    BY DEF BenchInv, Bench!Link
<1>2. /\ N \in Nat \ {0} /\ shuffled \in [1 .. N -> 1 .. N]
      /\ \A a, b \in 1 .. N : shuffled[a] = shuffled[b] => a = b
    BY <1>1 DEF ListInv
<1>3. /\ program' = program /\ shuffled' = shuffled
      /\ pc' = "traverse" /\ seen' = <<shuffled[1]>>
      /\ next' = [node \in 1 .. N |->
                    LET i == CHOOSE k \in 1 .. N : shuffled[k] = node
                    IN  IF i < N THEN shuffled[i + 1] ELSE 0]
    BY DEF Bench!Link, Bench!NULL
<1>. HIDE DEF N
<1>4. ASSUME NEW a \in 1 .. N
      PROVE  next'[shuffled[a]] = IF a < N THEN shuffled[a + 1] ELSE 0
    <2>. DEFINE i == CHOOSE k \in 1 .. N : shuffled[k] = shuffled[a]
    <2>1. i \in 1 .. N /\ shuffled[i] = shuffled[a]
        OBVIOUS
    <2>2. i = a
        BY <1>2, <2>1
    <2>3. shuffled[a] \in 1 .. N
        BY <1>2
    <2>4. next'[shuffled[a]] = IF i < N THEN shuffled[i + 1] ELSE 0
        BY <1>3, <2>3
    <2>. QED BY <2>2, <2>4
<1>5. /\ seen' \in Seq(1 .. N) /\ Len(seen') = 1 /\ seen'[1] = shuffled[1]
      /\ 1 \in 1 .. N
    BY <1>2, <1>3
<1>6. N = Len(shuffled')
    BY <1>3 DEF N
<1>7. ListInv'
    BY <1>2, <1>3, <1>4, <1>5, <1>6 DEF ListInv
<1>. QED BY <1>1, <1>3, <1>7 DEF BenchInv

\* The next link leads to the next node of the shuffle.
LEMMA FollowInv == BenchInv /\ Bench!Follow => BenchInv'
<1>. SUFFICES ASSUME BenchInv, Bench!Follow PROVE BenchInv'
    OBVIOUS
<1>. DEFINE N == Len(shuffled)  l == Len(seen)
<1>1. ListInv /\ program = "list_traversal" /\ pc = "traverse"
    BY DEF BenchInv, Bench!Follow
<1>2. /\ N \in Nat \ {0} /\ shuffled \in [1 .. N -> 1 .. N]
      /\ \A a, b \in 1 .. N : shuffled[a] = shuffled[b] => a = b
      /\ \A a \in 1 .. N :
            next[shuffled[a]] = IF a < N THEN shuffled[a + 1] ELSE 0
      /\ seen \in Seq(1 .. N) /\ l \in 1 .. N
      /\ \A a \in 1 .. l : seen[a] = shuffled[a]
    BY <1>1 DEF ListInv
<1>3. program' = program /\ shuffled' = shuffled /\ next' = next
    BY DEF Bench!Follow
<1>4. Bench!Last(seen) = shuffled[l]
    BY <1>2 DEF Bench!Last
<1>5. next[Bench!Last(seen)] = IF l < N THEN shuffled[l + 1] ELSE 0
    BY <1>2, <1>4
<1>6. CASE l < N
    <2>1. l + 1 \in 1 .. N /\ shuffled[l + 1] \in 1 .. N
        BY <1>2, <1>6
    <2>2. seen' = Append(seen, shuffled[l + 1]) /\ pc' = pc
        BY <1>5, <1>6, <2>1 DEF Bench!Follow, Bench!NULL
    <2>. HIDE DEF N
    <2>3. /\ seen' \in Seq(1 .. N) /\ Len(seen') = l + 1
          /\ \A a \in 1 .. l + 1 : seen'[a] = shuffled[a]
        <3>1. /\ seen' \in Seq(1 .. N) /\ Len(seen') = l + 1
              /\ \A a \in 1 .. l : seen'[a] = seen[a]
              /\ seen'[l + 1] = shuffled[l + 1]
            BY <1>2, <2>1, <2>2, LongerByOne
        <3>. HIDE DEF l
        <3>2. l \in Nat /\ \A a \in 1 .. l + 1 : a \in 1 .. l \/ a = l + 1
            BY <1>2
        <3>. QED BY <1>2, <3>1, <3>2
    <2>4. N = Len(shuffled')
        BY <1>3 DEF N
    <2>5. ListInv'
        BY <1>1, <1>2, <1>3, <2>1, <2>2, <2>3, <2>4 DEF ListInv
    <2>. QED BY <1>1, <1>3, <2>5 DEF BenchInv
<1>7. CASE l = N
    <2>1. seen' = seen /\ pc' = "end"
        BY <1>5, <1>7 DEF Bench!Follow, Bench!NULL
    <2>2. ListInv'
        BY <1>2, <1>3, <1>7, <2>1 DEF ListInv
    <2>. QED BY <1>1, <1>3, <2>2 DEF BenchInv
<1>. QED BY <1>2, <1>6, <1>7

\* The product is put behind the factors.
LEMMA MultiplyInv == BenchInv /\ Bench!Multiply => BenchInv'
<1>. SUFFICES ASSUME BenchInv, Bench!Multiply PROVE BenchInv'
    OBVIOUS
<1>1. MatrixInv /\ program = "naive" /\ pc = "start"
    BY DEF BenchInv, Bench!Multiply
<1>. DEFINE M == Matrix
            third == Bench!Fast(product[1], product[2])
<1>2. Len(product) = 2 /\ product \in Seq(M)
    BY <1>1 DEF MatrixInv
<1>3. product' = Append(product, third) /\ pc' = "end" /\ program' = program
    BY DEF Bench!Multiply
<1>. HIDE DEF M, third
<1>4. product'[1] = product[1] /\ product'[2] = product[2] /\ product'[3] = third
    <2>. DEFINE W == M \cup {third}
    <2>1. product \in Seq(W) /\ third \in W
        BY <1>2
    <2>. HIDE DEF W
    <2>2. \A a \in 1 .. 2 : product'[a] = product[a]
        BY <1>2, <1>3, <2>1, LongerByOne
    <2>3. product'[3] = third
        BY <1>2, <1>3, <2>1, LongerByOne
    <2>. QED BY <2>2, <2>3
<1>5. Bench!Fast(product'[1], product'[2]) = third
    BY <1>4 DEF third
<1>6. MatrixInv'
    BY <1>3, <1>4, <1>5 DEF MatrixInv, Bench!Fast
<1>. QED BY <1>1, <1>3, <1>6 DEF BenchInv

\* Each step keeps the invariant.
LEMMA BenchInductive == BenchInv /\ [Bench!Next]_(Bench!vars) => BenchInv'
<1>. SUFFICES ASSUME BenchInv, [Bench!Next]_(Bench!vars) PROVE BenchInv'
    OBVIOUS
<1>1. CASE UNCHANGED Bench!vars
    <2>1. UNCHANGED <<program, pc, args, shuffled, touched, operations, next, seen, product>>
        BY <1>1 DEF Bench!vars
    <2>2. Bench!Pattern' = Bench!Pattern /\ Ints' = Ints
        BY <2>1 DEF Bench!Pattern, Ints, Bench!elements, Bench!FullLine, Bench!RandomLine,
           Bench!FalseSharing, Bench!FullLines, Bench!Every, Bench!Below, Bench!Line
    <2>3. Operations' = Operations
        BY <2>1, <2>2 DEF Operations
    <2>4. LinesInv => LinesInv'
        BY <2>1, <2>2, <2>3 DEF LinesInv
    <2>5. ListInv => ListInv'
        BY <2>1 DEF ListInv
    <2>6. MatrixInv => MatrixInv'
        BY <2>1 DEF MatrixInv
    <2>. QED BY <2>1, <2>4, <2>5, <2>6 DEF BenchInv
<1>. QED
    BY <1>1, MeasureInv, ReportInv, LinkInv, FollowInv, MultiplyInv DEF Bench!Next

-----------------------------------------------------------------------------
(* MemoryBenchmarks: what the invariant gives *)

\* The instance's notion of cardinality is that of FiniteSets.
LEMMA SameBenchCardinality == ASSUME NEW T PROVE Bench!Cardinality(T) = Cardinality(T)
BY Zenon DEF Bench!Cardinality, Cardinality

\* And its multiples are those counted above.
LEMMA SameEvery ==
    ASSUME NEW s, NEW n PROVE Bench!Every(s, n) = Every(s, n)
BY DEF Bench!Every, Bench!Below, Every

\* What each pattern touches is in the array, and as much of it as is reported.
LEMMA PatternSound ==
    ASSUME LinesInv, args.benchmark_type \in Bench!BenchmarkType \ {"stride"}
    PROVE  /\ Bench!Pattern \subseteq 0 .. Ints - 1
           /\ \/ Cardinality(Bench!Pattern) = Operations
              \/ /\ args.benchmark_type \in {"one_per_line", "varying_stride"}
                 /\ Cardinality(Bench!Pattern) = Operations + 1
<1>. DEFINE L == INTS_PER_CACHE_LINE  n == Ints \div L
<1>1. L \in Nat /\ L > 3 /\ L > 0 /\ Ints \in Nat
    <2>1. L \in Nat /\ L > 3
        BY DataAssumption
    <2>2. Ints \in Nat
        BY DEF LinesInv
    <2>. QED BY <2>1, <2>2
<1>2. n \in Nat /\ n * L <= Ints /\ n * L \in Nat
    <2>1. n \in Nat /\ (Ints % L) \in 0 .. L - 1 /\ Ints = n * L + (Ints % L)
        BY <1>1, Division
    <2>. HIDE DEF n
    <2>2. n * L \in Nat
        BY <1>1, <2>1
    <2>. QED BY <1>1, <2>1, <2>2
<1>3. Bench!elements = Ints /\ Bench!Line = L /\ Bench!FullLines = 0 .. n - 1
      /\ Bench!Below(Ints) = 0 .. Ints - 1
    BY DEF Bench!elements, Bench!Line, Bench!FullLines, Bench!Below, Ints
<1>. HIDE DEF n, L
<1>4. CASE args.benchmark_type \in {"one_per_line", "varying_stride"}
    <2>. DEFINE s == IF args.benchmark_type = "one_per_line" THEN L ELSE args.parameter
    <2>1. s \in Nat /\ s > 0
        BY <1>1 DEF LinesInv
    <2>2. Bench!Pattern = Every(s, Ints) /\ Operations = Ints \div s
        BY <1>3, <1>4, SameEvery DEF Bench!Pattern, Operations, L
    <2>. HIDE DEF s
    <2>3. Cardinality(Every(s, Ints)) \in {Ints \div s, (Ints \div s) + 1}
        BY <1>1, <2>1, MultiplesCount
    <2>. QED BY <1>4, <2>2, <2>3 DEF Every
<1>5. CASE args.benchmark_type = "full_line"
    <2>1. Bench!Pattern = AllOf(L, Ints) \cap (0 .. Ints - 1)
        BY <1>3, <1>5, SameEvery DEF Bench!Pattern, Bench!FullLine, Bench!Below, AllOf
    <2>2. Bench!Pattern = 0 .. Ints - 1
        BY <1>1, <2>1, WholeBlocks
    <2>3. Cardinality(0 .. Ints - 1) = Ints
        BY <1>1, CardinalityBelow
    <2>. QED BY <1>5, <2>2, <2>3 DEF Operations
<1>6. CASE args.benchmark_type = "random_line"
    <2>. DEFINE o == [k \in 0 .. n - 1 |-> shuffled[k % L]]
                T == OneOf(L, n, o)
    <2>1. ASSUME NEW k \in 0 .. n - 1 PROVE o[k] \in 0 .. L - 1
        <3>1. (k % L) \in 0 .. L - 1
            BY <1>1, Division
        <3>. QED BY <1>6, <3>1 DEF LinesInv, L
    <2>2. Bench!Pattern = T \cap (0 .. Ints - 1)
        BY <1>3, <1>6 DEF Bench!Pattern, Bench!RandomLine, L, OneOf
    <2>. HIDE DEF o
    <2>3. T \subseteq 0 .. (n * L) - 1 /\ Cardinality(T) = n
        BY <1>1, <1>2, <2>1, OnePerBlock
    <2>. HIDE DEF T
    <2>4. Bench!Pattern = T
        <3>1. 0 .. (n * L) - 1 \subseteq 0 .. Ints - 1
            BY <1>1, <1>2
        <3>. QED BY <2>2, <2>3, <3>1
    <2>5. Operations = n
        BY <1>6 DEF Operations, n, L
    <2>. QED BY <2>2, <2>3, <2>4, <2>5
<1>7. CASE args.benchmark_type = "false_sharing"
    <2>. DEFINE T == FourOf(L, n)
    <2>1. Bench!Pattern = T \cap (0 .. Ints - 1)
        BY <1>3, <1>7 DEF Bench!Pattern, Bench!FalseSharing, FourOf
    <2>2. T \subseteq 0 .. (n * L) - 1 /\ Cardinality(T) = n * 4
        BY <1>1, <1>2, FourPerBlock
    <2>. HIDE DEF T
    <2>3. Bench!Pattern = T
        <3>1. 0 .. (n * L) - 1 \subseteq 0 .. Ints - 1
            BY <1>1, <1>2
        <3>. QED BY <2>1, <2>2, <3>1
    <2>4. Operations = n * 4
        BY <1>7 DEF Operations, n, L
    <2>. QED BY <2>1, <2>2, <2>3, <2>4
<1>. QED BY <1>4, <1>5, <1>6, <1>7 DEF Bench!BenchmarkType

\* A pass over the list sees every node.
LEMMA EveryNode ==
    ASSUME ListInv, pc = "end"
    PROVE  Len(seen) = Len(shuffled) /\ Bench!ToSet(seen) = DOMAIN shuffled
<1>. DEFINE N == Len(shuffled)  S == 1 .. N
<1>1. /\ N \in Nat /\ shuffled \in [S -> S] /\ Len(seen) = N
      /\ \A a, b \in S : shuffled[a] = shuffled[b] => a = b
      /\ seen \in Seq(S)
      /\ \A a \in S : seen[a] = shuffled[a]
    BY DEF ListInv
<1>2. IsFiniteSet(S)
    BY <1>1, FS_Interval
<1>. HIDE DEF S
<1>3. shuffled \in Injection(S, S)
    BY <1>1, Fun_IsInj
<1>4. shuffled \in Surjection(S, S)
    BY <1>2, <1>3, FS_Injection
<1>5. \A y \in S : \E a \in S : shuffled[a] = y
    BY <1>4 DEF Surjection
<1>6. DOMAIN seen = S
    BY <1>1 DEF S
<1>7. Bench!ToSet(seen) = {seen[a] : a \in S}
    BY <1>6 DEF Bench!ToSet
<1>8. {seen[a] : a \in S} = S
    <2>1. \A a \in S : seen[a] = shuffled[a] /\ shuffled[a] \in S
        BY <1>1
    <2>2. \A y \in S : \E a \in S : seen[a] = y
        BY <1>5, <2>1
    <2>. QED BY <2>1, <2>2
<1>. QED BY <1>1, <1>7, <1>8

\* A row of the transposed matrix is a column of the other.
LEMMA FastIsNaive == ASSUME NEW a, NEW b PROVE Bench!Fast(a, b) = Bench!Naive(a, b)
<1>. DEFINE t == [i \in Bench!Side |-> [j \in Bench!Side |-> b[j][i]]]
            Column(j) == [k \in Bench!Side |-> b[k][j]]
<1>1. ASSUME NEW j \in Bench!Side PROVE t[j] = Column(j)
    OBVIOUS
<1>2. Bench!Fast(a, b) =
        [i \in Bench!Side |-> [j \in Bench!Side |-> Bench!Added(a[i], t[j])]]
    BY DEF Bench!Fast
<1>3. Bench!Naive(a, b) =
        [i \in Bench!Side |-> [j \in Bench!Side |-> Bench!Added(a[i], Column(j))]]
    BY DEF Bench!Naive
<1>. HIDE DEF t, Column
<1>4. \A i, j \in Bench!Side : Bench!Added(a[i], t[j]) = Bench!Added(a[i], Column(j))
    BY <1>1
<1>. QED BY <1>2, <1>3, <1>4

\* The invariant gives what is promised of the benchmarks.
LEMMA BenchKeeps == BenchInv /\ Measuring => Bench!BenchmarksSound
<1>. SUFFICES ASSUME BenchInv, Measuring PROVE Bench!BenchmarksSound
    OBVIOUS
<1>1. ASSUME pc \in {"report", "end"}, program = "cache_line_benchmark",
             args.benchmark_type # "stride"
      PROVE  touched \subseteq Bench!Below(Bench!elements)
    <2>1. LinesInv /\ args.benchmark_type \in Bench!BenchmarkType \ {"stride"}
          /\ touched = Bench!Pattern
        BY <1>1 DEF BenchInv, LinesInv
    <2>. QED BY <2>1, PatternSound DEF Bench!Below, Bench!elements, Ints
<1>2. ASSUME pc = "end", program = "cache_line_benchmark", args.benchmark_type # "stride"
      PROVE  \/ Bench!Cardinality(touched) = operations
             \/ /\ args.benchmark_type \in {"one_per_line", "varying_stride"}
                /\ Bench!Cardinality(touched) = operations + 1
    <2>1. LinesInv /\ args.benchmark_type \in Bench!BenchmarkType \ {"stride"}
          /\ touched = Bench!Pattern /\ operations = Operations
        BY <1>2 DEF BenchInv, LinesInv
    <2>. QED BY <2>1, PatternSound, SameBenchCardinality
<1>3. ASSUME pc = "end", program = "list_traversal"
      PROVE  Len(seen) = Len(shuffled) /\ Bench!ToSet(seen) = DOMAIN shuffled
    BY <1>3, EveryNode DEF BenchInv
<1>4. ASSUME pc = "end", program = "naive"
      PROVE  product[3] = Bench!Naive(product[1], product[2])
    BY <1>4, FastIsNaive DEF BenchInv, MatrixInv
<1>5. program \in {"cache_line_benchmark", "list_traversal", "naive"}
    BY DataAssumption DEF Measuring
<1>. QED BY <1>1, <1>2, <1>3, <1>4, <1>5 DEF Bench!BenchmarksSound
-----------------------------------------------------------------------------
(* Values along a path *)

\* f leads from data along the first m names of p.
Leads(f, data, p, m) ==
    f = [k \in 0 .. m |-> IF k = 0 THEN data ELSE f[k - 1].items[p[k]]]

\* The first m names of p and q are the same.
SameNames(p, q, m) == \A k \in 1 .. m : q[k] = p[k]

\* A set of numbers has a least one.
LEMMA LeastNumber ==
    ASSUME NEW S, S \subseteq Nat, S # {}
    PROVE  \E k \in S : \A d \in S : k <= d
<1>. DEFINE Less == OpToRel(<, Nat)
<1>1. IsWellFoundedOn(Less, Nat)
    BY NatLessThanWellFounded, Zenon
<1>2. \E k \in S : \A d \in S : ~ (<<d, k>> \in Less)
    BY <1>1, WFMin, Zenon
<1>3. Less = {d \in Nat \X Nat : d[1] < d[2]}
    BY DEF OpToRel
<1>. HIDE DEF Less
<1>4. PICK k \in S : \A d \in S : ~ (<<d, k>> \in Less)
    BY <1>2
<1>5. \A d \in S : d < k => <<d, k>> \in Less
    BY <1>3
<1>6. ASSUME NEW d \in S PROVE k <= d
    <2>1. ~(d < k) /\ d \in Nat /\ k \in Nat
        BY <1>4, <1>5
    <2>. QED BY <2>1
<1>. QED BY <1>6

\* There is exactly one such function.
LEMMA SomeLeads ==
    ASSUME NEW data, NEW p, NEW m \in Nat
    PROVE  \E f : Leads(f, data, p, m)
<1>. DEFINE Q(k) == \E f : Leads(f, data, p, k)
            S == {k \in Nat : ~Q(k)}
<1>1. Q(0)
    <2>. DEFINE f == [k \in 0 .. 0 |-> data]
    <2>1. \A k \in 0 .. 0 : k = 0
        OBVIOUS
    <2>2. f = [k \in 0 .. 0 |-> IF k = 0 THEN data ELSE f[k - 1].items[p[k]]]
        BY <2>1
    <2>. QED BY <2>2 DEF Leads
<1>2. ASSUME NEW k \in Nat, Q(k) PROVE Q(k + 1)
    <2>1. PICK f : Leads(f, data, p, k)
        BY <1>2
    <2>2. f = [d \in 0 .. k |-> IF d = 0 THEN data ELSE f[d - 1].items[p[d]]]
        BY <2>1 DEF Leads
    <2>. DEFINE g == [d \in 0 .. k + 1 |-> IF d = 0 THEN data ELSE f[d - 1].items[p[d]]]
    <2>3. ASSUME NEW d \in 0 .. k PROVE g[d] = f[d]
        BY <2>2
    <2>4. ASSUME NEW d \in 0 .. k + 1, d # 0 PROVE g[d - 1] = f[d - 1]
        <3>1. d - 1 \in 0 .. k
            BY <2>4
        <3>. QED BY <2>3, <3>1
    <2>5. g = [d \in 0 .. k + 1 |-> IF d = 0 THEN data ELSE g[d - 1].items[p[d]]]
        BY <2>4
    <2>. QED BY <2>5 DEF Leads
<1>. HIDE DEF Q
<1>3. S = {}
    <2>. SUFFICES ASSUME S # {} PROVE FALSE
        OBVIOUS
    <2>1. PICK k \in S : \A d \in S : k <= d
        BY LeastNumber
    <2>2. k \in Nat /\ k # 0 /\ ~Q(k)
        BY <1>1
    <2>3. k - 1 \in Nat /\ ~(k <= k - 1) /\ (k - 1) + 1 = k
        BY <2>2
    <2>4. Q(k - 1)
        BY <2>1, <2>3
    <2>. QED BY <1>2, <2>2, <2>3, <2>4
<1>4. Q(m)
    BY <1>3
<1>. QED BY <1>4 DEF Q

\* Paths that begin alike lead to the same values.
LEMMA OneLeads ==
    ASSUME NEW data, NEW p, NEW q, NEW m \in Nat, NEW n \in Nat, m <= n,
           SameNames(p, q, m),
           NEW f, NEW g, Leads(f, data, p, m), Leads(g, data, q, n)
    PROVE  f[m] = g[m]
<1>. DEFINE S == {k \in 0 .. m : f[k] # g[k]}
<1>1. \A k \in 0 .. m : f[k] = IF k = 0 THEN data ELSE f[k - 1].items[p[k]]
    BY DEF Leads
<1>2. \A k \in 0 .. n : g[k] = IF k = 0 THEN data ELSE g[k - 1].items[q[k]]
    BY DEF Leads
<1>. SUFFICES ASSUME S # {} PROVE FALSE
    OBVIOUS
<1>3. S \subseteq Nat
    OBVIOUS
<1>4. PICK k \in S : \A d \in S : k <= d
    BY <1>3, LeastNumber
<1>5. k \in 0 .. m /\ k \in 0 .. n /\ f[k] # g[k]
    OBVIOUS
<1>6. k # 0
    BY <1>1, <1>2, <1>5
<1>7. k - 1 \in 0 .. m /\ ~(k <= k - 1) /\ k \in 1 .. m
    BY <1>5, <1>6
<1>8. f[k - 1] = g[k - 1]
    BY <1>4, <1>7
<1>9. f[k] = f[k - 1].items[p[k]] /\ g[k] = g[k - 1].items[p[k]]
    <2>1. q[k] = p[k]
        BY <1>7 DEF SameNames
    <2>. QED BY <1>1, <1>2, <1>5, <1>6, <2>1
<1>. QED BY <1>5, <1>8, <1>9

\* A finite set as a sequence.
Arranged(S) ==
    CHOOSE f \in [1 .. Cardinality(S) -> S] : \A a, b \in DOMAIN f : f[a] = f[b] => a = b

\* The sequence s is of members of S and holds all of them.
HoldsAll(s, S) ==
    s \in Seq(S) /\ \A y \in S : \E k \in 1 .. Len(s) : s[k] = y

\* It holds all of the set.
LEMMA AllInSequence ==
    ASSUME NEW S, IsFiniteSet(S)
    PROVE  HoldsAll(Arranged(S), S)
<1>. DEFINE n == Cardinality(S)  s == Arranged(S)
<1>1. n \in Nat
    BY FS_CardinalityType
<1>2. ExistsBijection(1 .. n, S)
    BY FS_CardinalityType
<1>3. PICK g : g \in Bijection(1 .. n, S)
    BY <1>2 DEF ExistsBijection
<1>4. g \in [1 .. n -> S] /\ \A a, b \in 1 .. n : g[a] = g[b] => a = b
    BY <1>3, Fun_IsInj DEF Bijection, Injection, IsInjective
<1>5. s \in [1 .. n -> S] /\ \A a, b \in 1 .. n : s[a] = s[b] => a = b
    <2>. DEFINE P(f) == f \in [1 .. n -> S] /\ \A a, b \in DOMAIN f : f[a] = f[b] => a = b
    <2>1. P(g)
        BY <1>4
    <2>2. P(s)
        BY <2>1 DEF Arranged
    <2>. QED BY <2>2
<1>. HIDE DEF s
<1>6. s \in Injection(1 .. n, S)
    BY <1>5, Fun_IsInj
<1>7. IsFiniteSet(1 .. n) /\ Cardinality(1 .. n) = n
    BY <1>1, FS_Interval
<1>8. s \in Surjection(1 .. n, S)
    BY <1>6, <1>7, FS_Injection
<1>9. \A y \in S : \E k \in 1 .. n : s[k] = y
    BY <1>8 DEF Surjection
<1>10. s \in Seq(S) /\ Len(s) = n
    BY <1>1, <1>5
<1>11. HoldsAll(s, S)
    BY <1>9, <1>10 DEF HoldsAll
<1>. QED BY <1>11 DEF s

\* What is in r is what is in s, or in t behind its first.
MadeOf(r, s, t) ==
    /\ \A k \in 1 .. Len(r) : \/ \E d \in 1 .. Len(s) : r[k] = s[d]
                              \/ \E d \in 2 .. Len(t) : r[k] = t[d]
    /\ \A d \in 1 .. Len(s) : \E k \in 1 .. Len(r) : r[k] = s[d]
    /\ \A d \in 2 .. Len(t) : \E k \in 1 .. Len(r) : r[k] = t[d]

\* So it is where s takes the place of the first.
LEMMA InFront ==
    ASSUME NEW T, NEW t \in Seq(T), t # << >>, NEW s \in Seq(T),
           NEW r, r = s \o Tail(t)
    PROVE  r \in Seq(T) /\ MadeOf(r, s, t)
<1>. DEFINE l == Len(s)  u == Tail(t)  m == Len(u)
<1>1. /\ u \in Seq(T) /\ Len(t) = m + 1 /\ m \in Nat /\ l \in Nat
      /\ \A k \in 1 .. m : u[k] = t[k + 1]
    OBVIOUS
<1>2. /\ r \in Seq(T) /\ Len(r) = l + m
      /\ \A k \in 1 .. l + m : r[k] = IF k <= l THEN s[k] ELSE u[k - l]
    BY <1>1, ConcatProperties
<1>. HIDE DEF l, u, m
<1>3. ASSUME NEW k \in 1 .. Len(r)
      PROVE  \/ \E d \in 1 .. l : r[k] = s[d]
             \/ \E d \in 2 .. m + 1 : r[k] = t[d]
    <2>1. CASE k <= l
        BY <1>1, <1>2, <2>1
    <2>2. CASE k > l
        <3>1. k - l \in 1 .. m /\ (k - l) + 1 \in 2 .. m + 1
            BY <1>1, <1>2, <2>2
        <3>2. r[k] = t[(k - l) + 1]
            BY <1>1, <1>2, <2>2, <3>1
        <3>. QED BY <3>1, <3>2
    <2>. QED BY <1>1, <1>2, <2>1, <2>2
<1>4. ASSUME NEW d \in 1 .. l PROVE \E k \in 1 .. Len(r) : r[k] = s[d]
    BY <1>1, <1>2
<1>5. ASSUME NEW d \in 2 .. m + 1 PROVE \E k \in 1 .. Len(r) : r[k] = t[d]
    <2>1. /\ d - 1 \in 1 .. m /\ (d - 1) + 1 = d /\ l + (d - 1) \in 1 .. l + m
          /\ ~(l + (d - 1) <= l) /\ (l + (d - 1)) - l = d - 1
        BY <1>1
    <2>2. r[l + (d - 1)] = t[d]
        BY <1>1, <1>2, <2>1
    <2>. QED BY <1>2, <2>1, <2>2
<1>. QED BY <1>1, <1>2, <1>3, <1>4, <1>5 DEF l, MadeOf

-----------------------------------------------------------------------------
(* JsonFs: the values along a path *)

\* The value at a path is the last of those that lead to it.
LEMMA ValueWalk ==
    ASSUME NEW p, Len(p) \in Nat
    PROVE  \E f : Leads(f, json_data, p, Len(p)) /\ Tree!ValueAt(p) = f[Len(p)]
<1>. DEFINE P(f) == f = [k \in 0 .. Len(p) |->
                            IF k = 0 THEN json_data ELSE f[k - 1].items[p[k]]]
<1>1. \E f : P(f)
    <2>1. PICK f : Leads(f, json_data, p, Len(p))
        BY SomeLeads
    <2>2. P(f)
        BY <2>1 DEF Leads
    <2>. QED BY <2>2
<1>2. P(CHOOSE f : P(f))
    BY <1>1, Zenon
<1>3. Tree!ValueAt(p) = (CHOOSE f : P(f))[Len(p)]
    BY DEF Tree!ValueAt
<1>. QED BY <1>2, <1>3 DEF Leads

\* The empty path leads to the whole file.
LEMMA ValueAtRoot == Tree!ValueAt(<< >>) = json_data
<1>1. PICK f : Leads(f, json_data, << >>, 0) /\ Tree!ValueAt(<< >>) = f[0]
    BY ValueWalk
<1>. QED BY <1>1 DEF Leads

\* One name more leads to the item of that name.
LEMMA ValueBelow ==
    ASSUME NEW S, NEW p \in Seq(S), NEW name \in S
    PROVE  Tree!ValueAt(Append(p, name)) = Tree!ValueAt(p).items[name]
<1>. DEFINE l == Len(p)  q == Append(p, name)
<1>1. l \in Nat /\ Len(q) = l + 1 /\ q[l + 1] = name /\ \A k \in 1 .. l : q[k] = p[k]
    OBVIOUS
<1>. HIDE DEF l, q
<1>2. PICK f : Leads(f, json_data, p, l) /\ Tree!ValueAt(p) = f[l]
    BY <1>1, ValueWalk DEF l
<1>3. PICK g : Leads(g, json_data, q, l + 1) /\ Tree!ValueAt(q) = g[l + 1]
    BY <1>1, ValueWalk
<1>4. f[l] = g[l]
    <2>1. l + 1 \in Nat /\ l <= l + 1 /\ SameNames(p, q, l)
        BY <1>1 DEF SameNames
    <2>. QED BY <1>1, <1>2, <1>3, <2>1, OneLeads
<1>5. g[l + 1] = g[l].items[name]
    <2>1. l + 1 \in 0 .. l + 1 /\ l + 1 # 0 /\ (l + 1) - 1 = l
        BY <1>1
    <2>2. g[l + 1] = g[(l + 1) - 1].items[q[l + 1]]
        BY <1>3, <2>1 DEF Leads
    <2>. QED BY <1>1, <2>1, <2>2
<1>. QED BY <1>1, <1>2, <1>3, <1>4, <1>5 DEF q

-----------------------------------------------------------------------------
(* JsonFs: the invariant *)

\* The names of the tree, and the values it is built from.
Name  == Key \cup {"0", "1"}
Flat  == Tree!Scalar \cup Tree!Container({[kind |-> "scalar", size |-> MaxSize]})
Value == Flat \cup Tree!Container(Flat)

\* The pairs of a path and its value.
Call == Seq(Name) \X Value

\* _build_tree() is still to be called for the path.
Waiting(p) == \E k \in 1 .. Len(todo) : todo[k][1] = p

\* Its names are listed and can be found.
Listed(p) ==
    /\ dirs[p] = Tree!Names(Tree!ValueAt(p))
    /\ \A name \in dirs[p] : Append(p, name) \in DOMAIN files \cup DOMAIN dirs

\* What the variables hold: calls to come, paths, a place in a file.
TreeTypes ==
    /\ json_data \in Value
    /\ todo \in Seq(Call)
    /\ DOMAIN dirs \subseteq Seq(Name) /\ DOMAIN files \subseteq Seq(Name)
    /\ offset \in Nat

\* Each call is for a directory and is given the value of its path.
CallsRight ==
    \A k \in 1 .. Len(todo) :
        /\ todo[k][1] \in DOMAIN dirs
        /\ todo[k][2] = Tree!ValueAt(todo[k][1])

\* Each file is of a scalar and of its size.
FilesRight ==
    \A p \in DOMAIN files :
        /\ Tree!ValueAt(p) \in Value /\ Tree!IsScalar(Tree!ValueAt(p))
        /\ files[p] = Tree!ValueAt(p).size

\* Each directory is of a container, and is still to be listed or is listed.
DirsRight ==
    \A p \in DOMAIN dirs :
        /\ Tree!ValueAt(p) \in Value /\ ~Tree!IsScalar(Tree!ValueAt(p))
        /\ Waiting(p) \/ Listed(p)

\* A JSON file of one scalar makes no files, and an empty root.
OnlyScalar ==
    todo = << >> /\ DOMAIN files = {} /\ \A p \in DOMAIN dirs : dirs[p] = {}

\* The user is inside the file it reads, and at its end if nothing came.
ReadSoFar ==
    /\ path \in DOMAIN files =>
          offset <= files[path] /\ (whole => offset = files[path])
    /\ path \notin DOMAIN files \/ todo # << >> => offset = 0 /\ ~whole

\* The tree so far, while it is built and while it is read.
TreeInv ==
    /\ TreeTypes /\ FilesRight /\ ReadSoFar
    /\ IF Tree!IsScalar(json_data) THEN OnlyScalar ELSE CallsRight /\ DirsRight

\* A value is a scalar or has finitely many names and values.
LEMMA ValueItems ==
    ASSUME NEW v \in Value
    PROVE  /\ Tree!IsScalar(v) => v.size \in Nat
           /\ ~Tree!IsScalar(v) =>
                 /\ Tree!Names(v) \subseteq Name /\ IsFiniteSet(Tree!Names(v))
                 /\ \A name \in Tree!Names(v) : v.items[name] \in Value
<1>1. CASE v \in Tree!Scalar
    BY <1>1, DataAssumption DEF Tree!Scalar, Tree!IsScalar
<1>2. ASSUME NEW W, W \subseteq Value, v \in Tree!Container(W)
      PROVE  /\ ~Tree!IsScalar(v)
             /\ Tree!Names(v) \subseteq Name /\ IsFiniteSet(Tree!Names(v))
             /\ \A name \in Tree!Names(v) : v.items[name] \in Value
    <2>1. PICK K, f :
             /\ f \in [K -> W]
             /\ K \in SUBSET Key \/ K \in {{}, {"0"}, {"0", "1"}}
             /\ v = [kind |-> "object", items |-> f] \/ v = [kind |-> "list", items |-> f]
        BY <1>2 DEF Tree!Container
    <2>2. v.items = f /\ Tree!Names(v) = K /\ ~Tree!IsScalar(v)
        BY <2>1 DEF Tree!Names, Tree!IsScalar
    <2>3. K \subseteq Name
        BY <2>1 DEF Name
    <2>4. IsFiniteSet(K)
        <3>1. IsFiniteSet(Key)
            BY DataAssumption
        <3>2. K \in SUBSET Key => IsFiniteSet(K)
            BY <3>1, FS_Subset
        <3>3. IsFiniteSet({}) /\ IsFiniteSet({"0"}) /\ IsFiniteSet({"0", "1"})
            <4>1. IsFiniteSet({}) /\ IsFiniteSet({"0"})
                BY FS_EmptySet, FS_Singleton
            <4>2. {"0", "1"} = {"0"} \cup {"1"}
                OBVIOUS
            <4>. QED BY <4>1, <4>2, FS_AddElement
        <3>. QED BY <2>1, <3>2, <3>3
    <2>. QED BY <1>2, <2>1, <2>2, <2>3, <2>4
<1>3. /\ {[kind |-> "scalar", size |-> MaxSize]} \subseteq Tree!Scalar
    BY DataAssumption DEF Tree!Scalar
<1>4. Tree!Scalar \subseteq Value /\ Flat \subseteq Value
      /\ {[kind |-> "scalar", size |-> MaxSize]} \subseteq Value
    BY <1>3 DEF Value, Flat
<1>5. CASE v \in Tree!Container({[kind |-> "scalar", size |-> MaxSize]})
    BY <1>2, <1>4, <1>5
<1>6. CASE v \in Tree!Container(Flat)
    BY <1>2, <1>4, <1>6
<1>. QED BY <1>1, <1>5, <1>6 DEF Value, Flat

\* It holds at the start.
LEMMA TreeBegins == Tree!Init => TreeInv
<1>. SUFFICES ASSUME Tree!Init PROVE TreeInv
    OBVIOUS
<1>1. /\ json_data \in Value /\ files = << >> /\ path = << >> /\ offset = 0 /\ whole = FALSE
      /\ DOMAIN dirs = {<< >>} /\ dirs[<< >>] = {}
    BY DEF Tree!Init, Tree!Json, Value, Flat
<1>2. DOMAIN files = {}
    BY <1>1
<1>3. << >> \in Seq(Name)
    OBVIOUS
<1>4. FilesRight /\ ReadSoFar
    BY <1>1, <1>2 DEF FilesRight, ReadSoFar
<1>5. CASE Tree!IsScalar(json_data)
    <2>1. todo = << >>
        BY <1>5 DEF Tree!Init
    <2>2. todo \in Seq(Call)
        BY <2>1
    <2>. QED BY <1>1, <1>2, <1>3, <1>4, <1>5, <2>1, <2>2 DEF TreeInv, TreeTypes, OnlyScalar
<1>6. CASE ~Tree!IsScalar(json_data)
    <2>1. todo = <<<< << >>, json_data >>>>
        BY <1>6 DEF Tree!Init
    <2>2. << << >>, json_data >> \in Call
        BY <1>1, <1>3 DEF Call
    <2>3. todo \in Seq(Call) /\ Len(todo) = 1 /\ todo[1][1] = << >> /\ todo[1][2] = json_data
        BY <2>1, <2>2
    <2>4. CallsRight /\ DirsRight
        BY <1>1, <1>6, <2>3, ValueAtRoot DEF CallsRight, DirsRight, Waiting
    <2>. QED BY <1>1, <1>2, <1>3, <1>4, <1>6, <2>3, <2>4 DEF TreeInv, TreeTypes
<1>. QED BY <1>5, <1>6

\* The instance's notion of cardinality is that of FiniteSets.
LEMMA SameTreeCardinality == ASSUME NEW T PROVE Tree!Cardinality(T) = Cardinality(T)
BY Zenon DEF Tree!Cardinality, Cardinality

\* A call moves nothing that is already known of a path.
LEMMA SameValues ==
    json_data' = json_data => \A p : Tree!ValueAt(p)' = Tree!ValueAt(p)
BY DEF Tree!ValueAt

\* Each name of the value called for is a file or a directory to be filled.
LEMMA BuildTreeInv == TreeInv /\ Tree!BuildTree => TreeInv'
<1>. SUFFICES ASSUME TreeInv, Tree!BuildTree PROVE TreeInv'
    OBVIOUS
<1>. DEFINE p == Head(todo)[1]  data == Head(todo)[2]
            leaves == {Append(p, name) : name \in Tree!Leaves(data)}
            branches == {Append(p, name) : name \in Tree!Branches(data)}
            value(q) == data.items[Tree!Last(q)]
            S == {<<q, value(q)>> : q \in branches}
<1>1. /\ todo # << >>
      /\ dirs' = [q \in DOMAIN dirs \cup {p} \cup branches |->
                     IF q = p THEN Tree!Names(data)
                     ELSE IF q \in branches THEN {} ELSE dirs[q]]
      /\ files' = [q \in DOMAIN files \cup leaves |->
                     IF q \in leaves THEN value(q).size ELSE files[q]]
      /\ todo' = Tree!SetToSeq(S) \o Tail(todo)
      /\ UNCHANGED <<program, json_data, path, offset, whole>>
    BY DEF Tree!BuildTree
<1>2. /\ TreeTypes /\ FilesRight /\ ReadSoFar /\ CallsRight /\ DirsRight
      /\ ~Tree!IsScalar(json_data)
    BY <1>1 DEF TreeInv, OnlyScalar
<1>3. /\ Head(todo) = todo[1] /\ 1 \in 1 .. Len(todo) /\ todo \in Seq(Call)
      /\ todo[1] \in Call
    BY <1>1, <1>2 DEF TreeTypes
<1>4. p \in DOMAIN dirs /\ p \in Seq(Name) /\ data \in Value /\ data = Tree!ValueAt(p)
    BY <1>2, <1>3 DEF CallsRight, Call
<1>. HIDE DEF p, data
<1>5. ~Tree!IsScalar(data)
    BY <1>2, <1>4 DEF DirsRight
<1>6. /\ Tree!Names(data) \subseteq Name /\ IsFiniteSet(Tree!Names(data))
      /\ \A name \in Tree!Names(data) : data.items[name] \in Value
    BY <1>4, <1>5, ValueItems
<1>7. ASSUME NEW name \in Tree!Names(data)
      PROVE  LET q == Append(p, name)
             IN  /\ q \in Seq(Name) /\ q # << >> /\ value(q) = data.items[name]
                 /\ Tree!ValueAt(q) = value(q) /\ value(q) \in Value
    <2>. DEFINE q == Append(p, name)
    <2>1. name \in Name /\ data.items[name] \in Value
        BY <1>6
    <2>2. q \in Seq(Name) /\ q # << >> /\ Tree!Last(q) = name
        BY <1>4, <2>1 DEF Tree!Last
    <2>3. Tree!ValueAt(q) = data.items[name]
        BY <1>4, <2>1, ValueBelow
    <2>. QED BY <2>1, <2>2, <2>3
<1>8. ASSUME NEW q \in leaves
      PROVE  /\ q \in Seq(Name) /\ q # << >> /\ Tree!ValueAt(q) = value(q)
             /\ value(q) \in Value /\ Tree!IsScalar(value(q))
    <2>1. PICK name \in Tree!Leaves(data) : q = Append(p, name)
        OBVIOUS
    <2>2. name \in Tree!Names(data) /\ Tree!IsScalar(data.items[name])
        BY DEF Tree!Leaves
    <2>. QED BY <1>7, <2>1, <2>2
<1>9. ASSUME NEW q \in branches
      PROVE  /\ q \in Seq(Name) /\ q # << >> /\ Tree!ValueAt(q) = value(q)
             /\ value(q) \in Value /\ ~Tree!IsScalar(value(q))
    <2>1. PICK name \in Tree!Branches(data) : q = Append(p, name)
        OBVIOUS
    <2>2. name \in Tree!Names(data) /\ ~Tree!IsScalar(data.items[name])
        BY DEF Tree!Leaves, Tree!Branches
    <2>. QED BY <1>7, <2>1, <2>2
<1>10. Tree!SetToSeq(S) \in Seq(S)
       /\ \A y \in S : \E k \in 1 .. Len(Tree!SetToSeq(S)) : Tree!SetToSeq(S)[k] = y
    <2>1. IsFiniteSet(Tree!Branches(data))
        BY <1>6, FS_Subset DEF Tree!Branches
    <2>2. IsFiniteSet(branches)
        <3>. DEFINE f == [name \in Tree!Branches(data) |-> Append(p, name)]
        <3>1. f \in Surjection(Tree!Branches(data), branches)
            BY DEF Surjection
        <3>. QED BY <2>1, <3>1, FS_Surjection
    <2>. HIDE DEF branches
    <2>3. IsFiniteSet(S)
        <3>. DEFINE f == [q \in branches |-> <<q, value(q)>>]
        <3>1. f \in Surjection(branches, S)
            BY DEF Surjection
        <3>. QED BY <2>2, <3>1, FS_Surjection
    <2>. HIDE DEF S
    <2>4. Tree!SetToSeq(S) = Arranged(S)
        BY SameTreeCardinality DEF Tree!SetToSeq, Tree!IsInjective, Arranged
    <2>. QED BY <2>3, <2>4, AllInSequence DEF HoldsAll
<1>. DEFINE s == Tree!SetToSeq(S)
<1>. HIDE DEF s
<1>11. s \in Seq(S) /\ (\A y \in S : \E k \in 1 .. Len(s) : s[k] = y) /\ todo' = s \o Tail(todo)
    BY <1>1, <1>10 DEF s
<1>12. S \subseteq Call
    BY <1>9 DEF Call
<1>13. s \in Seq(Call) /\ \A k \in 1 .. Len(s) : s[k] \in S
    BY <1>11, <1>12
<1>14. /\ todo' \in Seq(Call)
       /\ \A k \in 1 .. Len(todo') :
             \/ \E d \in 1 .. Len(s) : todo'[k] = s[d]
             \/ \E d \in 2 .. Len(todo) : todo'[k] = todo[d]
       /\ \A d \in 1 .. Len(s) : \E k \in 1 .. Len(todo') : todo'[k] = s[d]
       /\ \A d \in 2 .. Len(todo) : \E k \in 1 .. Len(todo') : todo'[k] = todo[d]
    <2>1. todo' \in Seq(Call) /\ MadeOf(todo', s, todo)
        BY <1>1, <1>3, <1>11, <1>13, InFront
    <2>. QED BY <2>1 DEF MadeOf
<1>15. \A q : Tree!ValueAt(q)' = Tree!ValueAt(q)
    BY <1>1, SameValues
<1>16. /\ DOMAIN dirs' = DOMAIN dirs \cup {p} \cup branches
       /\ DOMAIN files' = DOMAIN files \cup leaves
       /\ dirs'[p] = Tree!Names(data)
       /\ \A q \in leaves : files'[q] = value(q).size
       /\ \A q \in DOMAIN files : q \notin leaves => files'[q] = files[q]
       /\ \A q \in DOMAIN dirs : q # p /\ q \notin branches => dirs'[q] = dirs[q]
    BY <1>1
<1>17. TreeTypes'
    <2>1. DOMAIN dirs' \subseteq Seq(Name)
        BY <1>2, <1>4, <1>9, <1>16 DEF TreeTypes
    <2>2. DOMAIN files' \subseteq Seq(Name)
        BY <1>2, <1>8, <1>16 DEF TreeTypes
    <2>. QED BY <1>1, <1>2, <1>14, <2>1, <2>2 DEF TreeTypes
<1>18. FilesRight'
    <2>. SUFFICES ASSUME NEW q \in DOMAIN files'
                  PROVE  /\ Tree!ValueAt(q) \in Value /\ Tree!IsScalar(Tree!ValueAt(q))
                         /\ files'[q] = Tree!ValueAt(q).size
        BY <1>15 DEF FilesRight, Tree!IsScalar
    <2>1. CASE q \in leaves
        BY <1>8, <1>16, <2>1
    <2>2. CASE q \notin leaves
        BY <1>2, <1>16, <2>2 DEF FilesRight
    <2>. QED BY <2>1, <2>2
<1>19. ReadSoFar'
    <2>1. offset' = 0 /\ whole' = FALSE
        BY <1>1, <1>2 DEF ReadSoFar
    <2>2. ASSUME path' \in DOMAIN files' PROVE files'[path'] \in Nat
        BY <1>15, <1>18, <2>2, ValueItems DEF FilesRight
    <2>. QED BY <2>1, <2>2 DEF ReadSoFar
<1>20. CallsRight'
    <2>. SUFFICES ASSUME NEW k \in 1 .. Len(todo')
                  PROVE  /\ todo'[k][1] \in DOMAIN dirs'
                         /\ todo'[k][2] = Tree!ValueAt(todo'[k][1])
        BY <1>15 DEF CallsRight
    <2>1. ASSUME NEW d \in 1 .. Len(s), todo'[k] = s[d]
          PROVE  todo'[k][1] \in DOMAIN dirs' /\ todo'[k][2] = Tree!ValueAt(todo'[k][1])
        <3>1. PICK q \in branches : todo'[k] = <<q, value(q)>>
            BY <1>13, <2>1
        <3>. QED BY <1>9, <1>16, <3>1
    <2>2. ASSUME NEW d \in 2 .. Len(todo), todo'[k] = todo[d]
          PROVE  todo'[k][1] \in DOMAIN dirs' /\ todo'[k][2] = Tree!ValueAt(todo'[k][1])
        BY <1>2, <1>16, <2>2 DEF CallsRight
    <2>. QED BY <1>14, <2>1, <2>2
<1>21. DirsRight'
    <2>. SUFFICES ASSUME NEW q \in DOMAIN dirs'
                  PROVE  /\ Tree!ValueAt(q) \in Value /\ ~Tree!IsScalar(Tree!ValueAt(q))
                         /\ Waiting(q)' \/ Listed(q)'
        BY <1>15 DEF DirsRight, Tree!IsScalar
    <2>1. CASE q = p
        <3>1. ASSUME NEW name \in Tree!Names(data)
              PROVE  Append(p, name) \in DOMAIN files' \cup DOMAIN dirs'
            <4>1. name \in Tree!Leaves(data) \/ name \in Tree!Branches(data)
                BY DEF Tree!Branches
            <4>2. Append(p, name) \in leaves \/ Append(p, name) \in branches
                BY <4>1
            <4>. QED BY <1>16, <4>2
        <3>2. Listed(q)'
            BY <1>4, <1>15, <1>16, <2>1, <3>1 DEF Listed, Tree!Names
        <3>. QED BY <1>4, <1>5, <2>1, <3>2
    <2>2. CASE q # p /\ q \in branches
        <3>1. <<q, value(q)>> \in S
            BY <2>2
        <3>2. PICK d \in 1 .. Len(s) : s[d] = <<q, value(q)>>
            BY <1>11, <3>1
        <3>3. PICK k \in 1 .. Len(todo') : todo'[k] = <<q, value(q)>>
            BY <1>14, <3>2
        <3>4. Waiting(q)'
            BY <3>3 DEF Waiting
        <3>. QED BY <1>9, <2>2, <3>4
    <2>3. CASE q # p /\ q \notin branches
        <3>1. /\ q \in DOMAIN dirs /\ (Waiting(q) \/ Listed(q))
              /\ Tree!ValueAt(q) \in Value /\ ~Tree!IsScalar(Tree!ValueAt(q))
            BY <1>2, <1>16, <2>3 DEF DirsRight
        <3>2. CASE Waiting(q)
            <4>1. PICK d \in 1 .. Len(todo) : todo[d][1] = q
                BY <3>2 DEF Waiting
            <4>2. d # 1
                BY <1>3, <2>3, <4>1 DEF p
            <4>3. d \in 2 .. Len(todo)
                BY <1>3, <4>2
            <4>4. PICK k \in 1 .. Len(todo') : todo'[k] = todo[d]
                BY <1>14, <4>3
            <4>5. Waiting(q)'
                BY <4>1, <4>4 DEF Waiting
            <4>. QED BY <3>1, <4>5
        <3>3. CASE Listed(q)
            <4>1. dirs'[q] = dirs[q]
                  /\ DOMAIN files \cup DOMAIN dirs \subseteq DOMAIN files' \cup DOMAIN dirs'
                BY <1>16, <2>3, <3>1
            <4>2. Listed(q)'
                BY <1>15, <3>3, <4>1 DEF Listed, Tree!Names
            <4>. QED BY <3>1, <4>2
        <3>. QED BY <3>1, <3>2, <3>3
    <2>. QED BY <2>1, <2>2, <2>3
<1>. QED BY <1>1, <1>2, <1>17, <1>18, <1>19, <1>20, <1>21 DEF TreeInv, Tree!IsScalar

\* What the user does leaves the tree alone.
LEMMA TreeRest ==
    ASSUME TreeInv, todo = << >>, UNCHANGED <<json_data, todo, files, dirs>>,
           \/ offset' = 0 /\ whole' = FALSE
           \/ /\ path' \in DOMAIN files /\ offset' \in Nat /\ offset' <= files[path']
              /\ whole' => offset' = files[path']
    PROVE  TreeInv'
<1>1. \A q : Tree!ValueAt(q)' = Tree!ValueAt(q)
    BY SameValues
<1>2. FilesRight /\ FilesRight'
    BY <1>1 DEF TreeInv, FilesRight, Tree!IsScalar
<1>3. ReadSoFar'
    <2>1. ASSUME path' \in DOMAIN files PROVE files[path'] \in Nat
        BY <1>2, <2>1, ValueItems DEF FilesRight
    <2>. QED BY <2>1 DEF ReadSoFar
<1>4. TreeTypes'
    BY DEF TreeInv, TreeTypes
<1>5. OnlyScalar => OnlyScalar'
    BY DEF OnlyScalar
<1>6. CallsRight => CallsRight'
    BY <1>1 DEF CallsRight
<1>7. DirsRight => DirsRight'
    BY <1>1 DEF DirsRight, Waiting, Listed, Tree!IsScalar, Tree!Names
<1>. QED BY <1>2, <1>3, <1>4, <1>5, <1>6, <1>7 DEF TreeInv, Tree!IsScalar

\* Whoever goes into a directory comes to the beginning of something.
LEMMA EnterInv ==
    ASSUME TreeInv, NEW name, Tree!Enter(name)
    PROVE  TreeInv'
<1>1. /\ todo = << >> /\ path \in DOMAIN dirs
      /\ UNCHANGED <<program, json_data, todo, files, dirs, offset, whole>>
    BY DEF Tree!Enter
<1>2. path \notin DOMAIN files
    BY <1>1 DEF TreeInv, OnlyScalar, FilesRight, DirsRight
<1>3. offset = 0 /\ whole = FALSE
    BY <1>2 DEF TreeInv, ReadSoFar
<1>. QED BY <1>1, <1>3, TreeRest

\* A piece read ends where the file does, at most.
LEMMA ReadPieceInv ==
    ASSUME TreeInv, NEW size \in 1 .. MaxSize, Tree!ReadPiece(size)
    PROVE  TreeInv'
<1>. DEFINE n == Tree!Slice(files[path], offset, size)
<1>1. /\ todo = << >> /\ path \in DOMAIN files /\ offset' = offset + n /\ whole' = (n = 0)
      /\ UNCHANGED <<program, json_data, todo, files, dirs, path>>
    BY DEF Tree!ReadPiece
<1>2. files[path] \in Nat /\ offset \in Nat /\ offset <= files[path] /\ size \in Nat \ {0}
    <2>1. files[path] \in Nat
        BY <1>1, ValueItems DEF TreeInv, FilesRight
    <2>. QED BY <1>1, <2>1, DataAssumption DEF TreeInv, TreeTypes, ReadSoFar
<1>3. /\ offset' \in Nat /\ offset' <= files[path]
      /\ whole' => offset' = files[path]
    <2>1. n \in Nat /\ offset + n <= files[path] /\ (n = 0 => offset = files[path])
        BY <1>2 DEF Tree!Slice
    <2>2. n \in Nat /\ offset + n <= files[path] /\ (whole' => n = 0) /\ offset' = offset + n
        BY <1>1, <2>1
    <2>. HIDE DEF n
    <2>3. whole' => offset + n = files[path]
        BY <1>2, <2>1, <2>2
    <2>. QED BY <1>2, <2>2, <2>3
<1>. QED BY <1>1, <1>3, TreeRest

\* No step breaks it.
LEMMA TreeInductive == TreeInv /\ [Tree!Next]_(Tree!vars) => TreeInv'
<1>. SUFFICES ASSUME TreeInv, [Tree!Next]_(Tree!vars) PROVE TreeInv'
    OBVIOUS
<1>1. CASE UNCHANGED Tree!vars
    <2>1. UNCHANGED <<json_data, todo, files, dirs, path, offset, whole>>
        BY <1>1 DEF Tree!vars
    <2>2. \A q : Tree!ValueAt(q)' = Tree!ValueAt(q)
        BY <2>1, SameValues
    <2>3. (FilesRight => FilesRight') /\ (ReadSoFar => ReadSoFar') /\ (TreeTypes => TreeTypes')
        BY <2>1, <2>2 DEF FilesRight, ReadSoFar, TreeTypes, Tree!IsScalar
    <2>4. (OnlyScalar => OnlyScalar') /\ (CallsRight => CallsRight')
        BY <2>1, <2>2 DEF OnlyScalar, CallsRight
    <2>5. DirsRight => DirsRight'
        BY <2>1, <2>2 DEF DirsRight, Waiting, Listed, Tree!IsScalar, Tree!Names
    <2>. QED BY <2>1, <2>3, <2>4, <2>5 DEF TreeInv, Tree!IsScalar
<1>. QED
    BY <1>1, BuildTreeInv, EnterInv, ReadPieceInv DEF Tree!Next

\* The invariant gives what is promised of the tree.
LEMMA TreeKeeps == TreeInv => Tree!TreeFaithful
<1>. SUFFICES ASSUME TreeInv, todo = << >> PROVE Tree!TreeFaithful
    BY DEF Tree!TreeFaithful, Tree!Mounted
<1>1. FilesRight
    BY DEF TreeInv
<1>2. whole => offset = Tree!ValueAt(path).size
    BY <1>1 DEF TreeInv, ReadSoFar, FilesRight
<1>3. CASE Tree!IsScalar(json_data)
    BY <1>1, <1>2, <1>3 DEF TreeInv, OnlyScalar, Tree!TreeFaithful, FilesRight
<1>4. CASE ~Tree!IsScalar(json_data)
    <2>1. DirsRight
        BY <1>4 DEF TreeInv
    <2>2. \A p \in DOMAIN dirs : ~Waiting(p)
        BY DEF Waiting
    <2>3. \A p \in DOMAIN dirs : Listed(p) /\ ~Tree!IsScalar(Tree!ValueAt(p))
        BY <2>1, <2>2 DEF DirsRight
    <2>4. DOMAIN files \cap DOMAIN dirs = {}
        BY <1>1, <2>3 DEF FilesRight
    <2>. QED BY <1>1, <1>2, <1>4, <2>3, <2>4 DEF FilesRight, Listed, Tree!TreeFaithful
<1>. QED BY <1>3, <1>4

-----------------------------------------------------------------------------
(* Powers of two, and numbers of so many bits *)

\* Powers of two count subsets.
LEMMA CountSubsets ==
    ASSUME NEW S, IsFiniteSet(S), NEW n \in Nat, Cardinality(S) = n
    PROVE  IsFiniteSet(SUBSET S) /\ Cardinality(SUBSET S) = 2 ^ n /\ 2 ^ n \in Nat
BY FS_SUBSET, FS_CardinalityType

\* A subset of two disjoint sets is a subset of each.
LEMMA SplitSubsets ==
    ASSUME NEW S, NEW T, IsFiniteSet(S), IsFiniteSet(T), S \cap T = {}
    PROVE  Cardinality(SUBSET (S \cup T)) = Cardinality(SUBSET S) * Cardinality(SUBSET T)
<1>. DEFINE P == (SUBSET S) \X (SUBSET T)
            f == [pair \in P |-> pair[1] \cup pair[2]]
<1>1. IsFiniteSet(P) /\ Cardinality(P) = Cardinality(SUBSET S) * Cardinality(SUBSET T)
    BY FS_SUBSET, FS_Product
<1>2. f \in [P -> SUBSET (S \cup T)]
    OBVIOUS
<1>3. ASSUME NEW a \in P, NEW b \in P, f[a] = f[b] PROVE a = b
    <2>1. a[1] = f[a] \cap S /\ a[2] = f[a] \cap T /\ b[1] = f[b] \cap S /\ b[2] = f[b] \cap T
        OBVIOUS
    <2>2. a[1] = b[1] /\ a[2] = b[2]
        BY <1>3, <2>1
    <2>. QED BY <2>2
<1>4. ASSUME NEW U \in SUBSET (S \cup T) PROVE \E a \in P : f[a] = U
    <2>1. <<U \cap S, U \cap T>> \in P
        OBVIOUS
    <2>2. f[<<U \cap S, U \cap T>>] = U
        BY <2>1
    <2>. QED BY <2>1, <2>2
<1>5. f \in Bijection(P, SUBSET (S \cup T))
    BY <1>2, <1>3, <1>4, Fun_IsBij
<1>. QED BY <1>1, <1>5, FS_Bijection DEF ExistsBijection

\* 2 ^ (a + b) is a product.
LEMMA PowerSum ==
    ASSUME NEW a \in Nat, NEW b \in Nat
    PROVE  2 ^ (a + b) = (2 ^ a) * (2 ^ b)
<1>. DEFINE S == 1 .. a  T == a + 1 .. a + b
<1>1. IsFiniteSet(S) /\ Cardinality(S) = a
    BY FS_Interval
<1>2. IsFiniteSet(T) /\ Cardinality(T) = b
    <2>1. a + 1 \in Int /\ a + b \in Int /\ (a + 1 > a + b <=> b = 0)
          /\ (a + b) - (a + 1) + 1 = b
        OBVIOUS
    <2>. QED BY <2>1, FS_Interval
<1>3. S \cup T = 1 .. a + b /\ S \cap T = {} /\ a + b \in Nat
    OBVIOUS
<1>4. IsFiniteSet(S \cup T) /\ Cardinality(S \cup T) = a + b
    <2>1. a + b \in Nat /\ IsFiniteSet(1 .. a + b) /\ Cardinality(1 .. a + b) = a + b
        <3>. DEFINE c == a + b
        <3>1. c \in Nat
            OBVIOUS
        <3>. HIDE DEF c
        <3>2. IsFiniteSet(1 .. c) /\ Cardinality(1 .. c) = c
            BY <3>1, FS_Interval
        <3>. QED BY <3>1, <3>2 DEF c
    <2>2. S \cup T = 1 .. a + b
        BY <1>3
    <2>. QED BY <2>1, <2>2
<1>. HIDE DEF S, T
<1>5. Cardinality(SUBSET S) = 2 ^ a /\ Cardinality(SUBSET T) = 2 ^ b
      /\ Cardinality(SUBSET (S \cup T)) = 2 ^ (a + b)
    BY <1>1, <1>2, <1>3, <1>4, CountSubsets
<1>. QED BY <1>1, <1>2, <1>3, <1>5, SplitSubsets

\* 2 ^ 1 is 2, and every power is positive.
LEMMA PowerOne == 2 ^ 1 = 2
<1>1. IsFiniteSet({1}) /\ Cardinality({1}) = 1
    BY FS_Singleton
<1>2. Cardinality(SUBSET {1}) = 2 ^ 1
    BY <1>1, CountSubsets
<1>3. SUBSET {1} = {{}} \cup {{1}}
    OBVIOUS
<1>4. Cardinality({{}} \cup {{1}}) = 2
    <2>1. IsFiniteSet({{}}) /\ Cardinality({{}}) = 1 /\ {1} \notin {{}}
        BY FS_Singleton
    <2>. DEFINE E == {{}}  one == {1}
    <2>. HIDE DEF E, one
    <2>2. IsFiniteSet(E) /\ Cardinality(E) = 1 /\ one \notin E
        BY <2>1 DEF E, one
    <2>3. Cardinality(E \cup {one}) = 2
        BY <2>2, FS_AddElement
    <2>. QED BY <2>3 DEF E, one
<1>. QED BY <1>2, <1>3, <1>4

\* Powers of two are not 0.
LEMMA PowerPositive ==
    ASSUME NEW a \in Nat
    PROVE  2 ^ a \in Nat /\ 2 ^ a > 0
<1>1. IsFiniteSet(1 .. a) /\ Cardinality(1 .. a) = a
    BY FS_Interval
<1>2. /\ IsFiniteSet(SUBSET (1 .. a)) /\ Cardinality(SUBSET (1 .. a)) = 2 ^ a
      /\ 2 ^ a \in Nat
    BY <1>1, CountSubsets
<1>3. SUBSET (1 .. a) # {}
    OBVIOUS
<1>4. 2 ^ a # 0
    BY <1>2, <1>3, FS_EmptySet
<1>. QED BY <1>2, <1>4

\* Division leaves a remainder.
LEMMA IntDivision ==
    ASSUME NEW s \in Nat, s > 0, NEW a \in Int
    PROVE  a \div s \in Int /\ (a % s) \in 0 .. s - 1 /\ a = (a \div s) * s + (a % s)
OBVIOUS

\* A multiple and what is left over.
LEMMA IntQuotient ==
    ASSUME NEW s \in Nat, s > 0, NEW q \in Int, NEW r \in 0 .. s - 1
    PROVE  ((q * s) + r) % s = r
OBVIOUS

\* A number below the divisor is its own remainder.
LEMMA SmallRest ==
    ASSUME NEW s \in Nat, s > 0, NEW a \in 0 .. s - 1
    PROVE  a % s = a
OBVIOUS

\* A multiple of the divisor does not change the remainder.
LEMMA SameRest ==
    ASSUME NEW s \in Nat, s > 0, NEW a \in Int, NEW q \in Int
    PROVE  ((q * s) + a) % s = a % s
<1>. DEFINE p == a \div s  r == a % s
<1>1. p \in Int /\ r \in 0 .. s - 1 /\ a = p * s + r
    BY IntDivision
<1>. HIDE DEF p, r
<1>2. (q * s) + a = ((q + p) * s) + r
    BY <1>1
<1>3. (((q + p) * s) + r) % s = r
    BY <1>1, IntQuotient
<1>. QED BY <1>2, <1>3 DEF r

\* A remainder can be taken before an addition as well as after it.
LEMMA RestOfSum ==
    ASSUME NEW s \in Nat, s > 0, NEW a \in Int, NEW b \in Int
    PROVE  ((a % s) + b) % s = (a + b) % s
<1>. DEFINE p == a \div s  r == a % s
<1>1. p \in Int /\ r \in 0 .. s - 1 /\ a = p * s + r
    BY IntDivision
<1>. HIDE DEF p, r
<1>2. a + b = (p * s) + (r + b) /\ r + b \in Int
    BY <1>1
<1>3. ((p * s) + (r + b)) % s = (r + b) % s
    BY <1>1, <1>2, SameRest
<1>. QED BY <1>2, <1>3 DEF r

\* The remainder by a multiple of s has the remainder by s.
LEMMA RestOfRest ==
    ASSUME NEW s \in Nat, s > 0, NEW t \in Nat, t > 0, NEW a \in Int
    PROVE  (a % (s * t)) % s = a % s
<1>. DEFINE m == s * t  p == a \div m  r == a % m
<1>1. m \in Nat /\ m > 0
    OBVIOUS
<1>2. p \in Int /\ r \in 0 .. m - 1 /\ a = p * m + r
    BY <1>1, IntDivision
<1>. HIDE DEF p, r
<1>3. a = ((p * t) * s) + r /\ p * t \in Int /\ r \in Int
    BY <1>2
<1>4. (((p * t) * s) + r) % s = r % s
    BY <1>3, SameRest
<1>. QED BY <1>3, <1>4 DEF r

\* The sum of the first numbers.
LEMMA Triangle ==
    ASSUME NEW k \in Nat
    PROVE  /\ (k * (k + 1)) \div 2 \in Nat
           /\ ((k + 1) * ((k + 1) + 1)) \div 2 = (k * (k + 1)) \div 2 + (k + 1)
<1>1. (k + 1) * ((k + 1) + 1) = k * (k + 1) + 2 * (k + 1) /\ k * (k + 1) \in Nat
    OBVIOUS
<1>. DEFINE u == k * (k + 1)
<1>2. u \in Nat
    BY <1>1
<1>. HIDE DEF u
<1>3. u \div 2 \in Nat /\ (u + 2 * (k + 1)) \div 2 = u \div 2 + (k + 1)
    BY <1>2
<1>. QED BY <1>1, <1>3 DEF u

-----------------------------------------------------------------------------
(* Functions defined by recursion *)

Fibs(f, m) == f = [k \in 0 .. m |-> IF k < 2 THEN k ELSE f[k - 1] + f[k - 2]]

\* There is such a function: else there would be a least m that has none.
LEMMA SomeFibs ==
    ASSUME NEW m \in Nat
    PROVE  \E f : Fibs(f, m)
<1>. DEFINE Q(k) == \E f : Fibs(f, k)
            S == {k \in Nat : ~Q(k)}
<1>1. Q(0)
    <2>. DEFINE f == [k \in 0 .. 0 |-> k]
    <2>1. \A k \in 0 .. 0 : k < 2
        OBVIOUS
    <2>2. f = [k \in 0 .. 0 |-> IF k < 2 THEN k ELSE f[k - 1] + f[k - 2]]
        BY <2>1
    <2>. QED BY <2>2 DEF Fibs
<1>2. ASSUME NEW k \in Nat, Q(k) PROVE Q(k + 1)
    <2>1. PICK f : Fibs(f, k)
        BY <1>2
    <2>2. f = [d \in 0 .. k |-> IF d < 2 THEN d ELSE f[d - 1] + f[d - 2]]
        BY <2>1 DEF Fibs
    <2>. DEFINE g == [d \in 0 .. k + 1 |-> IF d < 2 THEN d ELSE f[d - 1] + f[d - 2]]
    <2>3. ASSUME NEW d \in 0 .. k PROVE g[d] = f[d]
        BY <2>2
    <2>4. ASSUME NEW d \in 0 .. k + 1, ~(d < 2)
          PROVE  g[d - 1] = f[d - 1] /\ g[d - 2] = f[d - 2]
        <3>1. d - 1 \in 0 .. k /\ d - 2 \in 0 .. k
            BY <2>4
        <3>. QED BY <2>3, <3>1
    <2>5. g = [d \in 0 .. k + 1 |-> IF d < 2 THEN d ELSE g[d - 1] + g[d - 2]]
        BY <2>4
    <2>. QED BY <2>5 DEF Fibs
<1>. HIDE DEF Q
<1>3. S = {}
    <2>. SUFFICES ASSUME S # {} PROVE FALSE
        OBVIOUS
    <2>1. PICK k \in S : \A d \in S : k <= d
        BY LeastNumber
    <2>2. k \in Nat /\ k # 0 /\ ~Q(k)
        BY <1>1
    <2>3. k - 1 \in Nat /\ ~(k <= k - 1) /\ (k - 1) + 1 = k
        BY <2>2
    <2>4. Q(k - 1)
        BY <2>1, <2>3
    <2>. QED BY <1>2, <2>2, <2>3, <2>4
<1>4. Q(m)
    BY <1>3
<1>. QED BY <1>4 DEF Q

\* They are numbers.
LEMMA FibsAreNumbers ==
    ASSUME NEW m \in Nat, NEW f, Fibs(f, m)
    PROVE  /\ \A k \in 0 .. m : f[k] \in Nat
           /\ \A k \in 0 .. m : f[k] = IF k < 2 THEN k ELSE f[k - 1] + f[k - 2]
<1>1. \A k \in 0 .. m : f[k] = IF k < 2 THEN k ELSE f[k - 1] + f[k - 2]
    BY DEF Fibs
<1>. DEFINE S == {k \in 0 .. m : f[k] \notin Nat}
<1>2. S = {}
    <2>. SUFFICES ASSUME S # {} PROVE FALSE
        OBVIOUS
    <2>0. S \subseteq Nat
        OBVIOUS
    <2>1. PICK k \in S : \A d \in S : k <= d
        BY <2>0, LeastNumber
    <2>2. k \in 0 .. m /\ f[k] \notin Nat
        OBVIOUS
    <2>3. ~(k < 2)
        BY <1>1, <2>2
    <2>4. k - 1 \in 0 .. m /\ k - 2 \in 0 .. m /\ ~(k <= k - 1) /\ ~(k <= k - 2)
        BY <2>2, <2>3
    <2>5. f[k - 1] \in Nat /\ f[k - 2] \in Nat
        BY <2>1, <2>4
    <2>6. f[k] = f[k - 1] + f[k - 2]
        BY <1>1, <2>2, <2>3
    <2>. QED BY <2>2, <2>5, <2>6
<1>. QED BY <1>1, <1>2

Sums(f, s, m) ==
    f = [k \in 0 .. m |-> IF k = 0 THEN 0
                          ELSE IF k % 2 = 1 THEN f[k - 1] + s[k] ELSE f[k - 1] - s[k]]

\* There is such a function.
LEMMA SomeSums ==
    ASSUME NEW s, NEW m \in Nat
    PROVE  \E f : Sums(f, s, m)
<1>. DEFINE Q(k) == \E f : Sums(f, s, k)
            S == {k \in Nat : ~Q(k)}
<1>1. Q(0)
    <2>. DEFINE f == [k \in 0 .. 0 |-> 0]
    <2>1. \A k \in 0 .. 0 : k = 0
        OBVIOUS
    <2>2. f = [k \in 0 .. 0 |-> IF k = 0 THEN 0
                    ELSE IF k % 2 = 1 THEN f[k - 1] + s[k] ELSE f[k - 1] - s[k]]
        BY <2>1
    <2>. QED BY <2>2 DEF Sums
<1>2. ASSUME NEW k \in Nat, Q(k) PROVE Q(k + 1)
    <2>1. PICK f : Sums(f, s, k)
        BY <1>2
    <2>2. f = [d \in 0 .. k |-> IF d = 0 THEN 0
                    ELSE IF d % 2 = 1 THEN f[d - 1] + s[d] ELSE f[d - 1] - s[d]]
        BY <2>1 DEF Sums
    <2>. DEFINE g == [d \in 0 .. k + 1 |-> IF d = 0 THEN 0
                    ELSE IF d % 2 = 1 THEN f[d - 1] + s[d] ELSE f[d - 1] - s[d]]
    <2>3. ASSUME NEW d \in 0 .. k PROVE g[d] = f[d]
        BY <2>2
    <2>4. ASSUME NEW d \in 0 .. k + 1, d # 0 PROVE g[d - 1] = f[d - 1]
        <3>1. d - 1 \in 0 .. k
            BY <2>4
        <3>. QED BY <2>3, <3>1
    <2>5. g = [d \in 0 .. k + 1 |-> IF d = 0 THEN 0
                    ELSE IF d % 2 = 1 THEN g[d - 1] + s[d] ELSE g[d - 1] - s[d]]
        BY <2>4
    <2>. QED BY <2>5 DEF Sums
<1>. HIDE DEF Q
<1>3. S = {}
    <2>. SUFFICES ASSUME S # {} PROVE FALSE
        OBVIOUS
    <2>1. PICK k \in S : \A d \in S : k <= d
        BY LeastNumber
    <2>2. k \in Nat /\ k # 0 /\ ~Q(k)
        BY <1>1
    <2>3. k - 1 \in Nat /\ ~(k <= k - 1) /\ (k - 1) + 1 = k
        BY <2>2
    <2>4. Q(k - 1)
        BY <2>1, <2>3
    <2>. QED BY <1>2, <2>2, <2>3, <2>4
<1>4. Q(m)
    BY <1>3
<1>. QED BY <1>4 DEF Q

\* Its values are numbers.
LEMMA SumsAreNumbers ==
    ASSUME NEW m \in Nat, NEW s, \A k \in 1 .. m : s[k] \in Int, NEW f, Sums(f, s, m)
    PROVE  \A k \in 0 .. m :
              /\ f[k] \in Int
              /\ f[k] = IF k = 0 THEN 0
                        ELSE IF k % 2 = 1 THEN f[k - 1] + s[k] ELSE f[k - 1] - s[k]
<1>1. \A k \in 0 .. m : f[k] = IF k = 0 THEN 0
                        ELSE IF k % 2 = 1 THEN f[k - 1] + s[k] ELSE f[k - 1] - s[k]
    BY DEF Sums
<1>. DEFINE S == {k \in 0 .. m : f[k] \notin Int}
<1>2. S = {}
    <2>. SUFFICES ASSUME S # {} PROVE FALSE
        OBVIOUS
    <2>0. S \subseteq Nat
        OBVIOUS
    <2>1. PICK k \in S : \A d \in S : k <= d
        BY <2>0, LeastNumber
    <2>2. k \in 0 .. m /\ f[k] \notin Int
        OBVIOUS
    <2>3. k # 0
        BY <1>1, <2>2
    <2>4. k - 1 \in 0 .. m /\ ~(k <= k - 1) /\ k \in 1 .. m
        BY <2>2, <2>3
    <2>5. f[k - 1] \in Int /\ s[k] \in Int
        BY <2>1, <2>4
    <2>6. f[k] = f[k - 1] + s[k] \/ f[k] = f[k - 1] - s[k]
        BY <1>1, <2>2, <2>3
    <2>. QED BY <2>2, <2>5, <2>6
<1>. QED BY <1>1, <1>2

-----------------------------------------------------------------------------
(* AssemblyLoops: registers *)

\* How many values an int and a register have, and how many of them are not below 0.
IntSize  == 2 ^ WIDTH
HalfInt  == 2 ^ (WIDTH - 1)
LongSize == 2 ^ (2 * WIDTH)
HalfLong == 2 ^ (2 * WIDTH - 1)

\* How the sizes of an int and of a register are related.
LEMMA Sizes ==
    /\ IntSize \in Nat /\ HalfInt \in Nat /\ LongSize \in Nat /\ HalfLong \in Nat
    /\ HalfInt > 1 /\ IntSize = 2 * HalfInt /\ LongSize = 2 * HalfLong
    /\ LongSize = IntSize * IntSize /\ HalfLong >= 2 * IntSize
<1>1. WIDTH \in Nat /\ WIDTH > 1
    BY DataAssumption
<1>2. /\ WIDTH - 1 \in Nat /\ WIDTH - 2 \in Nat /\ 2 * WIDTH - 1 \in Nat /\ 2 * WIDTH \in Nat
      /\ 1 + (WIDTH - 1) = WIDTH /\ 1 + (2 * WIDTH - 1) = 2 * WIDTH
      /\ WIDTH + WIDTH = 2 * WIDTH /\ WIDTH + (WIDTH - 1) = 2 * WIDTH - 1
      /\ 1 + (WIDTH - 2) = WIDTH - 1
    BY <1>1
<1>3. /\ IntSize \in Nat /\ HalfInt \in Nat /\ LongSize \in Nat /\ HalfLong \in Nat
      /\ HalfInt > 0 /\ IntSize > 0
    BY <1>1, <1>2, PowerPositive DEF IntSize, HalfInt, LongSize, HalfLong
<1>4. IntSize = 2 * HalfInt
    <2>1. 2 ^ (1 + (WIDTH - 1)) = (2 ^ 1) * (2 ^ (WIDTH - 1))
        BY <1>2, PowerSum
    <2>. QED BY <1>2, <2>1, PowerOne DEF IntSize, HalfInt
<1>5. LongSize = 2 * HalfLong
    <2>1. 2 ^ (1 + (2 * WIDTH - 1)) = (2 ^ 1) * (2 ^ (2 * WIDTH - 1))
        BY <1>2, PowerSum
    <2>. QED BY <1>2, <2>1, PowerOne DEF LongSize, HalfLong
<1>6. LongSize = IntSize * IntSize
    <2>1. 2 ^ (WIDTH + WIDTH) = (2 ^ WIDTH) * (2 ^ WIDTH)
        BY <1>1, PowerSum
    <2>. QED BY <1>2, <2>1 DEF LongSize, IntSize
<1>7. HalfLong = IntSize * HalfInt
    <2>1. 2 ^ (WIDTH + (WIDTH - 1)) = (2 ^ WIDTH) * (2 ^ (WIDTH - 1))
        BY <1>1, <1>2, PowerSum
    <2>. QED BY <1>2, <2>1 DEF HalfLong, IntSize, HalfInt
<1>8. HalfInt > 1
    <2>1. 2 ^ (1 + (WIDTH - 2)) = (2 ^ 1) * (2 ^ (WIDTH - 2))
        BY <1>2, PowerSum
    <2>2. 2 ^ (WIDTH - 2) \in Nat /\ 2 ^ (WIDTH - 2) > 0
        BY <1>2, PowerPositive
    <2>. QED BY <1>2, <2>1, <2>2, PowerOne DEF HalfInt
<1>9. HalfLong >= 2 * IntSize
    BY <1>3, <1>7, <1>8
<1>. QED BY <1>3, <1>4, <1>5, <1>6, <1>8, <1>9

\* A register keeps what fits into it, and what does not is reduced.
LEMMA WrappedIs == ASSUME NEW v PROVE Loops!Wrapped(v) = v % LongSize
BY DEF Loops!Wrapped, Loops!Values, LongSize

\* What a register holds is one of its values.
LEMMA WrappedType ==
    ASSUME NEW v \in Int
    PROVE  Loops!Wrapped(v) \in 0 .. LongSize - 1 /\ Loops!Wrapped(v) \in Nat
<1>1. LongSize \in Nat /\ LongSize > 0
    BY Sizes
<1>2. (v % LongSize) \in 0 .. LongSize - 1
    BY <1>1, IntDivision
<1>. QED BY <1>1, <1>2, WrappedIs

\* A number that fits is kept.
LEMMA WrappedSmall ==
    ASSUME NEW v \in 0 .. LongSize - 1
    PROVE  Loops!Wrapped(v) = v
<1>1. LongSize \in Nat /\ LongSize > 0
    BY Sizes
<1>. QED BY <1>1, SmallRest, WrappedIs

\* Sums may be reduced before and after they are made.
LEMMA WrappedSum ==
    ASSUME NEW a \in Int, NEW b \in Int
    PROVE  /\ Loops!Wrapped(Loops!Wrapped(a) + b) = Loops!Wrapped(a + b)
           /\ Loops!Wrapped(Loops!Wrapped(a) + Loops!Wrapped(b)) = Loops!Wrapped(a + b)
<1>1. LongSize \in Nat /\ LongSize > 0
    BY Sizes
<1>2. \A c, d \in Int : ((c % LongSize) + d) % LongSize = (c + d) % LongSize
    BY <1>1, RestOfSum
<1>3. (b % LongSize) \in Int
    BY <1>1, IntDivision
<1>. HIDE DEF LongSize
<1>4. ((a % LongSize) + b) % LongSize = (a + b) % LongSize
    BY <1>2
<1>5. ((a % LongSize) + (b % LongSize)) % LongSize = (a + (b % LongSize)) % LongSize
    BY <1>2, <1>3
<1>6. ((b % LongSize) + a) % LongSize = (b + a) % LongSize
    BY <1>2
<1>7. a + (b % LongSize) = (b % LongSize) + a /\ a + b = b + a
    BY <1>3
<1>. QED BY <1>4, <1>5, <1>6, <1>7, WrappedIs

\* Its halves and the whole of it as a signed number.
LEMMA SignedValue ==
    ASSUME NEW s \in Nat, NEW h \in Nat, h > 0, s = 2 * h, NEW v \in -h .. h - 1
    PROVE  LET low == v % s IN v = IF low < h THEN low ELSE low - s
<1>1. CASE v >= 0
    <2>1. v \in 0 .. s - 1
        BY <1>1
    <2>2. v % s = v
        BY <2>1, SmallRest
    <2>. QED BY <2>2
<1>2. CASE v < 0
    <2>1. v + s \in 0 .. s - 1 /\ ((1 * s) + v) = v + s /\ ~(v + s < h) /\ (v + s) - s = v
        BY <1>2
    <2>2. ((1 * s) + v) % s = v % s
        BY SameRest
    <2>3. (v + s) % s = v + s
        BY <2>1, SmallRest
    <2>. QED BY <2>1, <2>2, <2>3
<1>. QED BY <1>1, <1>2

\* The whole register and its lower half, read as signed numbers.
LEMMA AsLongIs ==
    ASSUME NEW v
    PROVE  Loops!AsLong(v) = LET low == v % LongSize
                             IN  IF low < HalfLong THEN low ELSE low - LongSize
BY DEF Loops!AsLong, Loops!Signed, Loops!Values, LongSize, HalfLong

\* The lower half.
LEMMA AsIntIs ==
    ASSUME NEW v
    PROVE  Loops!AsInt(v) = LET low == v % IntSize
                            IN  IF low < HalfInt THEN low ELSE low - IntSize
BY DEF Loops!AsInt, Loops!Signed, Loops!Values, IntSize, HalfInt

\* A signed number that fits a register is read back from it.
LEMMA LongValue ==
    ASSUME NEW v \in -HalfLong .. HalfLong - 1
    PROVE  Loops!AsLong(v) = v /\ Loops!AsLong(Loops!Wrapped(v)) = v
<1>1. LongSize \in Nat /\ HalfLong \in Nat /\ HalfLong > 0 /\ LongSize = 2 * HalfLong
      /\ LongSize > 0 /\ v \in Int
    BY Sizes
<1>2. Loops!AsLong(v) = v
    BY <1>1, SignedValue, AsLongIs
<1>3. (v % LongSize) \in 0 .. LongSize - 1
    BY <1>1, IntDivision
<1>4. (v % LongSize) % LongSize = v % LongSize
    BY <1>1, <1>3, SmallRest
<1>. QED BY <1>2, <1>4, AsLongIs, WrappedIs

\* A signed number that fits an int is read back from it.
LEMMA IntValue ==
    ASSUME NEW v \in -HalfInt .. HalfInt - 1
    PROVE  Loops!AsInt(v) = v /\ Loops!AsInt(v % IntSize) = v
<1>1. IntSize \in Nat /\ HalfInt \in Nat /\ HalfInt > 0 /\ IntSize = 2 * HalfInt
      /\ IntSize > 0 /\ v \in Int
    BY Sizes
<1>2. Loops!AsInt(v) = v
    BY <1>1, SignedValue, AsIntIs
<1>3. (v % IntSize) \in 0 .. IntSize - 1
    BY <1>1, IntDivision
<1>4. (v % IntSize) % IntSize = v % IntSize
    BY <1>1, <1>3, SmallRest
<1>. QED BY <1>2, <1>4, AsIntIs

\* What a register drops does not change the int in it.
LEMMA IntOfWrapped ==
    ASSUME NEW v \in Int
    PROVE  Loops!AsInt(Loops!Wrapped(v)) = Loops!AsInt(v)
<1>1. IntSize \in Nat /\ IntSize > 0 /\ LongSize = IntSize * IntSize
    BY Sizes
<1>2. (v % LongSize) % IntSize = v % IntSize
    BY <1>1, RestOfRest
<1>. QED BY <1>2, AsIntIs, WrappedIs

-----------------------------------------------------------------------------
(* AssemblyLoops: what the loops are for *)

\* The functions Fibonacci(k) and Alternating(s) are values of.
FibTo(k) == CHOOSE f : Fibs(f, k)
SumTo(s) == CHOOSE f : Sums(f, s, Len(s))

\* Fibonacci(k) is the last value of the one.
LEMMA FibonacciIs ==
    ASSUME NEW k \in Nat
    PROVE  Fibs(FibTo(k), k) /\ Loops!Fibonacci(k) = FibTo(k)[k]
<1>. DEFINE P(f) == f = [d \in 0 .. k |-> IF d < 2 THEN d ELSE f[d - 1] + f[d - 2]]
<1>1. Fibs(FibTo(k), k)
    BY SomeFibs DEF FibTo
<1>2. Loops!Fibonacci(k) = (CHOOSE f : P(f))[k]
    BY DEF Loops!Fibonacci
<1>3. FibTo(k) = CHOOSE f : P(f)
    BY DEF FibTo, Fibs
<1>. QED BY <1>1, <1>2, <1>3

\* Alternating(s) is the last value of the other.
LEMMA AlternatingIs ==
    ASSUME NEW s, Len(s) \in Nat
    PROVE  Sums(SumTo(s), s, Len(s)) /\ Loops!Alternating(s) = SumTo(s)[Len(s)]
<1>. DEFINE P(f) == f = [k \in 0 .. Len(s) |-> IF k = 0 THEN 0
                            ELSE IF k % 2 = 1 THEN f[k - 1] + s[k] ELSE f[k - 1] - s[k]]
<1>1. Sums(SumTo(s), s, Len(s))
    BY SomeSums DEF SumTo
<1>2. Loops!Alternating(s) = (CHOOSE f : P(f))[Len(s)]
    BY DEF Loops!Alternating
<1>3. SumTo(s) = CHOOSE f : P(f)
    BY DEF SumTo, Sums
<1>. QED BY <1>1, <1>2, <1>3

-----------------------------------------------------------------------------
(* AssemblyLoops: the invariant *)

\* The argument as the register holds it.
Unsigned == argument % IntSize

\* rax and r8 are two numbers in a row, as far as rdi has counted down.
FibLoopInv ==
    /\ pc \in {"loop", "ret"} /\ stack = << >>
    /\ reg["rdi"] \in 0 .. Unsigned
    /\ reg["rax"] = Loops!Wrapped(FibTo(Unsigned)[Unsigned - reg["rdi"]])
    /\ reg["rdi"] > 0 =>
          reg["r8"] = Loops!Wrapped(FibTo(Unsigned)[Unsigned - reg["rdi"] + 1])
    /\ pc = "ret" => reg["rdi"] = 0

\* x0 is the sum of the numbers up to x2.
SumNInv ==
    /\ pc \in {"loop", "ret"} /\ stack = << >>
    /\ reg["x1"] = Unsigned
    /\ reg["x0"] = Loops!Wrapped((reg["x2"] * (reg["x2"] + 1)) \div 2)
    /\ pc = "loop" => reg["x2"] = 0 \/ reg["x2"] < Unsigned
    /\ pc = "ret" => reg["x2"] = IF Unsigned = 0 THEN 1 ELSE Unsigned

\* rax is the sum of the rsi elements read so far.
MySumInv ==
    /\ pc \in {"add", "sub", "ret"} /\ stack = << >>
    /\ argument \in -1 .. HalfInt - 1
    /\ array \in Seq({1, 3}) /\ Len(array) = IF argument > 0 THEN argument ELSE 0
    /\ reg["rsi"] \in 0 .. Len(array)
    /\ reg["rdi"] = Unsigned - reg["rsi"]
    /\ reg["rax"] = Loops!Wrapped(SumTo(array)[reg["rsi"]])
    /\ pc = "add" => reg["rsi"] % 2 = 0
    /\ pc = "sub" => reg["rsi"] % 2 = 1
    /\ pc = "ret" => reg["rsi"] = Len(array)

\* The results so far are those from low on.
From(low) ==
    /\ DOMAIN R = low .. argument - 1
    /\ \A k \in low .. argument - 1 : R[k] = 3 * (k + 1)

\* Once a block has been added the length is whole blocks, and so is what is left.
AvxInv ==
    /\ pc \in {"loop", "ret", "fault"} /\ stack = << >>
    /\ argument \in 0 .. HalfInt - 1
    /\ pc = "loop" =>
          \E low \in 0 .. argument :
             /\ From(low) /\ reg["rdi"] = low
             /\ low = argument \/ (low > 0 /\ argument % LANES = 0 /\ low % LANES = 0)
             /\ low = argument => R = << >>
    /\ pc = "ret" => argument % LANES = 0 /\ From(IF argument = 0 THEN -LANES ELSE 0)
    /\ pc = "fault" => argument % LANES # 0 /\ R = << >>

\* fib of m, and the argument of the call that a frame of the stack is of.
FibOf(m) == IF m < 1 THEN 0 ELSE FibTo(argument - 1)[m - 1]
ArgOf(frame) ==
    IF frame[1] = "caller" THEN argument
    ELSE IF frame[1] = "first" THEN frame[2] ELSE frame[2] - 1

\* A return address and the saved r12 and r13.
Frame == {"caller", "first", "second"} \X Nat \X Nat

\* The second word of a frame, r12, is one less than the argument of the frame
\* below; and the third of a second call is what the first has returned.
Frames ==
    /\ stack \in Seq(Frame) /\ Len(stack) > 0
    /\ stack[1] = <<"caller", 1, 2>>
    /\ \A k \in 2 .. Len(stack) :
          /\ stack[k][1] # "caller"
          /\ stack[k][2] \in 2 .. argument - 1
          /\ stack[k][2] + 1 = ArgOf(stack[k - 1])
          /\ stack[k][1] = "second" => stack[k][3] = Loops!Wrapped(FibOf(stack[k][2]))

\* What fib is called with, or returns, is what its last frame is for.
FibRecInv ==
    /\ argument \in 0 .. HalfInt - 1
    /\ pc \in {"fib", "return", "ret"}
    /\ pc = "fib" => Frames /\ reg["rdi"] = ArgOf(stack[Len(stack)])
    /\ pc = "return" => Frames /\ reg["rax"] = Loops!Wrapped(FibOf(ArgOf(stack[Len(stack)])))
    /\ pc = "ret" => /\ stack = << >> /\ reg["r12"] = 1 /\ reg["r13"] = 2
                     /\ reg["rax"] = Loops!Wrapped(FibOf(argument))

\* The invariant of whichever loop runs.
LoopInv ==
    /\ argument \in Int /\ reg \in [Loops!Register -> Nat]
    /\ program = "fib_loop" => FibLoopInv
    /\ program = "sum_n" => SumNInv
    /\ program = "my_sum" => MySumInv
    /\ program = "avx_sum" => AvxInv
    /\ program = "fib_rec" => FibRecInv

\* What an instruction leaves in the registers.
LEMMA RegistersSet ==
    ASSUME NEW values, Loops!Set(values)
    PROVE  /\ reg' \in [Loops!Register -> {reg'[r] : r \in Loops!Register}]
           /\ \A r \in Loops!Register :
                 reg'[r] = IF r \in DOMAIN values THEN Loops!Wrapped(values[r]) ELSE reg[r]
BY DEF Loops!Set

\* Such an argument is less than the halves of a register can hold.
LEMMA UnsignedSmall ==
    ASSUME argument \in Int
    PROVE  /\ Unsigned \in 0 .. IntSize - 1
           /\ argument \in 0 .. HalfInt - 1 => Unsigned = argument
<1>1. IntSize \in Nat /\ IntSize > 0 /\ HalfInt \in Nat /\ IntSize = 2 * HalfInt
    BY Sizes
<1>2. Unsigned \in 0 .. IntSize - 1
    BY <1>1, IntDivision DEF Unsigned
<1>3. argument \in 0 .. HalfInt - 1 => Unsigned = argument
    BY <1>1, SmallRest DEF Unsigned
<1>. QED BY <1>2, <1>3

\* It holds at the start.
LEMMA LoopBegins == Loops!Init => LoopInv
<1>. SUFFICES ASSUME Loops!Init PROVE LoopInv
    OBVIOUS
<1>0. /\ IntSize \in Nat /\ HalfInt \in Nat /\ HalfInt > 1 /\ IntSize = 2 * HalfInt
      /\ LongSize \in Nat /\ HalfLong \in Nat /\ LongSize = 2 * HalfLong
      /\ HalfLong >= 2 * IntSize
    BY Sizes
<1>1. /\ program \in LoopProgram
      /\ argument \in Loops!Arguments
      /\ array \in IF program = "my_sum" /\ argument > 0 THEN [1 .. argument -> {1, 3}]
                   ELSE {<< >>}
      /\ pc = CASE program = "fib_rec" -> "fib" [] program = "my_sum" -> "add"
                [] OTHER -> "loop"
      /\ reg = [r \in Loops!Register |->
                 CASE r \in {"rdi", "x1"}   -> Unsigned
                   [] r \in {"r8", "r12"}   -> 1
                   [] r = "r13"             -> 2
                   [] OTHER                 -> 0]
      /\ stack = IF program = "fib_rec" THEN <<<<"caller", 1, 2>>>> ELSE << >>
      /\ R = << >>
    BY DEF Loops!Init, Loops!Values, Unsigned, IntSize
<1>2. /\ program \in {"fib_loop", "sum_n"} => argument \in -HalfInt .. HalfInt - 1
      /\ program = "fib_rec" => argument \in 0 .. HalfInt - 1
      /\ program = "avx_sum" => argument \in 0 .. MaxArray
      /\ program = "my_sum" => argument \in -1 .. MaxArray
    BY <1>1 DEF Loops!Arguments, Loops!Values, HalfInt
<1>3. program \in {"fib_loop", "fib_rec", "my_sum", "avx_sum", "sum_n"}
    BY <1>1, DataAssumption
<1>4. MaxArray \in 0 .. HalfInt - 1 /\ LANES \in 1 .. HalfInt - 1
    BY DataAssumption DEF HalfInt
<1>5. argument \in Int
    BY <1>0, <1>2, <1>3, <1>4
<1>6. Unsigned \in 0 .. IntSize - 1
    BY <1>5, UnsignedSmall
<1>7. /\ reg["rdi"] = Unsigned /\ reg["x1"] = Unsigned /\ reg["r8"] = 1 /\ reg["rax"] = 0
      /\ reg["rsi"] = 0 /\ reg["x0"] = 0 /\ reg["x2"] = 0
    BY <1>1 DEF Loops!Register
<1>8. reg \in [Loops!Register -> Nat]
    BY <1>0, <1>1, <1>6
<1>9. Loops!Wrapped(0) = 0 /\ Loops!Wrapped(1) = 1
    <2>1. 0 \in 0 .. LongSize - 1 /\ 1 \in 0 .. LongSize - 1
        BY <1>0
    <2>. QED BY <2>1, WrappedSmall
<1>10. ASSUME program = "fib_loop" PROVE FibLoopInv
    <2>1. pc = "loop" /\ stack = << >>
        BY <1>1, <1>10
    <2>2. Unsigned \in Nat /\ Fibs(FibTo(Unsigned), Unsigned)
        BY <1>0, <1>6, FibonacciIs
    <2>3. /\ FibTo(Unsigned)[0] = 0
          /\ Unsigned > 0 => FibTo(Unsigned)[1] = 1
        BY <2>2, FibsAreNumbers
    <2>4. Unsigned - Unsigned = 0 /\ Unsigned \in 0 .. Unsigned
        BY <2>2
    <2>. QED BY <1>7, <1>9, <2>1, <2>3, <2>4 DEF FibLoopInv
<1>11. ASSUME program = "sum_n" PROVE SumNInv
    <2>1. pc = "loop" /\ stack = << >>
        BY <1>1, <1>11
    <2>2. (0 * (0 + 1)) \div 2 = 0
        OBVIOUS
    <2>. QED BY <1>7, <1>9, <2>1, <2>2 DEF SumNInv
<1>12. ASSUME program = "my_sum" PROVE MySumInv
    <2>1. pc = "add" /\ stack = << >>
        BY <1>1, <1>12
    <2>2. argument \in -1 .. HalfInt - 1
        BY <1>0, <1>2, <1>4, <1>12
    <2>3. array \in Seq({1, 3}) /\ Len(array) = IF argument > 0 THEN argument ELSE 0
        <3>1. CASE argument > 0
            <4>1. array \in [1 .. argument -> {1, 3}] /\ argument \in Nat
                BY <1>1, <1>12, <2>2, <3>1
            <4>2. array \in Seq({1, 3})
                BY <4>1, SeqDef
            <4>. QED BY <3>1, <4>1, <4>2
        <3>2. CASE ~(argument > 0)
            BY <1>1, <3>2
        <3>. QED BY <3>1, <3>2
    <2>4. Len(array) \in Nat
        BY <2>3
    <2>5. SumTo(array)[0] = 0
        <3>1. Sums(SumTo(array), array, Len(array))
            BY <2>4, AlternatingIs
        <3>2. \A k \in 1 .. Len(array) : array[k] \in Int
            BY <2>3
        <3>3. 0 \in 0 .. Len(array)
            BY <2>4
        <3>. QED BY <2>4, <3>1, <3>3 DEF Sums
    <2>6. reg["rdi"] = Unsigned - reg["rsi"]
        BY <1>6, <1>7
    <2>. QED BY <1>7, <1>9, <2>1, <2>2, <2>3, <2>4, <2>5, <2>6 DEF MySumInv
<1>13. ASSUME program = "avx_sum" PROVE AvxInv
    <2>1. pc = "loop" /\ stack = << >>
        BY <1>1, <1>13
    <2>2. argument \in 0 .. HalfInt - 1 /\ Unsigned = argument
        BY <1>0, <1>2, <1>4, <1>13, UnsignedSmall
    <2>3. From(argument) /\ R = << >>
        BY <1>1, <2>2 DEF From
    <2>4. argument \in 0 .. argument
        BY <2>2
    <2>. QED BY <1>7, <2>1, <2>2, <2>3, <2>4 DEF AvxInv
<1>14. ASSUME program = "fib_rec" PROVE FibRecInv
    <2>1. pc = "fib" /\ stack = <<<<"caller", 1, 2>>>>
        BY <1>1, <1>14
    <2>2. argument \in 0 .. HalfInt - 1 /\ Unsigned = argument
        BY <1>0, <1>2, <1>14, UnsignedSmall
    <2>3. <<"caller", 1, 2>> \in Frame
        BY DEF Frame
    <2>4. stack \in Seq(Frame) /\ Len(stack) = 1 /\ stack[1] = <<"caller", 1, 2>>
        BY <2>1, <2>3
    <2>5. ArgOf(stack[1]) = argument
        BY <2>4 DEF ArgOf
    <2>6. Frames
        BY <2>4 DEF Frames
    <2>. QED BY <1>7, <2>1, <2>2, <2>4, <2>5, <2>6 DEF FibRecInv
<1>. QED BY <1>5, <1>8, <1>10, <1>11, <1>12, <1>13, <1>14 DEF LoopInv

\* Registers set to numbers stay numbers.
LEMMA RegistersType ==
    ASSUME reg \in [Loops!Register -> Nat], NEW values, Loops!Set(values),
           \A r \in DOMAIN values : values[r] \in Int
    PROVE  reg' \in [Loops!Register -> Nat]
<1>1. reg' = [r \in Loops!Register |-> IF r \in DOMAIN values
                                       THEN Loops!Wrapped(values[r]) ELSE reg[r]]
    BY DEF Loops!Set
<1>2. ASSUME NEW r \in Loops!Register
      PROVE  (IF r \in DOMAIN values THEN Loops!Wrapped(values[r]) ELSE reg[r]) \in Nat
    BY WrappedType
<1>. QED BY <1>1, <1>2

\* The words of the loops depend on what does not change.
LEMMA SameWords ==
    ASSUME argument' = argument
    PROVE  Unsigned' = Unsigned /\ \A f : ArgOf(f)' = ArgOf(f)
BY DEF Unsigned, ArgOf

\* One number further.
LEMMA FibLoopStep == LoopInv /\ Loops!FibLoop => LoopInv'
<1>. SUFFICES ASSUME LoopInv, Loops!FibLoop PROVE LoopInv'
    OBVIOUS
<1>. DEFINE u == Unsigned  d == reg["rdi"]  f == FibTo(u)  a == f[u - d]  b == f[u - d + 1]
            values == [rdi |-> d - 1, rax |-> reg["r8"], r8 |-> reg["r8"] + reg["rax"]]
<1>1. /\ program = "fib_loop" /\ FibLoopInv /\ pc = "loop" /\ Loops!AsLong(d) > 0
      /\ argument \in Int /\ reg \in [Loops!Register -> Nat]
    BY DEF LoopInv, Loops!FibLoop
<1>2. /\ program' = program /\ argument' = argument /\ array' = array
      /\ pc' = pc /\ stack' = stack /\ Loops!Set(values)
    BY DEF Loops!FibLoop, Loops!Input
<1>3. /\ u \in Nat /\ u < IntSize /\ d \in 0 .. u /\ stack = << >>
      /\ reg["rax"] = Loops!Wrapped(a) /\ (d > 0 => reg["r8"] = Loops!Wrapped(b))
    BY <1>1, UnsignedSmall, Sizes DEF FibLoopInv
<1>. HIDE DEF u, a, b, f
<1>4. d > 0
    <2>1. d \in -HalfLong .. HalfLong - 1
        BY <1>3, Sizes
    <2>. QED BY <1>1, <2>1, LongValue
<1>5. /\ reg'["rdi"] = Loops!Wrapped(d - 1) /\ reg'["rax"] = Loops!Wrapped(reg["r8"])
      /\ reg'["r8"] = Loops!Wrapped(reg["r8"] + reg["rax"])
    BY <1>2, RegistersSet DEF Loops!Register
<1>6. reg["r8"] \in Nat /\ reg["rax"] \in Nat /\ d \in Nat
    BY <1>1 DEF Loops!Register
<1>7. reg' \in [Loops!Register -> Nat]
    BY <1>1, <1>2, <1>6, RegistersType
<1>8. reg'["rdi"] = d - 1
    <2>1. d - 1 \in 0 .. LongSize - 1
        BY <1>3, <1>4, Sizes
    <2>. QED BY <1>5, <2>1, WrappedSmall
<1>9. /\ \A k \in 0 .. u : f[k] \in Nat
      /\ \A k \in 0 .. u : f[k] = IF k < 2 THEN k ELSE f[k - 1] + f[k - 2]
    BY <1>3, FibonacciIs, FibsAreNumbers DEF f
<1>10. /\ u - d \in 0 .. u /\ u - d + 1 \in 0 .. u /\ u - (d - 1) = u - d + 1
       /\ u - (d - 1) + 1 = u - d + 2
    BY <1>3, <1>4
<1>11. a \in Nat /\ b \in Nat
    BY <1>9, <1>10 DEF a, b
<1>12. reg'["rax"] = Loops!Wrapped(b)
    <2>1. Loops!Wrapped(b + 0) = Loops!Wrapped(Loops!Wrapped(b) + 0)
        BY <1>11, WrappedSum
    <2>2. b + 0 = b /\ Loops!Wrapped(b) + 0 = Loops!Wrapped(b)
        BY <1>11, WrappedType
    <2>. QED BY <1>3, <1>4, <1>5, <2>1, <2>2
<1>13. reg'["r8"] = Loops!Wrapped(b + a)
    <2>1. Loops!Wrapped(Loops!Wrapped(b) + Loops!Wrapped(a)) = Loops!Wrapped(b + a)
        BY <1>11, WrappedSum
    <2>2. reg["r8"] = Loops!Wrapped(b) /\ reg["rax"] = Loops!Wrapped(a)
        BY <1>3, <1>4
    <2>. HIDE DEF values
    <2>. QED BY <1>5, <2>1, <2>2
<1>14. d - 1 > 0 => f[u - (d - 1) + 1] = b + a
    <2>. SUFFICES ASSUME d - 1 > 0 PROVE f[u - (d - 1) + 1] = b + a
        OBVIOUS
    <2>1. u - d + 2 \in 0 .. u /\ ~(u - d + 2 < 2) /\ (u - d + 2) - 1 = u - d + 1
          /\ (u - d + 2) - 2 = u - d
        BY <1>3
    <2>2. f[u - d + 2] = f[(u - d + 2) - 1] + f[(u - d + 2) - 2]
        BY <1>9, <2>1
    <2>. QED BY <1>10, <2>1, <2>2 DEF a, b
<1>15. Unsigned' = u
    BY <1>2, SameWords DEF u
<1>16. FibLoopInv'
    <2>1. pc' = "loop" /\ stack' = << >>
        BY <1>1, <1>2, <1>3
    <2>2. reg'["rdi"] \in 0 .. u
        BY <1>3, <1>4, <1>8
    <2>3. reg'["rax"] = Loops!Wrapped(FibTo(u)[u - reg'["rdi"]])
        BY <1>8, <1>10, <1>12 DEF b, f
    <2>4. reg'["rdi"] > 0 => reg'["r8"] = Loops!Wrapped(FibTo(u)[u - reg'["rdi"] + 1])
        BY <1>8, <1>13, <1>14 DEF f
    <2>. QED BY <1>15, <2>1, <2>2, <2>3, <2>4
         DEF FibLoopInv, Loops!Wrapped, Loops!Values, FibTo, Fibs
<1>. QED BY <1>1, <1>2, <1>7, <1>16 DEF LoopInv

\* The loop ends at rdi = 0.
LEMMA FibExitStep == LoopInv /\ Loops!FibExit => LoopInv'
<1>. SUFFICES ASSUME LoopInv, Loops!FibExit PROVE LoopInv'
    OBVIOUS
<1>1. /\ program = "fib_loop" /\ FibLoopInv /\ Loops!AsLong(reg["rdi"]) <= 0
      /\ argument \in Int /\ reg \in [Loops!Register -> Nat]
    BY DEF LoopInv, Loops!FibExit
<1>2. /\ program' = program /\ argument' = argument /\ array' = array
      /\ pc' = "ret" /\ UNCHANGED <<reg, stack>>
    BY DEF Loops!FibExit, Loops!Input
<1>3. reg["rdi"] = 0
    <2>1. reg["rdi"] \in 0 .. Unsigned /\ Unsigned \in 0 .. IntSize - 1
        BY <1>1, UnsignedSmall DEF FibLoopInv
    <2>2. reg["rdi"] \in -HalfLong .. HalfLong - 1 /\ reg["rdi"] \in Nat
        BY <2>1, Sizes
    <2>. QED BY <1>1, <2>2, LongValue
<1>4. Unsigned' = Unsigned
    BY <1>2, SameWords
<1>5. FibLoopInv'
    BY <1>1, <1>2, <1>3, <1>4 DEF FibLoopInv, Loops!Wrapped, Loops!Values, FibTo, Fibs
<1>. QED BY <1>1, <1>2, <1>5 DEF LoopInv

\* One number further.
LEMMA SumUpStep == LoopInv /\ Loops!SumUp => LoopInv'
<1>. SUFFICES ASSUME LoopInv, Loops!SumUp PROVE LoopInv'
    OBVIOUS
<1>. DEFINE u == Unsigned  j == reg["x2"]  t == (j * (j + 1)) \div 2
            values == [x2 |-> j + 1, x0 |-> reg["x0"] + j + 1]
<1>1. /\ program = "sum_n" /\ SumNInv /\ pc = "loop"
      /\ argument \in Int /\ reg \in [Loops!Register -> Nat]
    BY DEF LoopInv, Loops!SumUp
<1>2. /\ program' = program /\ argument' = argument /\ array' = array
      /\ stack' = stack /\ Loops!Set(values)
      /\ pc' = IF Loops!AsLong(j + 1) < Loops!AsLong(reg["x1"]) THEN "loop" ELSE "ret"
    BY DEF Loops!SumUp, Loops!Input
<1>3. /\ u \in Nat /\ u < IntSize /\ stack = << >> /\ reg["x1"] = u
      /\ reg["x0"] = Loops!Wrapped(t) /\ (j = 0 \/ j < u)
    BY <1>1, UnsignedSmall, Sizes DEF SumNInv
<1>4. reg["x0"] \in Nat /\ j \in Nat
    BY <1>1 DEF Loops!Register
<1>5. t \in Nat /\ ((j + 1) * ((j + 1) + 1)) \div 2 = t + (j + 1)
    BY <1>4, Triangle
<1>. HIDE DEF u, t
<1>6. reg' \in [Loops!Register -> Nat]
    BY <1>1, <1>2, <1>4, RegistersType
<1>7. /\ reg'["x2"] = Loops!Wrapped(j + 1) /\ reg'["x0"] = Loops!Wrapped(reg["x0"] + j + 1)
      /\ reg'["x1"] = reg["x1"]
    BY <1>2, RegistersSet DEF Loops!Register
<1>8. reg'["x2"] = j + 1
    <2>1. j + 1 \in 0 .. LongSize - 1
        BY <1>3, <1>4, Sizes
    <2>. QED BY <1>7, <2>1, WrappedSmall
<1>9. reg'["x0"] = Loops!Wrapped(t + (j + 1))
    <2>1. Loops!Wrapped(Loops!Wrapped(t) + (j + 1)) = Loops!Wrapped(t + (j + 1))
        <3>1. t \in Int /\ j + 1 \in Int
            BY <1>4, <1>5
        <3>. HIDE DEF j
        <3>. QED BY <3>1, WrappedSum
    <2>2. reg["x0"] + j + 1 = Loops!Wrapped(t) + (j + 1)
        BY <1>3, <1>4
    <2>. QED BY <1>7, <2>1, <2>2
<1>10. Loops!AsLong(j + 1) = j + 1 /\ Loops!AsLong(reg["x1"]) = u
    <2>1. j + 1 \in -HalfLong .. HalfLong - 1 /\ u \in -HalfLong .. HalfLong - 1
        BY <1>3, <1>4, Sizes
    <2>. QED BY <1>3, <2>1, LongValue
<1>11. Unsigned' = u
    BY <1>2, SameWords DEF u
<1>12. SumNInv'
    <2>1. pc' \in {"loop", "ret"} /\ stack' = << >> /\ reg'["x1"] = u
        BY <1>2, <1>3, <1>7
    <2>2. reg'["x0"] = Loops!Wrapped((reg'["x2"] * (reg'["x2"] + 1)) \div 2)
        BY <1>5, <1>8, <1>9
    <2>3. pc' = "loop" => reg'["x2"] < u
        BY <1>2, <1>8, <1>10
    <2>4. pc' = "ret" => reg'["x2"] = IF u = 0 THEN 1 ELSE u
        BY <1>2, <1>3, <1>4, <1>8, <1>10
    <2>. HIDE DEF values
    <2>. QED BY <1>11, <2>1, <2>2, <2>3, <2>4 DEF SumNInv, Loops!Wrapped, Loops!Values
<1>. QED BY <1>1, <1>2, <1>6, <1>12 DEF LoopInv

\* One element further.
LEMMA SumOneStep ==
    ASSUME LoopInv, NEW here, NEW there, NEW sign, Loops!SumOne(here, there, sign),
           \/ here = "add" /\ there = "sub" /\ sign = 1
           \/ here = "sub" /\ there = "add" /\ sign = -1
    PROVE  LoopInv'
<1>. DEFINE j == reg["rsi"]  d == reg["rdi"]  f == SumTo(array)  e == array[j + 1]
            values == [rax |-> reg["rax"] + sign * e, rsi |-> j + 1, rdi |-> d - 1]
<1>1. /\ program = "my_sum" /\ MySumInv /\ pc = here /\ Loops!AsInt(d) > 0
      /\ argument \in Int /\ reg \in [Loops!Register -> Nat]
    BY DEF LoopInv, Loops!SumOne
<1>2. /\ program' = program /\ argument' = argument /\ array' = array
      /\ pc' = there /\ stack' = stack /\ Loops!Set(values)
    BY DEF Loops!SumOne, Loops!Input
<1>3. /\ argument \in -1 .. HalfInt - 1 /\ stack = << >>
      /\ array \in Seq({1, 3}) /\ Len(array) = IF argument > 0 THEN argument ELSE 0
      /\ j \in 0 .. Len(array) /\ d = Unsigned - j
      /\ reg["rax"] = Loops!Wrapped(f[j])
      /\ (pc = "add" => j % 2 = 0) /\ (pc = "sub" => j % 2 = 1)
    BY <1>1 DEF MySumInv
<1>4. /\ IntSize \in Nat /\ HalfInt \in Nat /\ HalfInt > 1 /\ IntSize = 2 * HalfInt
      /\ LongSize \in Nat /\ HalfLong \in Nat /\ LongSize = 2 * HalfLong
      /\ HalfLong >= 2 * IntSize
    BY Sizes
<1>5. argument > 0 /\ d = argument - j /\ Len(array) = argument /\ j < argument
    <2>1. CASE argument > 0
        <3>1. Unsigned = argument
            BY <1>3, <1>4, <2>1, UnsignedSmall
        <3>2. d \in -HalfInt .. HalfInt - 1
            BY <1>3, <1>4, <2>1, <3>1
        <3>3. d > 0
            BY <1>1, <3>2, IntValue
        <3>. QED BY <1>3, <2>1, <3>1, <3>3
    <2>2. CASE ~(argument > 0)
        <3>1. j = 0 /\ d = argument % IntSize /\ argument \in -HalfInt .. HalfInt - 1
            BY <1>3, <1>4, <1>1, <2>2, UnsignedSmall DEF Unsigned
        <3>2. Loops!AsInt(d) = argument
            BY <3>1, IntValue
        <3>. QED BY <1>1, <1>3, <2>2, <3>2
    <2>. QED BY <2>1, <2>2
<1>6. e \in {1, 3} /\ j \in Nat /\ d \in Nat /\ reg["rax"] \in Nat /\ j + 1 \in 1 .. Len(array)
    <2>1. j + 1 \in 1 .. Len(array)
        BY <1>3, <1>5
    <2>. QED BY <1>1, <1>3, <2>1 DEF Loops!Register
<1>7. f[j] \in Int /\ f[j + 1] = f[j] + sign * e
    <2>1. Len(array) \in Nat /\ \A k \in 1 .. Len(array) : array[k] \in Int
        BY <1>3, <1>5
    <2>2. Sums(f, array, Len(array))
        BY <2>1, AlternatingIs
    <2>. HIDE DEF f
    <2>3. \A k \in 0 .. Len(array) :
             /\ f[k] \in Int
             /\ f[k] = IF k = 0 THEN 0
                       ELSE IF k % 2 = 1 THEN f[k - 1] + array[k] ELSE f[k - 1] - array[k]
        BY <2>1, <2>2, SumsAreNumbers
    <2>4. j + 1 \in 0 .. Len(array) /\ j + 1 # 0 /\ (j + 1) - 1 = j
        BY <1>6
    <2>5. f[j + 1] = IF (j + 1) % 2 = 1 THEN f[j] + e ELSE f[j] - e
        BY <2>3, <2>4
    <2>6. f[j] \in Int
        BY <1>3, <2>3
    <2>7. (j % 2 = 0 => (j + 1) % 2 = 1) /\ (j % 2 = 1 => (j + 1) % 2 = 0)
        BY <1>6
    <2>8. (pc = "add" => sign * e = e) /\ (pc = "sub" => sign * e = -e)
        BY <1>1, <1>6
    <2>9. (pc = "add" /\ j % 2 = 0) \/ (pc = "sub" /\ j % 2 = 1)
        BY <1>1, <1>3
    <2>. HIDE DEF e
    <2>. QED BY <1>6, <2>5, <2>6, <2>7, <2>8, <2>9
<1>8. sign * e \in Int
    BY <1>6
<1>. HIDE DEF e, f
<1>9. /\ reg'["rax"] = Loops!Wrapped(reg["rax"] + sign * e)
      /\ reg'["rsi"] = Loops!Wrapped(j + 1) /\ reg'["rdi"] = Loops!Wrapped(d - 1)
    BY <1>2, RegistersSet DEF Loops!Register
<1>10. reg' \in [Loops!Register -> Nat]
    BY <1>1, <1>2, <1>6, <1>8, RegistersType
<1>11. reg'["rsi"] = j + 1 /\ reg'["rdi"] = d - 1
    <2>1. j + 1 \in 0 .. LongSize - 1 /\ d - 1 \in 0 .. LongSize - 1
        BY <1>3, <1>4, <1>5, <1>6
    <2>. QED BY <1>9, <2>1, WrappedSmall
<1>12. reg'["rax"] = Loops!Wrapped(f[j + 1])
    <2>1. Loops!Wrapped(Loops!Wrapped(f[j]) + sign * e) = Loops!Wrapped(f[j] + sign * e)
        BY <1>7, <1>8, WrappedSum
    <2>. QED BY <1>3, <1>7, <1>9, <2>1
<1>13. Unsigned' = Unsigned
    BY <1>2, SameWords
<1>14. (there = "add" => (j + 1) % 2 = 0) /\ (there = "sub" => (j + 1) % 2 = 1)
    <2>1. (j % 2 = 0 => (j + 1) % 2 = 1) /\ (j % 2 = 1 => (j + 1) % 2 = 0)
        BY <1>6
    <2>. QED BY <1>1, <1>3, <2>1
<1>15. MySumInv'
    <2>1. /\ pc' \in {"add", "sub"} /\ stack' = << >>
          /\ (pc' = "add" => reg'["rsi"] % 2 = 0) /\ (pc' = "sub" => reg'["rsi"] % 2 = 1)
        BY <1>2, <1>3, <1>11, <1>14
    <2>2. reg'["rsi"] \in 0 .. Len(array) /\ reg'["rdi"] = Unsigned - reg'["rsi"]
        BY <1>1, <1>3, <1>6, <1>11, UnsignedSmall
    <2>3. reg'["rax"] = Loops!Wrapped(SumTo(array)[reg'["rsi"]])
        BY <1>11, <1>12 DEF f
    <2>. HIDE DEF values
    <2>. QED BY <1>2, <1>3, <1>13, <2>1, <2>2, <2>3
         DEF MySumInv, Loops!Wrapped, Loops!Values, SumTo, Sums
<1>. QED BY <1>1, <1>2, <1>10, <1>15 DEF LoopInv

\* The sum ends with the array.
LEMMA SumReturnsStep == LoopInv /\ Loops!SumReturns => LoopInv'
<1>. SUFFICES ASSUME LoopInv, Loops!SumReturns PROVE LoopInv'
    OBVIOUS
<1>. DEFINE j == reg["rsi"]  d == reg["rdi"]
<1>1. /\ program = "my_sum" /\ MySumInv /\ Loops!AsInt(d) <= 0
      /\ argument \in Int /\ reg \in [Loops!Register -> Nat]
    BY DEF LoopInv, Loops!SumReturns
<1>2. /\ program' = program /\ argument' = argument /\ array' = array
      /\ pc' = "ret" /\ stack' = stack /\ reg' = reg
    BY DEF Loops!SumReturns, Loops!Input
<1>3. /\ argument \in -1 .. HalfInt - 1
      /\ Len(array) = IF argument > 0 THEN argument ELSE 0
      /\ j \in 0 .. Len(array) /\ d = Unsigned - j
    BY <1>1 DEF MySumInv
<1>4. IntSize \in Nat /\ HalfInt \in Nat /\ HalfInt > 1 /\ IntSize = 2 * HalfInt
    BY Sizes
<1>5. j = Len(array)
    <2>1. CASE argument > 0
        <3>1. Unsigned = argument
            BY <1>3, <1>4, <2>1, UnsignedSmall
        <3>2. d \in -HalfInt .. HalfInt - 1
            BY <1>3, <1>4, <2>1, <3>1
        <3>3. d <= 0
            BY <1>1, <3>2, IntValue
        <3>. QED BY <1>3, <2>1, <3>1, <3>3
    <2>2. CASE ~(argument > 0)
        BY <1>3, <2>2
    <2>. QED BY <2>1, <2>2
<1>6. Unsigned' = Unsigned
    BY <1>2, SameWords
<1>7. MySumInv'
    BY <1>1, <1>2, <1>5, <1>6 DEF MySumInv, Loops!Wrapped, Loops!Values, SumTo, Sums
<1>. QED BY <1>1, <1>2, <1>7 DEF LoopInv

\* Where the next block begins, whose alignment is that of what is left.
LEMMA NextBlock ==
    ASSUME LoopInv, program = "avx_sum", pc = "loop"
    PROVE  /\ AvxInv /\ reg \in [Loops!Register -> Nat] /\ argument \in Int
           /\ LANES \in Nat /\ LANES > 0 /\ LANES < HalfInt /\ HalfInt \in Nat
           /\ argument \in Nat /\ argument < HalfInt
           /\ \E d \in 0 .. argument :
                 /\ From(d) /\ reg["rdi"] = d /\ Loops!lower = d - LANES
                 /\ d = argument \/ (d > 0 /\ argument % LANES = 0 /\ d % LANES = 0)
                 /\ d = argument => R = << >>
                 /\ (d - LANES) % LANES = d % LANES
                 /\ d % LANES = 0 => d = 0 \/ d >= LANES
<1>1. AvxInv /\ reg \in [Loops!Register -> Nat] /\ argument \in Int
    BY DEF LoopInv
<1>2. /\ HalfInt \in Nat /\ IntSize = 2 * HalfInt /\ HalfLong \in Nat /\ HalfLong >= 2 * IntSize
    BY Sizes
<1>3. /\ LANES \in Nat /\ LANES > 0 /\ LANES < HalfInt
      /\ argument \in Nat /\ argument < HalfInt
    BY <1>1, <1>2, DataAssumption DEF AvxInv, HalfInt
<1>4. PICK d \in 0 .. argument :
          /\ From(d) /\ reg["rdi"] = d
          /\ d = argument \/ (d > 0 /\ argument % LANES = 0 /\ d % LANES = 0)
          /\ d = argument => R = << >>
    BY <1>1 DEF AvxInv
<1>5. d \in Nat /\ d - LANES \in -HalfLong .. HalfLong - 1
    BY <1>2, <1>3
<1>6. Loops!lower = d - LANES
    BY <1>4, <1>5, LongValue DEF Loops!lower
<1>7. (d - LANES) % LANES = d % LANES
    <2>. DEFINE low == d - LANES
    <2>1. low \in Int
        BY <1>3, <1>5
    <2>2. PICK one \in Int : one = 1
        OBVIOUS
    <2>3. (one * LANES) + low = d
        BY <1>3, <1>5, <2>2
    <2>. HIDE DEF low
    <2>4. ((one * LANES) + low) % LANES = low % LANES
        BY <1>3, <2>1, SameRest
    <2>5. low % LANES = d % LANES
        BY <2>3, <2>4
    <2>. QED BY <2>5 DEF low
<1>8. d % LANES = 0 => d = 0 \/ d >= LANES
    <2>1. ASSUME d < LANES PROVE d % LANES = d
        BY <1>3, <1>5, <2>1, SmallRest
    <2>. QED BY <1>3, <1>5, <2>1
<1>. QED BY <1>1, <1>2, <1>3, <1>4, <1>6, <1>7, <1>8

\* As many lanes below as one instruction takes.
LEMMA AddLanesStep == LoopInv /\ Loops!AddLanes => LoopInv'
<1>. SUFFICES ASSUME LoopInv, Loops!AddLanes PROVE LoopInv'
    OBVIOUS
<1>1. program = "avx_sum" /\ pc = "loop"
    BY DEF Loops!AddLanes
<1>2. /\ AvxInv /\ reg \in [Loops!Register -> Nat] /\ argument \in Int
      /\ LANES \in Nat /\ LANES > 0 /\ LANES < HalfInt /\ HalfInt \in Nat
      /\ argument \in Nat /\ argument < HalfInt
    BY <1>1, NextBlock
<1>3. PICK d \in 0 .. argument :
          /\ From(d) /\ reg["rdi"] = d /\ Loops!lower = d - LANES
          /\ d = argument \/ (d > 0 /\ argument % LANES = 0 /\ d % LANES = 0)
          /\ (d - LANES) % LANES = d % LANES
          /\ d % LANES = 0 => d = 0 \/ d >= LANES
    BY <1>1, NextBlock
<1>4. d \in Nat /\ d <= argument
    BY <1>2
<1>. DEFINE low == d - LANES  block == low .. low + LANES - 1
            values == [rdi |-> reg["rdi"] - LANES]
<1>5. /\ program' = program /\ argument' = argument /\ array' = array /\ stack' = stack
      /\ Loops!Set(values)
      /\ R' = [k \in DOMAIN R \cup block |->
                 IF k \in block THEN Loops!A(k) + Loops!B(k) ELSE R[k]]
      /\ pc' = IF low > 0 THEN "loop" ELSE "ret"
    BY <1>3 DEF Loops!AddLanes, Loops!Input
<1>6. low % LANES = 0
    BY <1>3 DEF Loops!AddLanes
<1>7. low \in Int /\ low + LANES = d /\ low + LANES - 1 = d - 1 /\ low <= d - 1
    BY <1>2, <1>4
<1>8. argument % LANES = 0 /\ d % LANES = 0
    BY <1>3, <1>6
<1>9. (d = 0 /\ argument = 0 /\ low = -LANES) \/ (low >= 0 /\ low < argument)
    BY <1>2, <1>3, <1>4, <1>8
<1>10. block = low .. d - 1
    BY <1>7
<1>. HIDE DEF low, block
<1>11. reg' \in [Loops!Register -> Nat]
    <2>1. reg["rdi"] - LANES \in Int
        BY <1>2, <1>3, <1>4
    <2>. QED BY <1>2, <1>5, <2>1, RegistersType
<1>12. low > 0 => reg'["rdi"] = low
    <2>. SUFFICES ASSUME low > 0 PROVE reg'["rdi"] = low
        OBVIOUS
    <2>1. low \in 0 .. LongSize - 1
        <3>1. /\ IntSize = 2 * HalfInt /\ HalfLong >= 2 * IntSize /\ LongSize = 2 * HalfLong
              /\ HalfLong \in Nat /\ LongSize \in Nat
            BY Sizes
        <3>. QED BY <1>2, <1>4, <1>7, <3>1
    <2>2. reg'["rdi"] = Loops!Wrapped(low)
        BY <1>3, <1>5, RegistersSet DEF Loops!Register, low
    <2>. QED BY <2>1, <2>2, WrappedSmall
<1>13. From(low)'
    <2>1. /\ DOMAIN R = d .. argument - 1
          /\ \A k \in d .. argument - 1 : R[k] = 3 * (k + 1)
        BY <1>3 DEF From
    <2>2. DOMAIN R' = (d .. argument - 1) \cup (low .. d - 1)
        BY <1>5, <1>10, <2>1
    <2>3. (d .. argument - 1) \cup (low .. d - 1) = low .. argument - 1
        BY <1>2, <1>4, <1>7
    <2>4. ASSUME NEW k \in low .. argument - 1 PROVE R'[k] = 3 * (k + 1)
        <3>1. CASE k \in block
            <4>1. R'[k] = Loops!A(k) + Loops!B(k)
                BY <1>5, <3>1
            <4>. QED BY <1>7, <4>1 DEF Loops!A, Loops!B
        <3>2. CASE k \notin block
            <4>1. k \in d .. argument - 1
                BY <1>4, <1>7, <1>10, <3>2
            <4>2. R'[k] = R[k]
                BY <1>5, <2>1, <3>2, <4>1
            <4>. QED BY <2>1, <4>1, <4>2
        <3>. QED BY <3>1, <3>2
    <2>5. low' = low
        BY <1>3, <1>5 DEF low
    <2>. QED BY <1>5, <2>2, <2>3, <2>4 DEF From
<1>14. AvxInv'
    <2>1. pc' \in {"loop", "ret"} /\ stack' = << >> /\ argument' \in 0 .. HalfInt' - 1
        BY <1>2, <1>5 DEF AvxInv, HalfInt
    <2>2. CASE low > 0
        <3>1. low \in 0 .. argument' /\ low # argument' /\ pc' = "loop"
            BY <1>2, <1>4, <1>5, <1>7, <2>2
        <3>. QED BY <1>5, <1>6, <1>8, <1>12, <1>13, <2>1, <2>2, <3>1 DEF AvxInv
    <2>3. CASE ~(low > 0)
        <3>1. pc' = "ret" /\ low = IF argument' = 0 THEN -LANES ELSE 0
            BY <1>2, <1>5, <1>7, <1>9, <2>3
        <3>. QED BY <1>5, <1>8, <1>13, <2>1, <3>1 DEF AvxInv
    <2>. QED BY <2>2, <2>3
<1>. QED BY <1>1, <1>2, <1>5, <1>11, <1>14 DEF LoopInv

\* A block out of line is loaded first or not at all.
LEMMA LoadFaultsStep == LoopInv /\ Loops!LoadFaults => LoopInv'
<1>. SUFFICES ASSUME LoopInv, Loops!LoadFaults PROVE LoopInv'
    OBVIOUS
<1>. DEFINE values == [rdi |-> reg["rdi"] - LANES]
<1>1. /\ program = "avx_sum" /\ pc = "loop" /\ Loops!lower % LANES # 0 /\ pc' = "fault"
      /\ Loops!Set(values) /\ UNCHANGED <<program, argument, array, stack, R>>
    BY DEF Loops!LoadFaults, Loops!Input
<1>2. /\ AvxInv /\ reg \in [Loops!Register -> Nat] /\ argument \in Int
      /\ LANES \in Nat /\ argument \in Nat
    BY <1>1, NextBlock
<1>3. PICK d \in 0 .. argument :
          /\ reg["rdi"] = d /\ Loops!lower = d - LANES
          /\ d = argument \/ d % LANES = 0
          /\ d = argument => R = << >>
          /\ (d - LANES) % LANES = d % LANES
    BY <1>1, NextBlock
<1>4. argument % LANES # 0 /\ R = << >>
    BY <1>1, <1>3
<1>5. reg' \in [Loops!Register -> Nat]
    <2>1. reg["rdi"] - LANES \in Int
        BY <1>2, <1>3
    <2>. QED BY <1>1, <1>2, <2>1, RegistersType
<1>6. AvxInv'
    BY <1>1, <1>2, <1>4 DEF AvxInv, HalfInt
<1>. QED BY <1>1, <1>2, <1>5, <1>6 DEF LoopInv

\* Each number is made of the two before.
LEMMA FibOfSum ==
    ASSUME argument \in Nat, NEW m \in 0 .. argument
    PROVE  /\ FibOf(m) \in Nat
           /\ m <= 2 => FibOf(m) = IF m = 2 THEN 1 ELSE 0
           /\ m > 2 => FibOf(m) = FibOf(m - 1) + FibOf(m - 2)
<1>1. CASE m < 1
    BY <1>1 DEF FibOf
<1>2. CASE m >= 1
    <2>. DEFINE l == argument - 1  f == FibTo(l)
    <2>1. l \in Nat /\ m - 1 \in 0 .. l
        BY <1>2
    <2>2. Fibs(f, l)
        BY <2>1, FibonacciIs
    <2>. HIDE DEF f
    <2>3. /\ \A k \in 0 .. l : f[k] \in Nat
          /\ \A k \in 0 .. l : f[k] = IF k < 2 THEN k ELSE f[k - 1] + f[k - 2]
        BY <2>1, <2>2, FibsAreNumbers
    <2>4. FibOf(m) = f[m - 1] /\ (m > 2 => FibOf(m - 1) = f[m - 2] /\ FibOf(m - 2) = f[m - 3])
        BY <1>2 DEF FibOf, f
    <2>5. m > 2 => f[m - 1] = f[m - 2] + f[m - 3]
        <3>. SUFFICES ASSUME m > 2 PROVE f[m - 1] = f[m - 2] + f[m - 3]
            OBVIOUS
        <3>1. ~(m - 1 < 2) /\ (m - 1) - 1 = m - 2 /\ (m - 1) - 2 = m - 3
            OBVIOUS
        <3>. QED BY <2>1, <2>3, <3>1
    <2>6. m <= 2 => f[m - 1] = m - 1
        BY <1>2, <2>1, <2>3
    <2>7. f[m - 1] \in Nat
        BY <2>1, <2>3
    <2>. QED BY <1>2, <2>4, <2>5, <2>6, <2>7
<1>. QED BY <1>1, <1>2

\* The last frame, where there is one, and what a frame may hold.
LEMMA LastFrame ==
    ASSUME argument \in 0 .. HalfInt - 1, Frames
    PROVE  LET l == Len(stack)  last == stack[l]  m == ArgOf(last)
           IN  /\ l \in Nat \ {0} /\ last \in Frame /\ Loops!Last(stack) = last
               /\ m \in 0 .. argument /\ argument \in Nat
               /\ m \in -HalfLong .. HalfLong - 1 /\ m \in 0 .. LongSize - 1
               /\ IF l = 1 THEN last = <<"caller", 1, 2>>
                  ELSE /\ last[1] \in {"first", "second"}
                       /\ last[2] \in 2 .. argument - 1
                       /\ last[2] + 1 = ArgOf(stack[l - 1])
                       /\ last[1] = "second" => last[3] = Loops!Wrapped(FibOf(last[2]))
<1>. DEFINE l == Len(stack)  last == stack[l]  m == ArgOf(last)
<1>1. l \in Nat \ {0} /\ last \in Frame /\ Loops!Last(stack) = last
    BY DEF Frames, Loops!Last
<1>2. HalfInt \in Nat /\ IntSize = 2 * HalfInt /\ HalfLong >= 2 * IntSize
      /\ LongSize = 2 * HalfLong
      /\ HalfLong \in Nat /\ LongSize \in Nat
    BY Sizes
<1>3. CASE l = 1
    <2>1. last = <<"caller", 1, 2>>
        BY <1>3 DEF Frames
    <2>2. m = argument
        BY <2>1 DEF ArgOf
    <2>. HIDE DEF m, last
    <2>. QED BY <1>1, <1>2, <1>3, <2>1, <2>2 DEF m, last
<1>4. CASE l # 1
    <2>1. l \in 2 .. Len(stack)
        BY <1>1, <1>4
    <2>2. /\ last[1] # "caller" /\ last[2] \in 2 .. argument - 1
          /\ last[2] + 1 = ArgOf(stack[l - 1])
          /\ last[1] = "second" => last[3] = Loops!Wrapped(FibOf(last[2]))
        BY <2>1 DEF Frames
    <2>3. last[1] \in {"caller", "first", "second"}
        BY <1>1 DEF Frame
    <2>4. m = last[2] \/ m = last[2] - 1
        BY <2>2, <2>3 DEF ArgOf
    <2>5. m \in 0 .. argument /\ argument \in Nat
        BY <2>2, <2>4
    <2>. HIDE DEF m, last, l
    <2>6. m \in -HalfLong .. HalfLong - 1 /\ m \in 0 .. LongSize - 1
        BY <1>2, <2>5
    <2>. QED BY <1>1, <1>4, <2>2, <2>3, <2>5, <2>6 DEF m, last, l
<1>. QED BY <1>3, <1>4

\* The words of the recursion depend on what does not change.
LEMMA SameFib ==
    ASSUME argument' = argument
    PROVE  /\ \A m : FibOf(m)' = FibOf(m)
           /\ \A v : Loops!Wrapped(v)' = Loops!Wrapped(v)
           /\ \A f : ArgOf(f)' = ArgOf(f)
BY DEF FibOf, FibTo, Fibs, ArgOf, Loops!Wrapped, Loops!Values

\* All of a sequence but its last.
LEMMA FrontOf ==
    ASSUME NEW S, NEW q \in Seq(S), Len(q) > 0
    PROVE  LET front == SubSeq(q, 1, Len(q) - 1)
           IN  /\ front \in Seq(S) /\ Len(front) = Len(q) - 1
               /\ \A k \in 1 .. Len(q) - 1 : front[k] = q[k]
<1>. DEFINE n == Len(q) - 1  front == SubSeq(q, 1, n)
<1>1. n \in Nat /\ n <= Len(q)
    OBVIOUS
<1>2. front = [k \in 1 .. n |-> q[k]]
    BY <1>1
<1>3. \A k \in 1 .. n : q[k] \in S
    BY <1>1
<1>. HIDE DEF n, front
<1>4. front \in [1 .. n -> S]
    BY <1>2, <1>3
<1>5. front \in Seq(S) /\ Len(front) = n
    BY <1>1, <1>4, SeqDef
<1>. QED BY <1>2, <1>5 DEF front, n

\* What a change of the last frame, a new one or one less leaves of the others.
LEMMA FramesPushed ==
    ASSUME Frames, argument \in Nat, argument' = argument,
           NEW frame \in Frame, stack' = Append(stack, frame),
           frame[1] = "first", frame[2] \in 2 .. argument - 1,
           frame[2] + 1 = ArgOf(stack[Len(stack)])
    PROVE  Frames' /\ stack'[Len(stack')] = frame
<1>. DEFINE l == Len(stack)
<1>1. stack \in Seq(Frame) /\ l \in Nat \ {0} /\ stack[1] = <<"caller", 1, 2>>
    BY DEF Frames
<1>2. /\ stack' \in Seq(Frame) /\ Len(stack') = l + 1
      /\ \A k \in 1 .. l : stack'[k] = stack[k]
      /\ stack'[l + 1] = frame
    BY <1>1, AppendProperties
<1>3. ASSUME NEW k \in 2 .. l + 1
      PROVE  /\ stack'[k][1] # "caller" /\ stack'[k][2] \in 2 .. argument - 1
             /\ stack'[k][2] + 1 = ArgOf(stack'[k - 1])
             /\ stack'[k][1] = "second" => stack'[k][3] = Loops!Wrapped(FibOf(stack'[k][2]))
    <2>1. CASE k = l + 1
        <3>1. k - 1 = l /\ l \in 1 .. l
            BY <1>1, <2>1
        <3>2. stack'[k - 1] = stack[l] /\ stack'[k] = frame
            BY <1>2, <2>1, <3>1
        <3>. QED BY <3>2
    <2>2. CASE k # l + 1
        <3>1. k \in 2 .. Len(stack) /\ k \in 1 .. l /\ k - 1 \in 1 .. l
            BY <1>1, <2>2
        <3>2. stack'[k] = stack[k] /\ stack'[k - 1] = stack[k - 1]
            BY <1>2, <3>1
        <3>. HIDE DEF l
        <3>. QED BY <3>1, <3>2 DEF Frames
    <2>. QED BY <2>1, <2>2
<1>4. stack'[1] = <<"caller", 1, 2>>
    BY <1>1, <1>2
<1>. HIDE DEF l
<1>5. Frame' = Frame
    BY DEF Frame
<1>6. Frames'
    BY <1>1, <1>2, <1>3, <1>4, <1>5, SameFib DEF Frames
<1>. QED BY <1>2, <1>6

\* The frame of a second call takes the place of the first's.
LEMMA FramesSwapped ==
    ASSUME Frames, argument \in Nat, argument' = argument, Len(stack) # 1,
           NEW frame \in Frame, stack' = Append(Loops!Front(stack), frame),
           frame[1] = "second", frame[2] = stack[Len(stack)][2],
           frame[3] = Loops!Wrapped(FibOf(frame[2]))
    PROVE  Frames' /\ stack'[Len(stack')] = frame
<1>. DEFINE l == Len(stack)  front == Loops!Front(stack)
<1>1. stack \in Seq(Frame) /\ l \in Nat /\ l > 1 /\ stack[1] = <<"caller", 1, 2>>
    <2>1. stack \in Seq(Frame) /\ l > 0 /\ l # 1 /\ stack[1] = <<"caller", 1, 2>>
        BY DEF Frames
    <2>2. l \in Nat
        BY <2>1
    <2>. HIDE DEF l
    <2>3. l > 1
        BY <2>1, <2>2
    <2>. QED BY <2>1, <2>2, <2>3
<1>2. front \in Seq(Frame) /\ Len(front) = l - 1 /\ \A k \in 1 .. l - 1 : front[k] = stack[k]
    BY <1>1, FrontOf DEF Loops!Front
<1>. HIDE DEF front
<1>3. /\ stack' \in Seq(Frame) /\ Len(stack') = l
      /\ \A k \in 1 .. l - 1 : stack'[k] = stack[k]
      /\ stack'[l] = frame
    <2>1. stack' = Append(front, frame)
        BY DEF front
    <2>2. (l - 1) + 1 = l
        BY <1>1
    <2>. HIDE DEF l
    <2>. QED BY <1>2, <2>1, <2>2, AppendProperties
<1>4. ASSUME NEW k \in 2 .. l
      PROVE  /\ stack'[k][1] # "caller" /\ stack'[k][2] \in 2 .. argument - 1
             /\ stack'[k][2] + 1 = ArgOf(stack'[k - 1])
             /\ stack'[k][1] = "second" => stack'[k][3] = Loops!Wrapped(FibOf(stack'[k][2]))
    <2>1. k \in 2 .. Len(stack) /\ k - 1 \in 1 .. l - 1
        BY <1>1
    <2>2. stack'[k - 1] = stack[k - 1]
        BY <1>3, <2>1
    <2>3. /\ stack[k][1] # "caller" /\ stack[k][2] \in 2 .. argument - 1
          /\ stack[k][2] + 1 = ArgOf(stack[k - 1])
          /\ stack[k][1] = "second" => stack[k][3] = Loops!Wrapped(FibOf(stack[k][2]))
        BY <2>1 DEF Frames
    <2>4. CASE k = l
        BY <1>3, <2>2, <2>3, <2>4
    <2>5. CASE k # l
        <3>1. k \in 1 .. l - 1
            BY <1>1, <2>5
        <3>2. stack'[k] = stack[k]
            BY <1>3, <3>1
        <3>. QED BY <2>2, <2>3, <3>2
    <2>. QED BY <2>4, <2>5
<1>5. stack'[1] = <<"caller", 1, 2>>
    <2>1. 1 \in 1 .. l - 1
        BY <1>1
    <2>. QED BY <1>1, <1>3, <2>1
<1>. HIDE DEF l
<1>6. Frame' = Frame
    BY DEF Frame
<1>7. Frames'
    <2>1. \A k \in 2 .. Len(stack') :
             /\ stack'[k][1] # "caller" /\ stack'[k][2] \in 2 .. argument - 1
             /\ stack'[k][2] + 1 = ArgOf(stack'[k - 1])
             /\ stack'[k][1] = "second" => stack'[k][3] = Loops!Wrapped(FibOf(stack'[k][2]))
        BY <1>3, <1>4
    <2>2. stack' \in Seq(Frame) /\ Len(stack') > 0
        BY <1>1, <1>3
    <2>. QED BY <1>5, <1>6, <2>1, <2>2, SameFib DEF Frames
<1>. QED BY <1>3, <1>7

\* A frame less.
LEMMA FramesPopped ==
    ASSUME Frames, argument \in Nat, argument' = argument, Len(stack) # 1,
           stack' = Loops!Front(stack)
    PROVE  Frames' /\ stack'[Len(stack')] = stack[Len(stack) - 1]
<1>. DEFINE l == Len(stack)
<1>1. stack \in Seq(Frame) /\ l \in Nat /\ l > 1 /\ stack[1] = <<"caller", 1, 2>>
    <2>1. stack \in Seq(Frame) /\ l > 0 /\ l # 1 /\ stack[1] = <<"caller", 1, 2>>
        BY DEF Frames
    <2>2. l \in Nat
        BY <2>1
    <2>. HIDE DEF l
    <2>3. l > 1
        BY <2>1, <2>2
    <2>. QED BY <2>1, <2>2, <2>3
<1>2. stack' \in Seq(Frame) /\ Len(stack') = l - 1 /\ \A k \in 1 .. l - 1 : stack'[k] = stack[k]
    BY <1>1, FrontOf DEF Loops!Front
<1>3. ASSUME NEW k \in 2 .. l - 1
      PROVE  /\ stack'[k][1] # "caller" /\ stack'[k][2] \in 2 .. argument - 1
             /\ stack'[k][2] + 1 = ArgOf(stack'[k - 1])
             /\ stack'[k][1] = "second" => stack'[k][3] = Loops!Wrapped(FibOf(stack'[k][2]))
    <2>1. k \in 2 .. Len(stack) /\ k - 1 \in 1 .. l - 1 /\ k \in 1 .. l - 1
        BY <1>1
    <2>2. stack'[k - 1] = stack[k - 1] /\ stack'[k] = stack[k]
        BY <1>2, <2>1
    <2>. HIDE DEF l
    <2>. QED BY <2>1, <2>2 DEF Frames
<1>4. stack'[1] = <<"caller", 1, 2>> /\ l - 1 > 0 /\ stack'[l - 1] = stack[l - 1]
    <2>1. 1 \in 1 .. l - 1 /\ l - 1 \in 1 .. l - 1 /\ l - 1 > 0
        BY <1>1
    <2>. QED BY <1>1, <1>2, <2>1
<1>. HIDE DEF l
<1>5. Frame' = Frame
    BY DEF Frame
<1>6. Frames'
    BY <1>1, <1>2, <1>3, <1>4, <1>5, SameFib DEF Frames
<1>. QED BY <1>2, <1>4, <1>6 DEF l

\* What a step of the recursion has to show.
LEMMA FibRecHolds ==
    ASSUME program = "fib_rec", program' = program, argument \in 0 .. HalfInt - 1,
           argument' = argument, reg' \in [Loops!Register -> Nat],
           pc' \in {"fib", "return", "ret"},
           pc' = "fib" => Frames' /\ reg'["rdi"] = ArgOf(stack'[Len(stack')]),
           pc' = "return" =>
              Frames' /\ reg'["rax"] = Loops!Wrapped(FibOf(ArgOf(stack'[Len(stack')]))),
           pc' = "ret" => /\ stack' = << >> /\ reg'["r12"] = 1 /\ reg'["r13"] = 2
                          /\ reg'["rax"] = Loops!Wrapped(FibOf(argument))
    PROVE  LoopInv'
<1>1. HalfInt' = HalfInt /\ argument \in Int
    BY DEF HalfInt
<1>2. FibRecInv'
    BY <1>1, SameFib DEF FibRecInv
<1>. QED BY <1>1, <1>2 DEF LoopInv

\* fib of m calls fib of m - 1.
LEMMA FirstCallStep == LoopInv /\ Loops!FirstCall => LoopInv'
<1>. SUFFICES ASSUME LoopInv, Loops!FirstCall PROVE LoopInv'
    OBVIOUS
<1>. DEFINE m == reg["rdi"]  values == [rdi |-> m - 1, r12 |-> m - 1]
            frame == <<"first", m - 1, reg["r13"]>>
<1>1. /\ program = "fib_rec" /\ pc = "fib" /\ FibRecInv /\ Loops!AsLong(m) > 2
      /\ reg \in [Loops!Register -> Nat]
    BY DEF LoopInv, Loops!FirstCall
<1>2. /\ program' = program /\ argument' = argument /\ pc' = pc /\ Loops!Set(values)
      /\ stack' = Append(stack, <<"first", reg'["r12"], reg["r13"]>>)
    BY DEF Loops!FirstCall, Loops!Input
<1>3. argument \in 0 .. HalfInt - 1 /\ Frames /\ m = ArgOf(stack[Len(stack)])
    BY <1>1 DEF FibRecInv
<1>4. /\ m \in 0 .. argument /\ argument \in Nat
      /\ m \in -HalfLong .. HalfLong - 1 /\ m \in 0 .. LongSize - 1
    BY <1>3, LastFrame
<1>5. m > 2
    BY <1>1, <1>4, LongValue
<1>6. reg["r13"] \in Nat
    BY <1>1 DEF Loops!Register
<1>7. reg' \in [Loops!Register -> Nat]
    BY <1>1, <1>2, <1>4, RegistersType
<1>8. reg'["rdi"] = m - 1 /\ reg'["r12"] = m - 1
    <2>1. reg'["rdi"] = Loops!Wrapped(m - 1) /\ reg'["r12"] = Loops!Wrapped(m - 1)
        BY <1>2, RegistersSet DEF Loops!Register
    <2>2. m - 1 \in 0 .. LongSize - 1
        BY <1>4, <1>5, Sizes
    <2>. QED BY <2>1, <2>2, WrappedSmall
<1>. HIDE DEF m
<1>9. /\ frame \in Frame /\ frame[1] = "first" /\ frame[2] \in 2 .. argument - 1
      /\ frame[2] + 1 = ArgOf(stack[Len(stack)]) /\ stack' = Append(stack, frame)
    BY <1>2, <1>3, <1>4, <1>5, <1>6, <1>8 DEF Frame
<1>10. ArgOf(frame) = m - 1
    BY DEF ArgOf
<1>. HIDE DEF frame
<1>11. Frames' /\ stack'[Len(stack')] = frame
    BY <1>2, <1>3, <1>4, <1>9, FramesPushed
<1>12. reg'["rdi"] = ArgOf(stack'[Len(stack')])
    BY <1>8, <1>10, <1>11
<1>. QED BY <1>1, <1>2, <1>3, <1>7, <1>11, <1>12, FibRecHolds

\* The small arguments.
LEMMA BaseStep == LoopInv /\ Loops!Base => LoopInv'
<1>. SUFFICES ASSUME LoopInv, Loops!Base PROVE LoopInv'
    OBVIOUS
<1>. DEFINE m == reg["rdi"]  one == IF Loops!AsLong(m) = 2 THEN 1 ELSE 0
            values == [rax |-> one]
<1>1. /\ program = "fib_rec" /\ pc = "fib" /\ FibRecInv /\ Loops!AsLong(m) <= 2
      /\ reg \in [Loops!Register -> Nat]
    BY DEF LoopInv, Loops!Base
<1>2. /\ program' = program /\ argument' = argument /\ pc' = "return" /\ Loops!Set(values)
      /\ stack' = stack
    BY DEF Loops!Base, Loops!Input
<1>3. argument \in 0 .. HalfInt - 1 /\ Frames /\ m = ArgOf(stack[Len(stack)])
    BY <1>1 DEF FibRecInv
<1>4. m \in 0 .. argument /\ argument \in Nat /\ m \in -HalfLong .. HalfLong - 1
    BY <1>3, LastFrame
<1>5. m <= 2 /\ one = IF m = 2 THEN 1 ELSE 0
    BY <1>1, <1>4, LongValue
<1>6. FibOf(m) = one
    BY <1>4, <1>5, FibOfSum
<1>7. reg' \in [Loops!Register -> Nat]
    BY <1>1, <1>2, <1>5, RegistersType
<1>8. reg'["rax"] = Loops!Wrapped(FibOf(ArgOf(stack'[Len(stack')])))
    <2>1. reg'["rax"] = Loops!Wrapped(one)
        BY <1>2, RegistersSet DEF Loops!Register
    <2>. HIDE DEF one, values
    <2>. QED BY <1>2, <1>3, <1>6, <2>1
<1>9. Frames'
    <2>1. Frame' = Frame
        BY DEF Frame
    <2>. QED BY <1>2, <1>3, <2>1, SameFib DEF Frames
<1>. HIDE DEF values
<1>. QED BY <1>1, <1>2, <1>3, <1>7, <1>8, <1>9, FibRecHolds

\* Behind its first call fib of a + 1 calls fib of a - 1.
LEMMA SecondCallStep == LoopInv /\ Loops!SecondCall => LoopInv'
<1>. SUFFICES ASSUME LoopInv, Loops!SecondCall PROVE LoopInv'
    OBVIOUS
<1>. DEFINE l == Len(stack)  last == stack[l]  a == last[2]  v == reg["rax"]
            values == [rdi |-> a - 1, r12 |-> a, r13 |-> v]
            frame == <<"second", a, v>>
<1>1. /\ program = "fib_rec" /\ pc = "return" /\ FibRecInv
      /\ reg \in [Loops!Register -> Nat]
    BY DEF LoopInv, Loops!SecondCall
<1>2. argument \in 0 .. HalfInt - 1 /\ Frames /\ v = Loops!Wrapped(FibOf(ArgOf(last)))
    BY <1>1 DEF FibRecInv
<1>3. Loops!Last(stack) = last
    BY <1>2, LastFrame
<1>4. /\ program' = program /\ argument' = argument /\ pc' = "fib" /\ Loops!Set(values)
      /\ stack' = Append(Loops!Front(stack), <<"second", reg'["r12"], reg'["r13"]>>)
      /\ last[1] = "first"
    BY <1>3 DEF Loops!SecondCall, Loops!Input
<1>5. Len(stack) # 1 /\ a \in 2 .. argument - 1 /\ argument \in Nat
    <2>1. l # 1
        BY <1>2, <1>4, LastFrame
    <2>. QED BY <1>2, <2>1, LastFrame
<1>6. ArgOf(last) = a
    BY <1>4 DEF ArgOf
<1>7. FibOf(a) \in Nat /\ v \in 0 .. LongSize - 1 /\ v \in Nat
    <2>1. a \in 0 .. argument
        BY <1>5
    <2>2. FibOf(a) \in Nat
        BY <1>5, <2>1, FibOfSum
    <2>. QED BY <1>2, <1>6, <2>2, WrappedType
<1>8. a \in 0 .. LongSize - 1 /\ a - 1 \in 0 .. LongSize - 1 /\ a \in Nat /\ a - 1 \in Int
    <2>1. HalfInt \in Nat /\ IntSize = 2 * HalfInt /\ HalfLong >= 2 * IntSize
          /\ LongSize = 2 * HalfLong /\ LongSize \in Nat /\ HalfLong \in Nat /\ IntSize \in Nat
        BY Sizes
    <2>2. argument \in 0 .. HalfInt - 1 /\ a \in 2 .. argument - 1
        BY <1>2, <1>5
    <2>. HIDE DEF a, v, last, l, values, frame
    <2>3. a \in Nat /\ a > 1 /\ a < LongSize
        BY <2>1, <2>2
    <2>. QED BY <2>1, <2>3
<1>. HIDE DEF a, v, last
<1>9. /\ reg'["rdi"] = a - 1 /\ reg'["r12"] = a /\ reg'["r13"] = v
    <2>1. /\ reg'["rdi"] = Loops!Wrapped(a - 1) /\ reg'["r12"] = Loops!Wrapped(a)
          /\ reg'["r13"] = Loops!Wrapped(v)
        BY <1>4, RegistersSet DEF Loops!Register
    <2>. QED BY <1>7, <1>8, <2>1, WrappedSmall
<1>10. reg' \in [Loops!Register -> Nat]
    BY <1>1, <1>4, <1>7, <1>8, RegistersType
<1>11. /\ frame \in Frame /\ frame[1] = "second" /\ frame[2] = stack[Len(stack)][2]
       /\ frame[3] = Loops!Wrapped(FibOf(frame[2]))
       /\ stack' = Append(Loops!Front(stack), frame)
    BY <1>2, <1>4, <1>6, <1>7, <1>8, <1>9 DEF Frame, a, last
<1>12. ArgOf(frame) = a - 1
    BY DEF ArgOf
<1>. HIDE DEF frame
<1>13. Frames' /\ stack'[Len(stack')] = frame
    BY <1>2, <1>4, <1>5, <1>11, FramesSwapped
<1>14. reg'["rdi"] = ArgOf(stack'[Len(stack')])
    BY <1>9, <1>12, <1>13
<1>. QED BY <1>1, <1>2, <1>4, <1>10, <1>13, <1>14, FibRecHolds

\* Behind its second call fib of a + 1 adds what the two have returned.
LEMMA AddBothStep == LoopInv /\ Loops!AddBoth => LoopInv'
<1>. SUFFICES ASSUME LoopInv, Loops!AddBoth PROVE LoopInv'
    OBVIOUS
<1>. DEFINE l == Len(stack)  last == stack[l]  a == last[2]  w == last[3]  v == reg["rax"]
            values == [rax |-> v + w, r12 |-> a, r13 |-> w]
<1>1. /\ program = "fib_rec" /\ pc = "return" /\ FibRecInv
      /\ reg \in [Loops!Register -> Nat]
    BY DEF LoopInv, Loops!AddBoth
<1>2. argument \in 0 .. HalfInt - 1 /\ Frames /\ v = Loops!Wrapped(FibOf(ArgOf(last)))
    BY <1>1 DEF FibRecInv
<1>3. Loops!Last(stack) = last /\ last \in Frame
    BY <1>2, LastFrame
<1>4. /\ program' = program /\ argument' = argument /\ pc' = pc /\ Loops!Set(values)
      /\ stack' = Loops!Front(stack) /\ last[1] = "second"
    BY <1>3 DEF Loops!AddBoth, Loops!Input
<1>5. /\ Len(stack) # 1 /\ a \in 2 .. argument - 1 /\ argument \in Nat
      /\ a + 1 = ArgOf(stack[Len(stack) - 1]) /\ w = Loops!Wrapped(FibOf(a))
    <2>1. l # 1
        BY <1>2, <1>4, LastFrame
    <2>. QED BY <1>2, <1>4, <2>1, LastFrame
<1>6. ArgOf(last) = a - 1
    BY <1>4 DEF ArgOf
<1>7. v \in Nat /\ w \in Nat /\ a \in Nat
    BY <1>1, <1>3 DEF Frame, Loops!Register
<1>. HIDE DEF a, v, w, last
<1>8. FibOf(a) \in Nat /\ FibOf(a - 1) \in Nat /\ FibOf(a + 1) = FibOf(a) + FibOf(a - 1)
    <2>1. /\ a \in 0 .. argument /\ a - 1 \in 0 .. argument /\ a + 1 \in 0 .. argument
          /\ a + 1 > 2 /\ (a + 1) - 1 = a /\ (a + 1) - 2 = a - 1
        BY <1>5
    <2>2. FibOf(a) \in Nat /\ FibOf(a - 1) \in Nat
        BY <1>5, <2>1, FibOfSum
    <2>3. FibOf(a + 1) = FibOf((a + 1) - 1) + FibOf((a + 1) - 2)
        BY <1>5, <2>1, FibOfSum
    <2>. QED BY <2>1, <2>2, <2>3
<1>9. reg'["rax"] = Loops!Wrapped(FibOf(a + 1))
    <2>1. reg'["rax"] = Loops!Wrapped(v + w)
        BY <1>4, RegistersSet DEF Loops!Register
    <2>2. Loops!Wrapped(Loops!Wrapped(FibOf(a - 1)) + Loops!Wrapped(FibOf(a)))
             = Loops!Wrapped(FibOf(a - 1) + FibOf(a))
        BY <1>8, WrappedSum
    <2>3. FibOf(a - 1) + FibOf(a) = FibOf(a + 1)
        BY <1>8
    <2>. HIDE DEF values
    <2>. QED BY <1>2, <1>5, <1>6, <2>1, <2>2, <2>3
<1>10. reg' \in [Loops!Register -> Nat]
    BY <1>1, <1>4, <1>7, RegistersType
<1>11. Frames' /\ stack'[Len(stack')] = stack[Len(stack) - 1]
    BY <1>2, <1>4, <1>5, FramesPopped
<1>12. reg'["rax"] = Loops!Wrapped(FibOf(ArgOf(stack'[Len(stack')])))
    BY <1>5, <1>9, <1>11
<1>. HIDE DEF values
<1>. QED BY <1>1, <1>2, <1>4, <1>10, <1>11, <1>12, FibRecHolds

\* The first call of all returns.
LEMMA BackToCallerStep == LoopInv /\ Loops!BackToCaller => LoopInv'
<1>. SUFFICES ASSUME LoopInv, Loops!BackToCaller PROVE LoopInv'
    OBVIOUS
<1>. DEFINE l == Len(stack)  last == stack[l]
            values == [r12 |-> last[2], r13 |-> last[3]]
<1>1. /\ program = "fib_rec" /\ pc = "return" /\ FibRecInv
      /\ reg \in [Loops!Register -> Nat]
    BY DEF LoopInv, Loops!BackToCaller
<1>2. argument \in 0 .. HalfInt - 1 /\ Frames
      /\ reg["rax"] = Loops!Wrapped(FibOf(ArgOf(last)))
    BY <1>1 DEF FibRecInv
<1>3. Loops!Last(stack) = last /\ last \in Frame
    BY <1>2, LastFrame
<1>4. /\ program' = program /\ argument' = argument /\ pc' = "ret" /\ Loops!Set(values)
      /\ stack' = << >> /\ last[1] = "caller"
    BY <1>3 DEF Loops!BackToCaller, Loops!Input
<1>5. l = 1
    BY <1>2, <1>4, LastFrame
<1>6. last = <<"caller", 1, 2>>
    BY <1>2, <1>5, LastFrame
<1>7. last[2] = 1 /\ last[3] = 2 /\ ArgOf(last) = argument
    BY <1>6 DEF ArgOf
<1>. HIDE DEF last
<1>8. reg'["r12"] = 1 /\ reg'["r13"] = 2 /\ reg'["rax"] = reg["rax"]
    <2>1. /\ reg'["r12"] = Loops!Wrapped(1) /\ reg'["r13"] = Loops!Wrapped(2)
          /\ reg'["rax"] = reg["rax"]
        BY <1>4, <1>7, RegistersSet DEF Loops!Register
    <2>2. 1 \in 0 .. LongSize - 1 /\ 2 \in 0 .. LongSize - 1
        BY Sizes
    <2>. QED BY <2>1, <2>2, WrappedSmall
<1>9. reg' \in [Loops!Register -> Nat]
    BY <1>1, <1>4, <1>7, RegistersType
<1>10. reg'["rax"] = Loops!Wrapped(FibOf(argument))
    BY <1>2, <1>7, <1>8
<1>. HIDE DEF values
<1>. QED BY <1>1, <1>2, <1>4, <1>8, <1>9, <1>10, FibRecHolds

\* No step breaks it.
LEMMA LoopInductive == LoopInv /\ [Loops!Next]_(Loops!vars) => LoopInv'
<1>. SUFFICES ASSUME LoopInv, [Loops!Next]_(Loops!vars) PROVE LoopInv'
    OBVIOUS
<1>1. CASE UNCHANGED Loops!vars
    <2>1. UNCHANGED <<program, argument, array, pc, reg, stack, R>>
        BY <1>1 DEF Loops!vars
    <2>2. FibLoopInv' = FibLoopInv
        BY <2>1 DEF FibLoopInv, Unsigned, IntSize, Loops!Wrapped, Loops!Values, FibTo, Fibs
    <2>3. SumNInv' = SumNInv
        BY <2>1 DEF SumNInv, Unsigned, IntSize, Loops!Wrapped, Loops!Values
    <2>4. MySumInv' = MySumInv
        BY <2>1 DEF MySumInv, Unsigned, IntSize, HalfInt, Loops!Wrapped, Loops!Values, SumTo, Sums
    <2>5. AvxInv' = AvxInv
        BY <2>1 DEF AvxInv, From, HalfInt
    <2>6. Frames' = Frames
        BY <2>1, SameFib DEF Frames, Frame
    <2>7. FibRecInv' = FibRecInv
        BY <2>1, <2>6, SameFib DEF FibRecInv, HalfInt
    <2>. QED BY <2>1, <2>2, <2>3, <2>4, <2>5, <2>7 DEF LoopInv
<1>2. CASE Loops!SumOne("add", "sub", 1)
    BY <1>2, SumOneStep
<1>3. CASE Loops!SumOne("sub", "add", -1)
    BY <1>3, SumOneStep
<1>. QED BY <1>1, <1>2, <1>3, FibLoopStep, FibExitStep, FirstCallStep, BaseStep, SecondCallStep,
            AddBothStep, BackToCallerStep, SumReturnsStep, AddLanesStep, LoadFaultsStep, SumUpStep
         DEF Loops!Next

\* It says what the loops are for.
LEMMA LoopKeeps == LoopInv /\ Computing => Loops!LoopsCompute
<1>. SUFFICES ASSUME LoopInv, Computing PROVE Loops!LoopsCompute
    OBVIOUS
<1>0. /\ IntSize \in Nat /\ IntSize > 0 /\ HalfInt \in Nat /\ HalfInt > 1
      /\ IntSize = 2 * HalfInt
    BY Sizes
<1>1. program \in {"fib_loop", "fib_rec", "my_sum", "avx_sum", "sum_n"}
    BY DataAssumption DEF Computing
<1>2. argument \in Int /\ argument % Loops!Values(WIDTH) = Unsigned
      /\ Unsigned \in 0 .. IntSize - 1 /\ Unsigned \in Nat
    BY <1>0, UnsignedSmall DEF LoopInv, Unsigned, Loops!Values, IntSize
<1>3. CASE program = "fib_loop"
    <2>1. FibLoopInv
        BY <1>3 DEF LoopInv
    <2>2. ASSUME pc = "ret" PROVE Loops!RightNumber
        <3>1. reg["rax"] = Loops!Wrapped(FibTo(Unsigned)[Unsigned])
            BY <1>2, <2>1, <2>2 DEF FibLoopInv
        <3>2. Loops!Fibonacci(Unsigned) = FibTo(Unsigned)[Unsigned]
            BY <1>2, FibonacciIs
        <3>3. FibTo(Unsigned)[Unsigned] \in Int
            BY <1>2, FibonacciIs, FibsAreNumbers
        <3>4. Loops!AsInt(reg["rax"]) = Loops!AsInt(Loops!Fibonacci(Unsigned))
            BY <3>1, <3>2, <3>3, IntOfWrapped
        <3>. QED BY <1>2, <1>3, <3>4 DEF Loops!RightNumber, Loops!Result
    <2>3. stack = << >> /\ pc # "fault"
        BY <2>1 DEF FibLoopInv
    <2>. QED BY <1>3, <2>2, <2>3 DEF Loops!LoopsCompute
<1>4. CASE program = "fib_rec"
    <2>1. FibRecInv
        BY <1>4 DEF LoopInv
    <2>2. ASSUME pc = "ret" PROVE Loops!RightNumber
        <3>1. reg["rax"] = Loops!Wrapped(FibOf(argument)) /\ argument \in 0 .. HalfInt - 1
            BY <2>1, <2>2 DEF FibRecInv
        <3>2. argument \in Nat /\ argument \in 0 .. argument
            BY <1>0, <3>1
        <3>3. FibOf(argument) \in Int
            BY <3>2, FibOfSum
        <3>4. Loops!AsInt(reg["rax"]) = Loops!AsInt(FibOf(argument))
            BY <3>1, <3>3, IntOfWrapped
        <3>5. argument = 0 => Loops!AsInt(FibOf(argument)) = 0
            <4>1. 0 \in -HalfInt .. HalfInt - 1
                BY <1>0
            <4>. QED BY <4>1, IntValue DEF FibOf
        <3>6. argument # 0 => FibOf(argument) = Loops!Fibonacci(argument - 1)
            BY <3>2, FibonacciIs DEF FibOf
        <3>. QED BY <1>4, <3>4, <3>5, <3>6 DEF Loops!RightNumber, Loops!Result
    <2>3. /\ pc = "ret" => stack = << >> /\ reg["r12"] = 1 /\ reg["r13"] = 2
          /\ pc # "fault"
        BY <2>1 DEF FibRecInv
    <2>. QED BY <1>4, <2>2, <2>3 DEF Loops!LoopsCompute
<1>5. CASE program = "my_sum"
    <2>1. MySumInv
        BY <1>5 DEF LoopInv
    <2>2. Len(array) \in Nat /\ \A k \in 1 .. Len(array) : array[k] \in Int
        BY <2>1 DEF MySumInv
    <2>3. ASSUME pc = "ret" PROVE Loops!RightNumber
        <3>1. reg["rax"] = Loops!Wrapped(SumTo(array)[Len(array)])
            BY <2>1, <2>3 DEF MySumInv
        <3>2. Loops!Alternating(array) = SumTo(array)[Len(array)]
            BY <2>2, AlternatingIs
        <3>3. SumTo(array)[Len(array)] \in Int
            <4>1. Sums(SumTo(array), array, Len(array)) /\ Len(array) \in 0 .. Len(array)
                BY <2>2, AlternatingIs
            <4>. QED BY <2>2, <4>1, SumsAreNumbers
        <3>4. Loops!AsInt(reg["rax"]) = Loops!AsInt(Loops!Alternating(array))
            BY <3>1, <3>2, <3>3, IntOfWrapped
        <3>. QED BY <1>5, <3>4 DEF Loops!RightNumber, Loops!Result
    <2>4. stack = << >> /\ reg["rsi"] <= Len(array) /\ pc # "fault"
        BY <2>1, <2>2 DEF MySumInv
    <2>. QED BY <1>5, <2>3, <2>4 DEF Loops!LoopsCompute
<1>6. CASE program = "sum_n"
    <2>1. SumNInv
        BY <1>6 DEF LoopInv
    <2>2. ASSUME pc = "ret" PROVE Loops!RightNumber
        <3>. DEFINE u == Unsigned  t == (u * (u + 1)) \div 2
        <3>1. /\ reg["x0"] = Loops!Wrapped((reg["x2"] * (reg["x2"] + 1)) \div 2)
              /\ reg["x2"] = IF u = 0 THEN 1 ELSE u
            BY <2>1, <2>2 DEF SumNInv
        <3>2. t \in Nat /\ (1 * (1 + 1)) \div 2 = 1
            BY <1>2, Triangle
        <3>3. CASE u = 0
            <4>1. reg["x0"] = Loops!Wrapped(1)
                BY <3>1, <3>2, <3>3
            <4>2. Loops!AsInt(reg["x0"]) = Loops!AsInt(1)
                BY <4>1, IntOfWrapped
            <4>3. 1 \in -HalfInt .. HalfInt - 1
                BY <1>0
            <4>4. Loops!AsInt(reg["x0"]) = 1
                BY <4>2, <4>3, IntValue
            <4>. QED BY <1>2, <1>6, <3>3, <4>4 DEF Loops!RightNumber, Loops!Result
        <3>4. CASE u # 0
            <4>1. reg["x0"] = Loops!Wrapped(t)
                BY <3>1, <3>4
            <4>2. Loops!AsInt(reg["x0"]) = Loops!AsInt(t)
                BY <3>2, <4>1, IntOfWrapped
            <4>. QED BY <1>2, <1>6, <3>4, <4>2 DEF Loops!RightNumber, Loops!Result
        <3>. QED BY <3>3, <3>4
    <2>3. stack = << >> /\ pc # "fault"
        BY <2>1 DEF SumNInv
    <2>. QED BY <1>6, <2>2, <2>3 DEF Loops!LoopsCompute
<1>7. CASE program = "avx_sum"
    <2>1. AvxInv
        BY <1>7 DEF LoopInv
    <2>2. stack = << >>
        BY <2>1 DEF AvxInv
    <2>3. ASSUME pc = "ret"
          PROVE  /\ Loops!RightNumber /\ argument % LANES = 0
                 /\ DOMAIN R = IF argument = 0 THEN -LANES .. -1 ELSE 0 .. argument - 1
        <3>. DEFINE low == IF argument = 0 THEN -LANES ELSE 0
        <3>1. argument % LANES = 0 /\ From(low) /\ argument \in Nat
            BY <1>0, <2>1, <2>3 DEF AvxInv
        <3>2. /\ DOMAIN R = low .. argument - 1
              /\ \A k \in low .. argument - 1 : R[k] = 3 * (k + 1)
            BY <3>1 DEF From
        <3>3. \A k \in 0 .. argument - 1 : R[k] = 3 * (k + 1)
            BY <3>1, <3>2
        <3>4. Loops!RightNumber
            BY <1>7, <3>3 DEF Loops!RightNumber
        <3>5. DOMAIN R = IF argument = 0 THEN -LANES .. -1 ELSE 0 .. argument - 1
            BY <3>1, <3>2
        <3>. QED BY <3>1, <3>4, <3>5
    <2>4. pc = "fault" => argument % LANES # 0 /\ R = << >>
        BY <2>1 DEF AvxInv
    <2>. QED BY <1>7, <2>2, <2>3, <2>4 DEF Loops!LoopsCompute
<1>. QED BY <1>1, <1>3, <1>4, <1>5, <1>6, <1>7

-----------------------------------------------------------------------------
(* The programs together *)

\* Whichever program runs keeps its invariant.
DataInv ==
    /\ Buffering => WriterInv
    /\ Copying => CopyInv
    /\ Echoing => UdpInv
    /\ Mounting => TreeInv
    /\ Computing => LoopInv
    /\ Measuring => BenchInv

\* No step starts another program.
LEMMA ProgramStays == DataNext => program' = program
<1>1. Next => program' = program
    BY DEF Next, Keep, Fill, Write, GiveUp, EndOfInput
<1>2. Copy!Next => program' = program
    BY DEF Copy!Next, Copy!Read, Copy!ReadZero, Copy!Write, Copy!ReadError,
           Copy!WriteError, Copy!PrintBuffer
<1>3. Udp!Next => program' = program
    BY DEF Udp!Next, Udp!Client, Udp!Server, Udp!Send, Udp!Receive, Udp!EndClient,
           Udp!Echo, Udp!EmptyEnds, Udp!Lose, Udp!Repeat, Udp!SendEmpty
<1>4. Tree!Next => program' = program
    BY DEF Tree!Next, Tree!BuildTree, Tree!Enter, Tree!ReadPiece
<1>5. Loops!Next => program' = program
    BY DEF Loops!Next, Loops!FibLoop, Loops!FibExit, Loops!FirstCall, Loops!Base,
           Loops!SecondCall, Loops!AddBoth, Loops!BackToCaller, Loops!SumOne,
           Loops!SumReturns, Loops!AddLanes, Loops!LoadFaults, Loops!SumUp, Loops!Input
<1>6. Bench!Next => program' = program
    BY DEF Bench!Next, Bench!Measure, Bench!Report, Bench!Link, Bench!Follow,
           Bench!Multiply
<1>. QED
    BY <1>1, <1>2, <1>3, <1>4, <1>5, <1>6 DEF DataNext

\* The invariant holds at the start.
LEMMA DataBegins == DataInit => DataInv
<1>. SUFFICES ASSUME DataInit PROVE DataInv
    OBVIOUS
<1>. USE DataAssumption DEF Buffering, Copying, Echoing, Mounting, Computing, Measuring
<1>1. CASE Init
    BY <1>1, WriterBegins DEF Init, DataInv
<1>2. CASE Copy!Init
    BY <1>2, CopyBegins DEF Copy!Init, DataInv
<1>3. CASE Udp!Init
    BY <1>3, UdpBegins DEF Udp!Init, DataInv
<1>4. CASE Tree!Init
    BY <1>4, TreeBegins DEF Tree!Init, DataInv
<1>5. CASE Loops!Init
    BY <1>5, LoopBegins DEF Loops!Init, DataInv
<1>6. CASE Bench!Init
    BY <1>6, BenchBegins DEF Bench!Init, DataInv
<1>. QED
    BY <1>1, <1>2, <1>3, <1>4, <1>5, <1>6 DEF DataInit

\* Each step keeps the invariant.
LEMMA DataInductive == DataInv /\ [DataNext]_allVars => DataInv'
<1>. SUFFICES ASSUME DataInv, [DataNext]_allVars PROVE DataInv'
    OBVIOUS
<1>0. program' = program
    BY ProgramStays DEF allVars
<1>1. Buffering => [Next]_vars
    BY DataAssumption DEF DataNext, allVars, vars, fileVars, writerVars,
       Buffering, Copying, Echoing, Mounting, Computing, Measuring
<1>2. Copying => [Copy!Next]_(Copy!vars)
    BY DataAssumption DEF DataNext, allVars, Copy!vars, fileVars, copyVars,
       Buffering, Copying, Echoing, Mounting, Computing, Measuring
<1>3. Echoing => [Udp!Next]_(Udp!vars)
    BY DataAssumption DEF DataNext, allVars, Udp!vars, udpVars,
       Buffering, Copying, Echoing, Mounting, Computing, Measuring
<1>4. Measuring => [Bench!Next]_(Bench!vars)
    BY DataAssumption DEF DataNext, allVars, Bench!vars, benchVars,
       Buffering, Copying, Echoing, Mounting, Computing, Measuring
<1>5. Mounting => [Tree!Next]_(Tree!vars)
    BY DataAssumption DEF DataNext, allVars, Tree!vars, treeVars,
       Buffering, Copying, Echoing, Mounting, Computing, Measuring
<1>6. Computing => [Loops!Next]_(Loops!vars)
    BY DataAssumption DEF DataNext, allVars, Loops!vars, loopVars,
       Buffering, Copying, Echoing, Mounting, Computing, Measuring
<1>7. /\ (Buffering' <=> Buffering) /\ (Copying' <=> Copying)
      /\ (Echoing' <=> Echoing) /\ (Mounting' <=> Mounting)
      /\ (Computing' <=> Computing) /\ (Measuring' <=> Measuring)
    BY <1>0 DEF Buffering, Copying, Echoing, Mounting, Computing, Measuring
<1>. QED
    BY <1>1, <1>2, <1>3, <1>4, <1>5, <1>6, <1>7, WriterInductive, CopyInductive,
       UdpInductive, TreeInductive, LoopInductive, BenchInductive DEF DataInv

\* So it holds throughout.
LEMMA DataAlways == DataSpec => []DataInv
BY DataBegins, DataInductive, PTL DEF DataSpec

-----------------------------------------------------------------------------
(* The theorems *)

\* buffered_perf.c never overruns its buffer; its output is the beginning of the
\* input, in order and each byte once, up to what it still holds, which is
\* nothing when it ends; and where a write() fails for good there are gaps but
\* neither repetition nor disorder.
THEOREM StreamIsKept == DataSpec => []StreamKept
<1>1. DataInv => StreamKept
    BY WriterKeeps DEF DataInv, Buffering, StreamKept
<1>. QED
    BY <1>1, DataAlways, PTL

\* basic_io.c, sized_io.c, error_handling_io.c and the reprinters write the
\* beginning of their input.  The two that check write() exit with 0 only having
\* written all of it that fits into the buffer; read_retry has printed that up to
\* the first NUL byte unless its output failed, whatever its status.
THEOREM StartIsCopied == DataSpec => []CopiesTheStart
<1>1. DataInv => CopiesTheStart
    BY CopyKeeps DEF DataInv, CopiesTheStart
<1>. QED
    BY <1>1, DataAlways, PTL

\* udp_client.c is answered the words in the order it sent them unless a
\* datagram is repeated, never with a later word, and each answer too many is
\* a copy's.
THEOREM AnswersKeepStep == DataSpec => []AnswersInStep
<1>1. DataInv => AnswersInStep
    BY UdpKeeps DEF DataInv, AnswersInStep
<1>. QED
    BY <1>1, DataAlways, PTL

\* cache_line_benchmark.cpp's patterns stay in the array and touch as many ints
\* as it reports, or one more where the last line or stride is cut short; a pass
\* of list_traversal.cpp sees each node once, for any number of nodes in any order;
\* and naive.cpp's product over the transposed matrix is the product, for matrices
\* of any size and entries, sums that wrap around included.
THEOREM BenchmarksHold == DataSpec => []BenchmarksSound
<1>1. DataInv => BenchmarksSound
    BY BenchKeeps DEF DataInv, BenchmarksSound
<1>. QED
    BY <1>1, DataAlways, PTL

\* fuse_json.py's files and directories are the JSON file: at every path what
\* the file has there, and reading returns all of it.
THEOREM TreeHolds == DataSpec => []TreeFaithful
<1>1. DataInv => TreeFaithful
    BY TreeKeeps DEF DataInv, TreeFaithful
<1>. QED
    BY <1>1, DataAlways, PTL

\* The assembly returns the numbers RightNumber names, modulo what an int can hold,
\* with the stack and the registers its caller left, for ints of any width; the
\* recursion is one Fibonacci number behind the loop.  avx_sum returns exactly if
\* the length is a multiple of the lanes and faults before it writes if not; a
\* length of 0 makes it write one vector in front of the arrays.
THEOREM LoopsHold == DataSpec => []LoopsCompute
<1>1. DataInv => LoopsCompute
    BY LoopKeeps DEF DataInv, LoopsCompute
<1>. QED
    BY <1>1, DataAlways, PTL
=============================================================================
