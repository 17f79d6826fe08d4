------------------------- MODULE ChartStream_proofs -------------------------
(***************************************************************************)
(* Proofs about ChartStream, for any clients, handlers, buffer sizes,      *)
(* channel capacity and numbers of samples and commands.                   *)
(***************************************************************************)
EXTENDS ChartStream, SequenceTheorems, TLAPS

-----------------------------------------------------------------------------
(* Sequences of samples *)

Ascending(s) == \A i, j \in 1 .. Len(s) : i < j => s[i] < s[j]
UpTo(s, n) == \A i \in 1 .. Len(s) : s[i] <= n

LEMMA IdsAre ==
  ASSUME NEW from \in Nat, NEW to \in Nat
  PROVE  /\ Ids(from, to) \in Seq(Nat)
         /\ Ascending(Ids(from, to)) /\ UpTo(Ids(from, to), to)
         /\ \A i \in 1 .. Len(Ids(from, to)) : Ids(from, to)[i] > from
<1>1. CASE from <= to
  <2> DEFINE n == to - from
             s == [i \in 1 .. n |-> from + i]
  <2>1. n \in Nat /\ Ids(from, to) = s
    BY <1>1 DEF Ids
  <2> HIDE DEF n
  <2>2. s \in Seq(Nat) /\ Len(s) = n
    BY <2>1
  <2>3. \A i \in 1 .. n : s[i] = from + i
    OBVIOUS
  <2>4. \A i \in 1 .. n : from + i <= to /\ from + i > from
    BY <1>1 DEF n
  <2> HIDE DEF s
  <2>. QED
    BY <2>1, <2>2, <2>3, <2>4 DEF Ascending, UpTo
<1>2. CASE to < from
  <2>1. 1 .. (to - from) = {}
    BY <1>2
  <2>2. Ids(from, to) = <<>>
    BY <2>1 DEF Ids
  <2>. QED
    BY <2>2 DEF Ascending, UpTo
<1>. QED
  BY <1>1, <1>2

LEMMA NewestIs ==
  ASSUME NEW S, NEW s \in Seq(S), NEW n \in Nat
  PROVE  Newest(s, n) \in Seq(S) /\ Len(Newest(s, n)) <= n
<1>1. CASE Len(s) <= n
  BY <1>1 DEF Newest
<1>2. CASE ~(Len(s) <= n)
  <2>1. Newest(s, n) = SubSeq(s, Len(s) - n + 1, Len(s))
    BY <1>2 DEF Newest
  <2>2. Len(s) \in Nat /\ Len(s) - n + 1 \in 1 .. Len(s) + 1
    BY <1>2
  <2>. QED
    BY <2>1, <2>2, SubSeqProperties
<1>. QED
  BY <1>1, <1>2

LEMMA NewestKeeps ==
  ASSUME NEW s \in Seq(Nat), NEW n \in Nat, NEW m \in Nat, Ascending(s), UpTo(s, m)
  PROVE  Ascending(Newest(s, n)) /\ UpTo(Newest(s, n), m)
<1>1. CASE Len(s) <= n
  BY <1>1 DEF Newest
<1>2. CASE ~(Len(s) <= n)
  <2> DEFINE k == Len(s) - n
             t == Newest(s, n)
  <2>1. t = SubSeq(s, k + 1, Len(s)) /\ k \in Nat /\ k + n = Len(s)
    BY <1>2 DEF Newest
  <2>2. Len(t) = n /\ \A i \in 1 .. n : t[i] = s[k + i]
    <3>1. k + 1 \in Int /\ Len(s) \in Int /\ \A i \in k + 1 .. Len(s) : s[i] \in Nat
      BY <2>1
    <3>2. /\ Len(SubSeq(s, k + 1, Len(s))) = IF k + 1 <= Len(s) THEN Len(s) - (k + 1) + 1 ELSE 0
          /\ \A i \in 1 .. Len(s) - (k + 1) + 1 : SubSeq(s, k + 1, Len(s))[i] = s[k + 1 + i - 1]
      BY <3>1, SubSeqProperties
    <3>3. Len(s) - (k + 1) + 1 = n /\ \A i \in 1 .. n : k + 1 + i - 1 = k + i
      BY <2>1
    <3>4. Len(t) = n
      BY <2>1, <3>2, <3>3
    <3>. QED
      BY <2>1, <3>2, <3>3, <3>4
  <2>3. \A i \in 1 .. n : k + i \in 1 .. Len(s)
    BY <2>1
  <2>4. \A i, j \in 1 .. n : i < j => k + i < k + j
    BY <2>1
  <2> HIDE DEF k, t
  <2>5. Ascending(t)
    BY <2>2, <2>3, <2>4 DEF Ascending
  <2>6. UpTo(t, m)
    BY <2>2, <2>3 DEF UpTo
  <2>. QED
    BY <2>5, <2>6 DEF t
<1>. QED
  BY <1>1, <1>2

LEMMA Joined ==
  ASSUME NEW s \in Seq(Nat), NEW t \in Seq(Nat), NEW m \in Nat, NEW n \in Nat, m <= n,
         Ascending(s), UpTo(s, m), Ascending(t), UpTo(t, n), \A i \in 1 .. Len(t) : t[i] > m
  PROVE  s \o t \in Seq(Nat) /\ Ascending(s \o t) /\ UpTo(s \o t, n)
<1> DEFINE u == s \o t
           a == Len(s)
           b == Len(t)
<1>1. u \in Seq(Nat) /\ Len(u) = a + b /\ a \in Nat /\ b \in Nat
  OBVIOUS
<1>2. \A i \in 1 .. Len(u) : \/ i \in 1 .. a /\ u[i] = s[i]
                             \/ i > a /\ i - a \in 1 .. b /\ u[i] = t[i - a]
  OBVIOUS
<1>3. /\ \A i \in 1 .. a : s[i] \in Nat /\ s[i] <= m
      /\ \A i \in 1 .. b : t[i] \in Nat /\ t[i] > m /\ t[i] <= n
  BY DEF UpTo
<1> HIDE DEF u, a, b
<1>4. ASSUME NEW i \in 1 .. Len(u), NEW j \in 1 .. Len(u), i < j
      PROVE  u[i] < u[j]
  <2>1. CASE j \in 1 .. a /\ u[j] = s[j]
    <3>1. i \in 1 .. a /\ u[i] = s[i]
      BY <1>1, <1>2, <1>4, <2>1
    <3>. QED
      BY <1>4, <2>1, <3>1 DEF Ascending, a
  <2>2. CASE j > a /\ j - a \in 1 .. b /\ u[j] = t[j - a]
    <3>1. CASE i \in 1 .. a /\ u[i] = s[i]
      BY <1>3, <2>2, <3>1
    <3>2. CASE i > a /\ i - a \in 1 .. b /\ u[i] = t[i - a]
      <4>1. i - a < j - a
        BY <1>1, <1>4
      <4>. QED
        BY <2>2, <3>2, <4>1 DEF Ascending, b
    <3>. QED
      BY <1>2, <3>1, <3>2
  <2>. QED
    BY <1>2, <2>1, <2>2
<1>5. ASSUME NEW i \in 1 .. Len(u)
      PROVE  u[i] <= n
  <2>1. CASE i \in 1 .. a /\ u[i] = s[i]
    <3>1. s[i] \in Nat /\ s[i] <= m
      BY <1>3, <2>1
    <3>. QED
      BY <2>1, <3>1
  <2>2. CASE i - a \in 1 .. b /\ u[i] = t[i - a]
    BY <1>3, <2>2
  <2>. QED
    BY <1>2, <2>1, <2>2
<1>6. u \in Seq(Nat) /\ Ascending(u) /\ UpTo(u, n)
  BY <1>1, <1>4, <1>5 DEF Ascending, UpTo
<1>. QED
  BY <1>6 DEF u
-----------------------------------------------------------------------------
(* Types, with what is in a local when it is sent *)

Locals ==
  /\ tick = "send" => delta \in Charts
  /\ \A h \in Handlers : /\ at[h] = "resized" => newSize[h] \in Sizes
                         /\ at[h] = "send" => snapshot[h] \in Charts

TypeInv == TypeOK /\ Locals

LEMMA TypeInit == Init => TypeInv
<1> SUFFICES ASSUME Init
             PROVE  TypeInv
  OBVIOUS
<1>1. /\ total \in Nat /\ lo \in Nat /\ size \in Sizes /\ wiped \in Nat
      /\ prevCursor \in Nat /\ haveReceivers \in BOOLEAN
      /\ tick \in {"idle", "gather", "send"} /\ delta \in Charts \cup {None}
  BY DEF Init
<1>2. /\ at \in [Handlers -> {"idle", "resized", "read", "send"}]
      /\ newSize \in [Handlers -> Sizes \cup {None}]
      /\ snapshot \in [Handlers -> Charts \cup {None}]
  BY DEF Init
<1>3. /\ link \in [Clients -> {"off", "subscribed", "on"}]
      /\ queue \in [Clients -> Seq(Messages)]
      /\ points \in [Clients -> Seq(Nat)]
      /\ cursor \in [Clients -> Nat]
      /\ cap \in [Clients -> Sizes]
  BY DEF Init
<1>4. stats \in [Clients -> Spans]
  BY DEF Init, Spans
<1>5. used \in [{"commands", "joins", "aborts", "overlaps", "lost"} -> Nat]
  BY DEF Init
<1>6. Locals
  BY DEF Init, Locals
<1>. QED
  BY <1>1, <1>2, <1>3, <1>4, <1>5, <1>6 DEF TypeInv, TypeOK

LEMMA Reading ==
  ASSUME TypeInv
  PROVE  ChartDelta \in Charts /\ ChartData \in Charts
<1>1. total \in Nat /\ lo \in Nat /\ prevCursor \in Nat
  BY DEF TypeInv, TypeOK
<1>2. Larger(lo, prevCursor) \in Nat
  BY <1>1 DEF Larger
<1>. QED
  BY <1>1, <1>2 DEF ChartDelta, ChartData, Message, Charts, Spans

LEMMA BroadcastTypes ==
  ASSUME TypeInv, NEW m \in Messages, Broadcast(m)
  PROVE  /\ queue' \in [Clients -> Seq(Messages)]
         /\ used' \in [{"commands", "joins", "aborts", "overlaps", "lost"} -> Nat]
<1>1. \A c \in Clients : Newest(Append(queue[c], m), ChanCap) \in Seq(Messages)
  <2> SUFFICES ASSUME NEW c \in Clients
               PROVE  Newest(Append(queue[c], m), ChanCap) \in Seq(Messages)
    OBVIOUS
  <2>1. Append(queue[c], m) \in Seq(Messages)
    BY DEF TypeInv, TypeOK
  <2>2. ChanCap \in Nat
    BY ChanCapAssumption DEF ChanCapAssumption
  <2>. QED
    BY <2>1, <2>2, NewestIs
<1>2. queue' \in [Clients -> Seq(Messages)]
  BY <1>1 DEF Broadcast, TypeInv, TypeOK
<1>3. used' \in [{"commands", "joins", "aborts", "overlaps", "lost"} -> Nat]
  <2>1. used' = [used EXCEPT !.lost = 1] \/ used' = used
    BY DEF Broadcast, TypeInv, TypeOK
  <2>2. CASE used' = [used EXCEPT !.lost = 1]
    BY <2>2 DEF TypeInv, TypeOK
  <2>3. CASE used' = used
    BY <2>3 DEF TypeInv, TypeOK
  <2>. QED
    BY <2>1, <2>2, <2>3
<1>. QED
  BY <1>2, <1>3

LEMMA UseTypes ==
  ASSUME TypeInv,
         \/ \E h \in Handlers : Start(h)
         \/ \E what \in {"joins", "aborts"}, max \in Nat : Use(what, max)
  PROVE  used' \in [{"commands", "joins", "aborts", "overlaps", "lost"} -> Nat]
<1>1. CASE \E h \in Handlers : Start(h)
  <2>1. used.commands + 1 \in Nat /\ used.overlaps \in Nat
    BY DEF TypeInv, TypeOK
  <2>2. \E m \in Nat : used' = [used EXCEPT !.commands = used.commands + 1, !.overlaps = m]
    <3>1. CASE \E h \in Handlers : at[h] # "idle"
      <4>1. used' = [used EXCEPT !.commands = used.commands + 1, !.overlaps = 1]
        BY <1>1, <3>1 DEF Start, TypeInv, TypeOK
      <4>. QED
        BY <4>1
    <3>2. CASE ~ \E h \in Handlers : at[h] # "idle"
      <4>1. used' = [used EXCEPT !.commands = used.commands + 1, !.overlaps = used.overlaps]
        BY <1>1, <3>2 DEF Start, TypeInv, TypeOK
      <4>. QED
        BY <2>1, <4>1
    <3>. QED
      BY <3>1, <3>2
  <2>. QED
    BY <2>1, <2>2 DEF TypeInv, TypeOK
<1>2. CASE \E what \in {"joins", "aborts"}, max \in Nat : Use(what, max)
  BY <1>2 DEF Use, TypeInv, TypeOK
<1>. QED
  BY <1>1, <1>2

LEMMA TypeServer ==
  ASSUME TypeInv, Sample \/ Broadcaster
  PROVE  TypeInv'
<1> USE DEF TypeInv, TypeOK, Locals, buffer, commands, channel, chart
<1>1. CASE Sample
  BY <1>1 DEF Sample, broadcaster
<1>2. CASE Tick
  BY <1>2 DEF Tick
<1>3. CASE Gather
  BY <1>3, Reading DEF Gather
<1>4. CASE SendDelta
  <2>1. delta \in Messages
    BY <1>4 DEF SendDelta, Messages
  <2>2. /\ queue' \in [Clients -> Seq(Messages)]
        /\ used' \in [{"commands", "joins", "aborts", "overlaps", "lost"} -> Nat]
    BY <1>4, <2>1, BroadcastTypes DEF SendDelta
  <2>. QED
    BY <1>4, <2>2 DEF SendDelta
<1>. QED
  BY <1>1, <1>2, <1>3, <1>4 DEF Broadcaster

LEMMA TypeCommand ==
  ASSUME TypeInv, NEW h \in Handlers,
         \/ ClearBuffer(h) \/ ClearAnother(h) \/ Abort(h) \/ Command(h)
         \/ \E n \in Sizes : SetBufferSize(h, n)
  PROVE  TypeInv'
<1> USE DEF TypeInv, TypeOK, Locals, Goto, buffer, broadcaster, channel, chart
<1>1. CASE ClearBuffer(h)
  BY <1>1, UseTypes DEF ClearBuffer
<1>2. CASE ClearAnother(h)
  BY <1>2, UseTypes DEF ClearAnother
<1>3. ASSUME NEW n \in Sizes, SetBufferSize(h, n)
      PROVE  TypeInv'
  <2>1. n \in Nat
    BY SizesAssumption DEF SizesAssumption
  <2>2. size' = n /\ lo' \in Nat /\ total' = total /\ wiped' = wiped
    BY <1>3, <2>1 DEF SetBufferSize, SetCapacity
  <2>3. used' \in [{"commands", "joins", "aborts", "overlaps", "lost"} -> Nat]
    BY <1>3, UseTypes DEF SetBufferSize
  <2>. QED
    BY <1>3, <2>2, <2>3 DEF SetBufferSize
<1>4. CASE Abort(h)
  <2>1. used' \in [{"commands", "joins", "aborts", "overlaps", "lost"} -> Nat]
    BY <1>4, UseTypes, BoundsAssumption DEF Abort, BoundsAssumption
  <2>. QED
    BY <1>4, <2>1 DEF Abort
<1>5. CASE TellSize(h)
  <2> DEFINE m == [type |-> "BufferSizeChanged", size |-> newSize[h]]
  <2>1. m \in Messages
    BY <1>5 DEF TellSize, Messages
  <2>2. Broadcast(m)
    BY <1>5 DEF TellSize
  <2> HIDE DEF m
  <2>3. /\ queue' \in [Clients -> Seq(Messages)]
        /\ used' \in [{"commands", "joins", "aborts", "overlaps", "lost"} -> Nat]
    BY <2>1, <2>2, BroadcastTypes
  <2>. QED
    BY <1>5, <2>3 DEF TellSize
<1>6. CASE ReadSnapshot(h)
  BY <1>6, Reading DEF ReadSnapshot
<1>7. CASE SendSnapshot(h)
  <2>1. snapshot[h] \in Messages
    BY <1>7 DEF SendSnapshot, Messages
  <2>2. /\ queue' \in [Clients -> Seq(Messages)]
        /\ used' \in [{"commands", "joins", "aborts", "overlaps", "lost"} -> Nat]
    BY <1>7, <2>1, BroadcastTypes DEF SendSnapshot
  <2>. QED
    BY <1>7, <2>2 DEF SendSnapshot
<1>. QED
  BY <1>1, <1>2, <1>3, <1>4, <1>5, <1>6, <1>7 DEF Command
-----------------------------------------------------------------------------
(* What a client draws *)

Fits(s, top, n) == s \in Seq(Nat) /\ Ascending(s) /\ UpTo(s, top) /\ Len(s) <= n

Inv == TypeInv /\ \A c \in Clients : Fits(points[c], cursor[c], cap[c])

LEMMA SnapshotFits ==
  ASSUME NEW m \in Charts, NEW n \in Nat
  PROVE  /\ Fits(Newest(Ids(m.from, m.cursor), n), m.cursor, n)
         /\ m.cursor \in Nat /\ m.stats \in Spans
<1>1. m.from \in Nat /\ m.cursor \in Nat /\ m.stats \in Spans
  BY DEF Charts
<1>2. /\ Ids(m.from, m.cursor) \in Seq(Nat)
      /\ Ascending(Ids(m.from, m.cursor)) /\ UpTo(Ids(m.from, m.cursor), m.cursor)
  BY <1>1, IdsAre
<1>. QED
  BY <1>1, <1>2, NewestIs, NewestKeeps DEF Fits

\* The samples a client already has are skipped, the rest continue its chart.
LEMMA DeltaFits ==
  ASSUME NEW m \in Charts, NEW s, NEW top \in Nat, NEW n \in Nat, Fits(s, top, n), top < m.cursor
  PROVE  Fits(Newest(s \o Ids(Larger(m.from, top), m.cursor), Larger(Len(s), n)), m.cursor, n)
<1> DEFINE first == Larger(m.from, top)
           fresh == Ids(first, m.cursor)
<1>1. m.cursor \in Nat /\ first \in Nat /\ top <= first
  BY DEF Charts, Larger
<1>2. /\ fresh \in Seq(Nat) /\ Ascending(fresh) /\ UpTo(fresh, m.cursor)
      /\ \A i \in 1 .. Len(fresh) : fresh[i] > first
  BY <1>1, IdsAre
<1>3. \A i \in 1 .. Len(fresh) : fresh[i] > top
  <2>1. \A i \in 1 .. Len(fresh) : fresh[i] \in Nat
    BY <1>2
  <2> HIDE DEF first, fresh
  <2>. QED
    BY <1>1, <1>2, <2>1
<1>4. s \in Seq(Nat) /\ Ascending(s) /\ UpTo(s, top) /\ Larger(Len(s), n) = n
  BY DEF Fits, Larger
<1> HIDE DEF first, fresh
<1>5. s \o fresh \in Seq(Nat) /\ Ascending(s \o fresh) /\ UpTo(s \o fresh, m.cursor)
  BY <1>1, <1>2, <1>3, <1>4, Joined
<1>6. Fits(Newest(s \o fresh, n), m.cursor, n)
  BY <1>1, <1>5, NewestIs, NewestKeeps DEF Fits
<1>. QED
  BY <1>4, <1>6 DEF first, fresh

LEMMA ClientKeeps ==
  ASSUME Inv, NEW c \in Clients, Subscribe(c) \/ Greet(c) \/ Leave(c) \/ Process(c)
  PROVE  Inv'
<1> USE DEF TypeInv, TypeOK, Locals, buffer, broadcaster, commands
<1>0. Inv
  OBVIOUS
<1>00. Sizes \subseteq Nat /\ TypeInv /\ Fits(points[c], cursor[c], cap[c])
  BY SizesAssumption DEF SizesAssumption, Inv
<1>1. CASE Subscribe(c)
  <2>1. used' \in [{"commands", "joins", "aborts", "overlaps", "lost"} -> Nat]
    BY <1>00, <1>1, UseTypes, BoundsAssumption DEF Subscribe, BoundsAssumption
  <2>. QED
    BY <1>0, <1>1, <2>1 DEF Subscribe, chart, Inv
<1>2. CASE Leave(c)
  BY <1>0, <1>2 DEF Leave, chart, Inv
\* A chart is replaced by one that fits.
<1>3. ASSUME NEW s, NEW top \in Nat, NEW n \in Sizes, NEW span \in Spans, Fits(s, top, n),
             points' = [points EXCEPT ![c] = s], cursor' = [cursor EXCEPT ![c] = top],
             cap' = [cap EXCEPT ![c] = n], stats' = [stats EXCEPT ![c] = span],
             link' \in [Clients -> {"off", "subscribed", "on"}],
             queue' \in [Clients -> Seq(Messages)],
             UNCHANGED <<buffer, broadcaster, commands, used>>
      PROVE  Inv'
  <2>1. s \in Seq(Nat)
    BY <1>3 DEF Fits
  <2>2. /\ points' \in [Clients -> Seq(Nat)] /\ cursor' \in [Clients -> Nat]
        /\ cap' \in [Clients -> Sizes] /\ stats' \in [Clients -> Spans]
    BY <1>00, <1>3, <2>1
  <2>3. TypeInv'
    BY <1>00, <1>3, <2>2
  <2>4. ASSUME NEW e \in Clients
        PROVE  Fits(points'[e], cursor'[e], cap'[e])
    <3>1. CASE e = c
      BY <1>00, <1>3, <3>1
    <3>2. CASE e # c
      BY <1>0, <1>00, <1>3, <3>2 DEF Inv
    <3>. QED
      BY <3>1, <3>2
  <2>. QED
    BY <2>3, <2>4 DEF Inv
<1>4. CASE Greet(c)
  <2>1. ChartData \in Charts /\ size \in Sizes /\ size \in Nat
    BY <1>00, Reading
  <2>2. /\ Fits(Newest(Ids(ChartData.from, ChartData.cursor), size), ChartData.cursor, size)
        /\ ChartData.cursor \in Nat /\ ChartData.stats \in Spans
    BY <2>1, SnapshotFits
  <2>3. link' \in [Clients -> {"off", "subscribed", "on"}]
    BY <1>00, <1>4 DEF Greet
  <2>. QED
    BY <1>00, <1>3, <1>4, <2>1, <2>2, <2>3 DEF Greet, SetSnapshot
<1>5. CASE Process(c)
  <2> DEFINE m == Head(queue[c])
  <2>1. m \in Messages /\ queue' \in [Clients -> Seq(Messages)]
    BY <1>00, <1>5 DEF Process
  <2>2. /\ cap[c] \in Sizes /\ cap[c] \in Nat /\ cursor[c] \in Nat /\ stats[c] \in Spans
        /\ link' \in [Clients -> {"off", "subscribed", "on"}]
        /\ UNCHANGED <<buffer, broadcaster, commands, used>>
    BY <1>00, <1>5 DEF Process
  <2>3. /\ cap = [cap EXCEPT ![c] = cap[c]] /\ cursor = [cursor EXCEPT ![c] = cursor[c]]
        /\ stats = [stats EXCEPT ![c] = stats[c]] /\ points = [points EXCEPT ![c] = points[c]]
    BY <1>00
  <2>4. \/ m.type = "ChartData" /\ SetSnapshot(c, m, cap[c]) /\ UNCHANGED cap
        \/ m.type = "ChartDelta" /\ ApplyDelta(c, m) /\ UNCHANGED cap
        \/ m.type = "BufferSizeChanged" /\ ChangeSize(c, m) /\ UNCHANGED <<cursor, stats>>
    BY <1>5 DEF Process
  <2>5. /\ m.type \in {"ChartData", "ChartDelta"} => m \in Charts
        /\ m.type = "BufferSizeChanged" => m.size \in Sizes /\ m.size \in Nat
    BY <1>00, <2>1 DEF Messages, Charts
  <2> HIDE DEF m
  <2>6. CASE m.type = "ChartData" /\ SetSnapshot(c, m, cap[c]) /\ UNCHANGED cap
    <3>1. /\ Fits(Newest(Ids(m.from, m.cursor), cap[c]), m.cursor, cap[c])
          /\ m.cursor \in Nat /\ m.stats \in Spans
      BY <2>2, <2>5, <2>6, SnapshotFits
    <3>. QED
      BY <1>3, <2>1, <2>2, <2>3, <2>6, <3>1 DEF SetSnapshot
  <2>7. CASE m.type = "ChartDelta" /\ ApplyDelta(c, m) /\ UNCHANGED cap
    <3>0. m \in Charts /\ m.cursor \in Nat /\ m.stats \in Spans
      BY <2>5, <2>7 DEF Charts
    <3>1. CASE m.cursor <= cursor[c]
      <4>1. UNCHANGED <<points, cursor, stats, cap>>
        BY <2>7, <3>1 DEF ApplyDelta
      <4>. QED
        BY <1>00, <1>3, <2>1, <2>2, <2>3, <4>1
    <3>2. CASE ~(m.cursor <= cursor[c])
      <4>1. cursor[c] < m.cursor
        BY <2>2, <3>0, <3>2
      <4> DEFINE drawn == Newest(points[c] \o Ids(Larger(m.from, cursor[c]), m.cursor),
                                 Larger(Len(points[c]), cap[c]))
      <4>2. Fits(drawn, m.cursor, cap[c])
        BY <1>00, <2>2, <3>0, <4>1, DeltaFits
      <4>3. /\ points' = [points EXCEPT ![c] = drawn] /\ cursor' = [cursor EXCEPT ![c] = m.cursor]
            /\ stats' = [stats EXCEPT ![c] = m.stats]
        BY <2>7, <3>2 DEF ApplyDelta
      <4>4. cap' = [cap EXCEPT ![c] = cap[c]]
        BY <2>3, <2>7
      <4> HIDE DEF drawn
      <4>. QED
        BY <1>3, <2>1, <2>2, <3>0, <4>2, <4>3, <4>4
    <3>. QED
      BY <3>1, <3>2
  <2>8. CASE m.type = "BufferSizeChanged" /\ ChangeSize(c, m) /\ UNCHANGED <<cursor, stats>>
    <3>1. Fits(Newest(points[c], m.size), cursor[c], m.size)
      BY <1>00, <2>2, <2>5, <2>8, NewestIs, NewestKeeps DEF Fits
    <3>. QED
      BY <1>3, <2>1, <2>2, <2>3, <2>5, <2>8, <3>1 DEF ChangeSize
  <2>. QED
    BY <2>4, <2>6, <2>7, <2>8
<1>. QED
  BY <1>1, <1>2, <1>4, <1>5

LEMMA InvInit == Init => Inv
<1> SUFFICES ASSUME Init, NEW c \in Clients
             PROVE  TypeInv /\ Fits(points[c], cursor[c], cap[c])
  BY TypeInit DEF Inv
<1>1. points[c] = <<>> /\ cap[c] \in Nat
  BY SizesAssumption DEF SizesAssumption, Init
<1>. QED
  BY <1>1, TypeInit DEF Fits, Ascending, UpTo

LEMMA InvNext == Inv /\ [Next]_vars => Inv'
<1> SUFFICES ASSUME Inv, [Next]_vars
             PROVE  Inv'
  OBVIOUS
<1>0. TypeInv
  BY DEF Inv
<1>1. CASE Sample \/ Broadcaster
  <2>1. UNCHANGED chart
    BY <1>1 DEF Sample, Broadcaster, Tick, Gather, SendDelta
  <2>. QED
    BY <1>0, <1>1, <2>1, TypeServer DEF Inv, chart
<1>2. ASSUME NEW h \in Handlers,
             \/ ClearBuffer(h) \/ ClearAnother(h) \/ Abort(h) \/ Command(h)
             \/ \E n \in Sizes : SetBufferSize(h, n)
      PROVE  Inv'
  <2>1. UNCHANGED chart
    BY <1>2 DEF ClearBuffer, ClearAnother, Abort, Command, TellSize, ReadSnapshot, SendSnapshot,
                SetBufferSize
  <2>. QED
    BY <1>0, <1>2, <2>1, TypeCommand DEF Inv, chart
<1>3. CASE UNCHANGED vars
  BY <1>3 DEF vars, buffer, broadcaster, commands, channel, chart, Inv, TypeInv, TypeOK, Locals
<1>. QED
  BY <1>1, <1>2, <1>3, ClientKeeps DEF Next

\* The types.
THEOREM TypeCorrect == Spec => []TypeOK
<1>1. Inv => TypeOK
  BY DEF Inv, TypeInv
<1>. QED
  BY <1>1, InvInit, InvNext, PTL DEF Spec

\* A chart draws every sample at most once, in order, none past its cursor, and
\* keeps to its size, whatever messages are lost, cut short or overtaken, with
\* any number of clients, sessions, samples and commands.
THEOREM ChartsStayWellFormed == Spec => []ChartWellFormed
<1>1. Inv => ChartWellFormed
  BY DEF Inv, Fits, Ascending, UpTo, ChartWellFormed
<1>. QED
  BY <1>1, InvInit, InvNext, PTL DEF Spec

-----------------------------------------------------------------------------
(* The queues, and the commands when they come one at a time *)

Queues == \A c \in Clients : Len(queue[c]) <= ChanCap /\ (link[c] = "off" => queue[c] = <<>>)

\* One command at a time.
Solo == \A x, y \in Handlers : at[x] # "idle" /\ at[y] # "idle" => x = y

Base == Inv /\ Queues /\ (used["overlaps"] = 0 => Solo)

\* What was used stays used.
LEMMA UsedStays ==
  ASSUME TypeInv, [Next]_vars, NEW w \in {"commands", "aborts", "overlaps", "lost"}, used'[w] = 0
  PROVE  used[w] = 0
<1>0. used[w] \in Nat /\ used["commands"] \in Nat
  BY DEF TypeInv, TypeOK
<1>1. CASE used' = used
  BY <1>1
<1>2. ASSUME NEW what \in {"joins", "aborts"}, NEW max, Use(what, max)
      PROVE  used[w] = 0
  BY <1>0, <1>2 DEF Use, TypeInv, TypeOK
<1>3. ASSUME NEW m, Broadcast(m)
      PROVE  used[w] = 0
  <2>1. used' = [used EXCEPT !.lost = 1] \/ used' = used
    BY <1>3 DEF Broadcast, TypeInv, TypeOK
  <2>. QED
    BY <2>1 DEF TypeInv, TypeOK
<1>4. ASSUME NEW h \in Handlers, Start(h)
      PROVE  used[w] = 0
  <2>1. PICK n, m : /\ used' = [used EXCEPT !.commands = n, !.overlaps = m]
                    /\ n = used.commands + 1 /\ (m = used.overlaps \/ m = 1)
    <3>1. CASE \E x \in Handlers : at[x] # "idle"
      BY <1>4, <3>1 DEF Start, TypeInv, TypeOK
    <3>2. CASE ~ \E x \in Handlers : at[x] # "idle"
      BY <1>4, <3>2 DEF Start, TypeInv, TypeOK
    <3>. QED
      BY <3>1, <3>2
  <2>2. DOMAIN used = {"commands", "joins", "aborts", "overlaps", "lost"}
    BY DEF TypeInv, TypeOK
  <2>3. used'["commands"] # 0
    BY <1>0, <2>1, <2>2
  <2>4. w = "overlaps" => used["overlaps"] = 0
    BY <2>1, <2>2
  <2>5. w \in {"aborts", "lost"} => used'[w] = used[w]
    BY <2>1, <2>2
  <2>. QED
    BY <2>3, <2>4, <2>5
<1>5. CASE Sample \/ Broadcaster
  BY <1>1, <1>3, <1>5 DEF Sample, Broadcaster, Tick, Gather, SendDelta
<1>6. ASSUME NEW h \in Handlers,
             \/ ClearBuffer(h) \/ ClearAnother(h) \/ Abort(h) \/ Command(h)
             \/ \E n \in Sizes : SetBufferSize(h, n)
      PROVE  used[w] = 0
  BY <1>1, <1>2, <1>3, <1>4, <1>6
     DEF ClearBuffer, ClearAnother, Abort, Command, TellSize, ReadSnapshot, SendSnapshot, SetBufferSize
<1>7. ASSUME NEW c \in Clients, Subscribe(c) \/ Greet(c) \/ Leave(c) \/ Process(c)
      PROVE  used[w] = 0
  BY <1>1, <1>2, <1>7 DEF Subscribe, Greet, Leave, Process
<1>8. CASE UNCHANGED vars
  BY <1>1, <1>8 DEF vars
<1>. QED
  BY <1>5, <1>6, <1>7, <1>8 DEF Next

LEMMA Counted ==
  ASSUME TypeInv
  PROVE  /\ \A h \in Handlers : Start(h) => used'["commands"] # 0
         /\ \A h \in Handlers : Abort(h) => used'["aborts"] # 0
         /\ \A h \in Handlers : Start(h) /\ used'["overlaps"] = 0 => \A x \in Handlers : at[x] = "idle"
<1>1. used["commands"] \in Nat /\ used["aborts"] \in Nat
      /\ DOMAIN used = {"commands", "joins", "aborts", "overlaps", "lost"}
  BY DEF TypeInv, TypeOK
<1>2. ASSUME NEW h \in Handlers, Start(h)
      PROVE  used'["commands"] # 0
             /\ (used'["overlaps"] = 0 => \A x \in Handlers : at[x] = "idle")
  <2>1. CASE \E x \in Handlers : at[x] # "idle"
    <3>1. used' = [used EXCEPT !.commands = used.commands + 1, !.overlaps = 1]
      BY <1>1, <1>2, <2>1 DEF Start
    <3>. QED
      BY <1>1, <3>1
  <2>2. CASE ~ \E x \in Handlers : at[x] # "idle"
    <3>1. used' = [used EXCEPT !.commands = used.commands + 1, !.overlaps = used.overlaps]
      BY <1>1, <1>2, <2>2 DEF Start
    <3>. QED
      BY <1>1, <2>2, <3>1
  <2>. QED
    BY <2>1, <2>2
<1>3. ASSUME NEW h \in Handlers, Abort(h)
      PROVE  used'["aborts"] # 0
  BY <1>1, <1>3 DEF Abort, Use
<1>. QED
  BY <1>2, <1>3

\* What is broadcast while nobody lags reaches every subscriber whole.
LEMMA Delivered ==
  ASSUME TypeInv, Queues, NEW m \in Messages, Broadcast(m), used'["lost"] = 0, NEW c \in Clients
  PROVE  queue'[c] = IF link[c] = "off" THEN queue[c] ELSE Append(queue[c], m)
<1>1. ~Lags(c)
  <2> SUFFICES ASSUME Lags(c)
               PROVE  FALSE
    OBVIOUS
  <2>1. used' = [used EXCEPT !.lost = 1]
    BY DEF Broadcast
  <2>. QED
    BY <2>1 DEF TypeInv, TypeOK
<1>2. /\ queue[c] \in Seq(Messages) /\ ChanCap \in Nat
      /\ queue'[c] = IF link[c] = "off" THEN queue[c] ELSE Newest(Append(queue[c], m), ChanCap)
  BY ChanCapAssumption DEF ChanCapAssumption, Broadcast, TypeInv, TypeOK
<1>3. link[c] # "off" => Len(Append(queue[c], m)) <= ChanCap
  BY <1>1, <1>2, AppendProperties, LenProperties DEF Lags, Queues
<1>. QED
  BY <1>2, <1>3 DEF Newest

\* A step of a session's command.
LEMMA SoloStays ==
  ASSUME TypeInv, Solo, [Next]_vars, used'["overlaps"] = 0
  PROVE  Solo'
<1>1. ASSUME NEW h \in Handlers, NEW label, at' = [at EXCEPT ![h] = label],
             at[h] # "idle" \/ \A x \in Handlers : at[x] = "idle"
      PROVE  Solo'
  <2>1. \A x \in Handlers \ {h} : at'[x] = at[x]
    BY <1>1 DEF TypeInv, TypeOK
  <2>2. \A x \in Handlers \ {h} : at[x] = "idle"
    BY <1>1 DEF Solo
  <2>. QED
    BY <2>1, <2>2 DEF Solo
<1>2. ASSUME NEW h \in Handlers,
             \/ ClearBuffer(h) \/ ClearAnother(h) \/ Abort(h) \/ Command(h)
             \/ \E n \in Sizes : SetBufferSize(h, n)
      PROVE  Solo'
  <2>1. \E label : at' = [at EXCEPT ![h] = label]
    BY <1>2 DEF ClearBuffer, ClearAnother, Abort, Command, TellSize, ReadSnapshot, SendSnapshot,
                SetBufferSize, Goto
  <2>2. at[h] # "idle" \/ Start(h)
    BY <1>2 DEF ClearBuffer, ClearAnother, Abort, Command, TellSize, ReadSnapshot, SendSnapshot,
                SetBufferSize
  <2>. QED
    BY <1>1, <2>1, <2>2, Counted
<1>3. CASE at' = at
  BY <1>3 DEF Solo
<1>4. CASE Sample \/ Broadcaster
  BY <1>3, <1>4 DEF Sample, Broadcaster, Tick, Gather, SendDelta, commands
<1>5. CASE \E c \in Clients : Subscribe(c) \/ Greet(c) \/ Leave(c) \/ Process(c)
  BY <1>3, <1>5 DEF Subscribe, Greet, Leave, Process, commands
<1>. QED
  BY <1>2, <1>3, <1>4, <1>5 DEF Next, vars, commands

\* A message, or its being handled, keeps a queue within the channel's capacity.
LEMMA QueuesStay ==
  ASSUME TypeInv, Queues, [Next]_vars
  PROVE  Queues'
<1>1. CASE UNCHANGED channel
  BY <1>1 DEF channel, Queues
<1>2. ASSUME NEW m \in Messages, Broadcast(m), UNCHANGED link
      PROVE  Queues'
  <2> SUFFICES ASSUME NEW c \in Clients
               PROVE  Len(queue'[c]) <= ChanCap /\ (link'[c] = "off" => queue'[c] = <<>>)
    BY DEF Queues
  <2>1. queue'[c] = IF link[c] = "off" THEN queue[c] ELSE Newest(Append(queue[c], m), ChanCap)
    BY <1>2 DEF Broadcast
  <2>2. Append(queue[c], m) \in Seq(Messages) /\ ChanCap \in Nat
    BY ChanCapAssumption DEF ChanCapAssumption, TypeInv, TypeOK
  <2>3. Len(Newest(Append(queue[c], m), ChanCap)) <= ChanCap
    BY <2>2, NewestIs
  <2>. QED
    BY <1>2, <2>1, <2>3 DEF Queues
<1>3. CASE SendDelta
  <2>1. delta \in Messages
    BY <1>3 DEF SendDelta, TypeInv, Locals, Messages
  <2>. QED
    BY <1>2, <1>3, <2>1 DEF SendDelta
<1>4. ASSUME NEW h \in Handlers, TellSize(h)
      PROVE  Queues'
  <2>1. [type |-> "BufferSizeChanged", size |-> newSize[h]] \in Messages
    BY <1>4 DEF TellSize, TypeInv, Locals, Messages
  <2>. QED
    BY <1>2, <1>4, <2>1 DEF TellSize
<1>5. ASSUME NEW h \in Handlers, SendSnapshot(h)
      PROVE  Queues'
  <2>1. snapshot[h] \in Messages
    BY <1>5 DEF SendSnapshot, TypeInv, Locals, Messages
  <2>. QED
    BY <1>2, <1>5, <2>1 DEF SendSnapshot
<1>6. ASSUME NEW c \in Clients, Subscribe(c) \/ Greet(c) \/ Leave(c) \/ Process(c)
      PROVE  Queues'
  <2>1. \A e \in Clients \ {c} : queue'[e] = queue[e] /\ link'[e] = link[e]
    BY <1>6 DEF Subscribe, Greet, Leave, Process, TypeInv, TypeOK
  <2>2. Len(queue'[c]) <= ChanCap /\ (link'[c] = "off" => queue'[c] = <<>>)
    <3>1. CASE Process(c)
      <4>1. queue[c] \in Seq(Messages) /\ queue[c] # <<>> /\ queue'[c] = Tail(queue[c])
            /\ link'[c] = "on" /\ ChanCap \in Nat
        BY <3>1, ChanCapAssumption DEF ChanCapAssumption, Process, TypeInv, TypeOK
      <4>2. Len(Tail(queue[c])) = Len(queue[c]) - 1 /\ Len(queue[c]) \in Nat
        BY <4>1, HeadTailProperties, LenProperties
      <4>. QED
        BY <4>1, <4>2 DEF Queues
    <3>2. CASE Leave(c)
      <4>1. queue'[c] = <<>>
        BY <3>2 DEF Leave, TypeInv, TypeOK
      <4>. QED
        BY <4>1, ChanCapAssumption DEF ChanCapAssumption
    <3>3. CASE Subscribe(c) \/ Greet(c)
      <4>1. queue'[c] = queue[c] /\ link'[c] \in {"subscribed", "on"}
        BY <3>3 DEF Subscribe, Greet, TypeInv, TypeOK
      <4>. QED
        BY <4>1 DEF Queues
    <3>. QED
      BY <1>6, <3>1, <3>2, <3>3
  <2>. QED
    BY <2>1, <2>2 DEF Queues
<1>7. CASE Sample \/ Tick \/ Gather
  BY <1>1, <1>7 DEF Sample, Tick, Gather
<1>8. ASSUME NEW h \in Handlers,
             \/ ClearBuffer(h) \/ ClearAnother(h) \/ Abort(h) \/ ReadSnapshot(h)
             \/ \E n \in Sizes : SetBufferSize(h, n)
      PROVE  Queues'
  BY <1>1, <1>8 DEF ClearBuffer, ClearAnother, Abort, ReadSnapshot, SetBufferSize
<1>9. CASE UNCHANGED vars
  BY <1>1, <1>9 DEF vars
<1>. QED
  BY <1>3, <1>4, <1>5, <1>6, <1>7, <1>8, <1>9 DEF Next, Broadcaster, Command

LEMMA BaseInit == Init => Base
<1> SUFFICES ASSUME Init
             PROVE  Queues /\ Solo
  BY InvInit DEF Base
<1>1. \A c \in Clients : queue[c] = <<>>
  BY DEF Init
<1>2. Len(<<>>) <= ChanCap
  BY ChanCapAssumption DEF ChanCapAssumption
<1>3. Queues
  BY <1>1, <1>2 DEF Queues
<1>4. Solo
  BY DEF Init, Solo
<1>. QED
  BY <1>3, <1>4

LEMMA BaseNext == Base /\ [Next]_vars => Base'
<1> SUFFICES ASSUME Base, [Next]_vars
             PROVE  Base'
  OBVIOUS
<1>1. TypeInv /\ Inv'
  BY InvNext DEF Base, Inv
<1>2. Queues'
  BY <1>1, QueuesStay DEF Base
<1>3. used'["overlaps"] = 0 => Solo'
  BY <1>1, UsedStays, SoloStays DEF Base
<1>. QED
  BY <1>1, <1>2, <1>3 DEF Base

-----------------------------------------------------------------------------
(* Sequences of messages: the last one of a type, and none at all *)

Latest(s, type, i) ==
  s[i].type = type /\ \A j \in 1 .. Len(s) : j > i => s[j].type # type
Silent(s, type) == \A i \in 1 .. Len(s) : s[i].type # type

LEMMA TailSays ==
  ASSUME NEW S, NEW s \in Seq(S), s # <<>>, NEW type
  PROVE  /\ Tail(s) \in Seq(S) /\ Head(s) \in S
         /\ \A i \in 1 .. Len(Tail(s)) : Latest(Tail(s), type, i) =>
              /\ i + 1 \in 1 .. Len(s) /\ Latest(s, type, i + 1)
              /\ Tail(s)[i] = s[i + 1]
         /\ Silent(Tail(s), type) /\ Head(s).type # type => Silent(s, type)
         /\ Silent(Tail(s), type) /\ Head(s).type = type =>
              1 \in 1 .. Len(s) /\ Latest(s, type, 1) /\ s[1] = Head(s)
<1> DEFINE t == Tail(s)
           n == Len(s)
<1>1. /\ t \in Seq(S) /\ Head(s) \in S /\ Head(s) = s[1] /\ Len(t) = n - 1
      /\ n \in Nat /\ n >= 1 /\ \A i \in 1 .. (n - 1) : t[i] = s[i + 1]
  BY HeadTailProperties, EmptySeq, LenProperties
<1> HIDE DEF t, n
<1>2. \A j \in 1 .. n : j = 1 \/ (j - 1 \in 1 .. (n - 1) /\ t[j - 1] = s[j])
  <2>1. SUFFICES ASSUME NEW j \in 1 .. n, j # 1
                 PROVE  j - 1 \in 1 .. (n - 1) /\ t[j - 1] = s[j]
    OBVIOUS
  <2>2. j - 1 \in 1 .. (n - 1) /\ (j - 1) + 1 = j
    BY <1>1, <2>1
  <2>. QED
    BY <1>1, <2>2
<1>3. ASSUME NEW i \in 1 .. (n - 1), Latest(t, type, i)
      PROVE  i + 1 \in 1 .. n /\ Latest(s, type, i + 1) /\ t[i] = s[i + 1]
  <2>1. i + 1 \in 1 .. n /\ t[i] = s[i + 1] /\ t[i].type = type
    BY <1>1, <1>3 DEF Latest
  <2>2. ASSUME NEW j \in 1 .. n, j > i + 1 PROVE s[j].type # type
    <3>1. j - 1 \in 1 .. (n - 1) /\ t[j - 1] = s[j] /\ j - 1 > i
      BY <1>1, <1>2, <2>2
    <3>. QED
      BY <1>1, <1>3, <3>1 DEF Latest
  <2>. QED
    BY <2>1, <2>2 DEF Latest, n
<1>4. ASSUME Silent(t, type) PROVE \A j \in 1 .. n : j > 1 => s[j].type # type
  <2>1. SUFFICES ASSUME NEW j \in 1 .. n, j > 1 PROVE s[j].type # type
    OBVIOUS
  <2>2. j - 1 \in 1 .. Len(t) /\ t[j - 1] = s[j]
    BY <1>1, <1>2, <2>1
  <2>. QED
    BY <1>4, <2>2 DEF Silent
<1>5. Silent(t, type) /\ Head(s).type # type => Silent(s, type)
  <2>1. \A j \in 1 .. n : j = 1 \/ j > 1
    BY <1>1
  <2>. QED
    BY <1>1, <1>4, <2>1 DEF Silent, n
<1>6. Silent(t, type) /\ Head(s).type = type =>
        1 \in 1 .. n /\ Latest(s, type, 1) /\ s[1] = Head(s)
  BY <1>1, <1>4 DEF Latest, n
<1>. QED
  BY <1>1, <1>3, <1>5, <1>6 DEF t, n

LEMMA AppendSays ==
  ASSUME NEW S, NEW s \in Seq(S), NEW c \in S, NEW type
  PROVE  /\ Append(s, c) \in Seq(S)
         /\ \A i \in 1 .. Len(Append(s, c)) : Latest(Append(s, c), type, i) =>
              \/ c.type = type /\ Append(s, c)[i] = c
              \/ /\ c.type # type /\ i \in 1 .. Len(s)
                 /\ Latest(s, type, i) /\ Append(s, c)[i] = s[i]
         /\ Silent(Append(s, c), type) => c.type # type /\ Silent(s, type)
<1> DEFINE t == Append(s, c)
           n == Len(s)
<1>1. /\ t \in Seq(S) /\ Len(t) = n + 1 /\ n \in Nat
      /\ t[n + 1] = c /\ \A i \in 1 .. n : t[i] = s[i]
  BY AppendProperties, LenProperties
<1> HIDE DEF t, n
<1>2. ASSUME NEW i \in 1 .. (n + 1), Latest(t, type, i)
      PROVE  \/ c.type = type /\ t[i] = c
             \/ c.type # type /\ i \in 1 .. n /\ Latest(s, type, i) /\ t[i] = s[i]
  <2>1. CASE c.type = type
    <3>1. ~(n + 1 > i)
      BY <1>1, <1>2, <2>1 DEF Latest
    <3>2. i = n + 1
      BY <1>1, <3>1
    <3>. QED
      BY <1>1, <2>1, <3>2
  <2>2. CASE c.type # type
    <3>1. i # n + 1
      BY <1>1, <1>2, <2>2 DEF Latest
    <3>2. i \in 1 .. n /\ t[i] = s[i]
      BY <1>1, <3>1
    <3>3. \A j \in 1 .. n : j \in 1 .. (n + 1) /\ t[j] = s[j]
      BY <1>1
    <3>4. Latest(s, type, i)
      BY <1>1, <1>2, <3>2, <3>3 DEF Latest, n
    <3>. QED
      BY <2>2, <3>2, <3>4
  <2>. QED
    BY <2>1, <2>2
<1>3. ASSUME Silent(t, type) PROVE c.type # type /\ Silent(s, type)
  <2>1. \A j \in 1 .. n : j \in 1 .. (n + 1) /\ t[j] = s[j]
    BY <1>1
  <2>2. n + 1 \in 1 .. (n + 1)
    BY <1>1
  <2>. QED
    BY <1>1, <1>3, <2>1, <2>2 DEF Silent, n
<1>. QED
  BY <1>1, <1>2, <1>3 DEF t, n

-----------------------------------------------------------------------------
(* SizeAgrees: the last size on its way, or the one a client has, is the    *)
(* server's, unless a command is still to tell it                           *)

Resized == \E h \in Handlers : at[h] = "resized"

SizeComes(c) ==
  /\ \A i \in 1 .. Len(queue[c]) :
       Latest(queue[c], "BufferSizeChanged", i) => queue[c][i].size = size
  /\ link[c] = "on" /\ Silent(queue[c], "BufferSizeChanged") => cap[c] = size

SizeInv ==
  used["overlaps"] = 0 /\ used["lost"] = 0 =>
    /\ \A h \in Handlers : at[h] = "resized" => newSize[h] = size
    /\ ~Resized => \A c \in Clients : SizeComes(c)

LEMMA SizeInit == Init => SizeInv
<1> SUFFICES ASSUME Init
             PROVE  /\ \A h \in Handlers : at[h] = "idle"
                    /\ \A c \in Clients : Len(queue[c]) = 0 /\ cap[c] = size
  BY DEF SizeInv, SizeComes
<1>. QED
  BY DEF Init

\* A client that comes, goes or takes a message.
LEMMA ClientKeepsSize ==
  ASSUME TypeInv, Queues, NEW c \in Clients, Subscribe(c) \/ Greet(c) \/ Leave(c) \/ Process(c),
         NEW e \in Clients, SizeComes(e)
  PROVE  SizeComes(e)'
<1>1. CASE e # c
  <2>1. queue'[e] = queue[e] /\ link'[e] = link[e] /\ cap'[e] = cap[e] /\ size' = size
    BY <1>1 DEF Subscribe, Greet, Leave, Process, SetSnapshot, ApplyDelta, ChangeSize, buffer, chart,
                TypeInv, TypeOK
  <2>. QED
    BY <2>1 DEF SizeComes
<1>2. CASE e = c /\ Subscribe(c)
  <2>1. queue' = queue /\ link'[c] = "subscribed" /\ size' = size
    BY <1>2 DEF Subscribe, buffer, TypeInv, TypeOK
  <2>. QED
    BY <1>2, <2>1 DEF SizeComes
<1>3. CASE e = c /\ Greet(c)
  <2>1. queue' = queue /\ cap'[c] = size /\ size' = size
    BY <1>3 DEF Greet, buffer, TypeInv, TypeOK
  <2>. QED
    BY <1>3, <2>1 DEF SizeComes
<1>4. CASE e = c /\ Leave(c)
  <2>1. queue'[c] = <<>> /\ link'[c] = "off"
    BY <1>4 DEF Leave, TypeInv, TypeOK
  <2>. QED
    BY <1>4, <2>1 DEF SizeComes
<1>5. CASE e = c /\ Process(c)
  <2> DEFINE q == queue[c]
             m == Head(q)
             t == "BufferSizeChanged"
  <2>1. /\ q \in Seq(Messages) /\ q # <<>> /\ queue'[c] = Tail(q) /\ size' = size
        /\ link[c] = "on"
    BY <1>5 DEF Process, buffer, TypeInv, TypeOK
  <2>2. cap'[c] = IF m.type = t THEN m.size ELSE cap[c]
    BY <1>5 DEF Process, ChangeSize, TypeInv, TypeOK
  <2> HIDE DEF q, m, t
  <2>3. /\ \A i \in 1 .. Len(Tail(q)) : Latest(Tail(q), t, i) =>
             i + 1 \in 1 .. Len(q) /\ Latest(q, t, i + 1) /\ Tail(q)[i] = q[i + 1]
        /\ Silent(Tail(q), t) /\ m.type # t => Silent(q, t)
        /\ Silent(Tail(q), t) /\ m.type = t => 1 \in 1 .. Len(q) /\ Latest(q, t, 1) /\ q[1] = m
    BY <2>1, TailSays DEF m
  <2>4. /\ \A i \in 1 .. Len(q) : Latest(q, t, i) => q[i].size = size
        /\ Silent(q, t) => cap[c] = size
    BY <1>5, <2>1 DEF SizeComes, q, t
  <2>5. \A i \in 1 .. Len(Tail(q)) : Latest(Tail(q), t, i) => Tail(q)[i].size = size
    BY <2>3, <2>4
  <2>6. Silent(Tail(q), t) => cap'[c] = size
    BY <2>2, <2>3, <2>4
  <2>. QED
    BY <1>5, <2>1, <2>5, <2>6 DEF SizeComes, t
<1>. QED
  BY <1>1, <1>2, <1>3, <1>4, <1>5

\* A message that is sent to everyone: the size told is the server's.
LEMMA SentKeepsSize ==
  ASSUME TypeInv, Queues, NEW m \in Messages, Broadcast(m), used'["lost"] = 0,
         UNCHANGED <<size, link, cap>>, NEW c \in Clients,
         m.type # "BufferSizeChanged" => SizeComes(c),
         m.type = "BufferSizeChanged" => m.size = size
  PROVE  SizeComes(c)'
<1> DEFINE q == queue[c]
           t == "BufferSizeChanged"
<1>1. CASE link[c] = "off"
  <2>1. queue'[c] = <<>>
    BY <1>1, Delivered DEF Queues
  <2>. QED
    BY <1>1, <2>1 DEF SizeComes
<1>2. CASE link[c] # "off"
  <2>1. queue'[c] = Append(q, m) /\ q \in Seq(Messages)
    BY <1>2, Delivered DEF TypeInv, TypeOK
  <2> HIDE DEF q, t
  <2>2. /\ \A i \in 1 .. Len(Append(q, m)) : Latest(Append(q, m), t, i) =>
             \/ m.type = t /\ Append(q, m)[i] = m
             \/ m.type # t /\ i \in 1 .. Len(q) /\ Latest(q, t, i) /\ Append(q, m)[i] = q[i]
        /\ Silent(Append(q, m), t) => m.type # t /\ Silent(q, t)
    BY <2>1, AppendSays
  <2>3. m.type # t => /\ \A i \in 1 .. Len(q) : Latest(q, t, i) => q[i].size = size
                      /\ link[c] = "on" /\ Silent(q, t) => cap[c] = size
    BY DEF SizeComes, q, t
  <2>4. m.type = t => m.size = size
    BY DEF t
  <2>5. \A i \in 1 .. Len(Append(q, m)) :
          Latest(Append(q, m), t, i) => Append(q, m)[i].size = size
    BY <2>2, <2>3, <2>4
  <2>6. link[c] = "on" /\ Silent(Append(q, m), t) => cap[c] = size
    BY <2>2, <2>3
  <2>. QED
    BY <2>1, <2>5, <2>6 DEF SizeComes, t
<1>. QED
  BY <1>1, <1>2

LEMMA SizeNext == Base /\ SizeInv /\ [Next]_vars => SizeInv'
<1> SUFFICES ASSUME Base, SizeInv, [Next]_vars, used'["overlaps"] = 0, used'["lost"] = 0
             PROVE  /\ \A h \in Handlers : at'[h] = "resized" => newSize'[h] = size'
                    /\ ~Resized' => \A c \in Clients : SizeComes(c)'
  BY DEF SizeInv
<1>0. TypeInv /\ Queues /\ used["overlaps"] = 0 /\ used["lost"] = 0
  BY UsedStays DEF Base, Inv
<1>1. /\ Solo /\ \A h \in Handlers : at[h] = "resized" => newSize[h] = size
      /\ ~Resized => \A c \in Clients : SizeComes(c)
  BY <1>0 DEF Base, SizeInv
<1>2. CASE UNCHANGED <<size, at, newSize, channel, cap>>
  BY <1>1, <1>2 DEF Resized, SizeComes, channel
<1>3. CASE Sample \/ Tick \/ Gather \/ UNCHANGED vars
  BY <1>2, <1>3 DEF Sample, Tick, Gather, vars, buffer, commands, chart
<1>4. CASE SendDelta
  <2>1. delta \in Messages /\ delta.type # "BufferSizeChanged"
    BY <1>0, <1>4 DEF SendDelta, TypeInv, Locals, Messages, Charts
  <2>2. Broadcast(delta) /\ UNCHANGED <<size, at, newSize, link, cap>>
    BY <1>4 DEF SendDelta, buffer, commands, chart
  <2>. QED
    BY <1>0, <1>1, <2>1, <2>2, SentKeepsSize DEF Resized
<1>5. ASSUME NEW h \in Handlers, SendSnapshot(h)
      PROVE  /\ \A x \in Handlers : at'[x] = "resized" => newSize'[x] = size'
             /\ ~Resized' => \A c \in Clients : SizeComes(c)'
  <2>1. snapshot[h] \in Messages /\ snapshot[h].type # "BufferSizeChanged"
    BY <1>0, <1>5 DEF SendSnapshot, TypeInv, Locals, Messages, Charts
  <2>2. Broadcast(snapshot[h]) /\ UNCHANGED <<size, newSize, link, cap>>
    BY <1>5 DEF SendSnapshot, buffer, chart
  <2>3. \A x \in Handlers : at'[x] = "resized" <=> at[x] = "resized"
    BY <1>0, <1>5 DEF SendSnapshot, Goto, TypeInv, TypeOK
  <2>. QED
    BY <1>0, <1>1, <2>1, <2>2, <2>3, SentKeepsSize DEF Resized
<1>6. ASSUME NEW h \in Handlers, TellSize(h)
      PROVE  /\ \A x \in Handlers : at'[x] = "resized" => newSize'[x] = size'
             /\ ~Resized' => \A c \in Clients : SizeComes(c)'
  <2> DEFINE m == [type |-> "BufferSizeChanged", size |-> newSize[h]]
  <2>1. m \in Messages /\ m.size = size /\ m.type = "BufferSizeChanged"
    BY <1>0, <1>1, <1>6 DEF TellSize, TypeInv, Locals, Messages
  <2>2. Broadcast(m) /\ UNCHANGED <<size, link, cap>>
    BY <1>6 DEF TellSize, buffer, chart
  <2>3. \A x \in Handlers : at'[x] # "resized"
    BY <1>0, <1>1, <1>6 DEF TellSize, Goto, Solo, TypeInv, TypeOK
  <2> HIDE DEF m
  <2>. QED
    BY <1>0, <2>1, <2>2, <2>3, SentKeepsSize
<1>7. ASSUME NEW h \in Handlers, NEW n \in Sizes, SetBufferSize(h, n)
      PROVE  /\ \A x \in Handlers : at'[x] = "resized" => newSize'[x] = size'
             /\ ~Resized' => \A c \in Clients : SizeComes(c)'
  <2>1. \A x \in Handlers : at[x] = "idle"
    BY <1>0, <1>7, Counted DEF SetBufferSize
  <2>2. /\ at'[h] = "resized" /\ newSize'[h] = n /\ size' = n
        /\ \A x \in Handlers \ {h} : at'[x] = "idle"
    BY <1>0, <1>7, <2>1 DEF SetBufferSize, SetCapacity, Goto, TypeInv, TypeOK
  <2>. QED
    BY <2>2 DEF Resized
<1>8. ASSUME NEW h \in Handlers,
             ClearBuffer(h) \/ ClearAnother(h) \/ Abort(h) \/ ReadSnapshot(h)
      PROVE  /\ \A x \in Handlers : at'[x] = "resized" => newSize'[x] = size'
             /\ ~Resized' => \A c \in Clients : SizeComes(c)'
  <2>1. \A x \in Handlers : at'[x] = "resized" <=> at[x] = "resized"
    BY <1>0, <1>8 DEF ClearBuffer, ClearAnother, Abort, ReadSnapshot, Start, Goto, TypeInv, TypeOK
  <2>2. UNCHANGED <<size, newSize, channel, cap>>
    BY <1>8 DEF ClearBuffer, ClearAnother, Abort, ReadSnapshot, buffer, chart
  <2>. QED
    BY <1>1, <2>1, <2>2 DEF Resized, SizeComes, channel
<1>9. ASSUME NEW c \in Clients, Subscribe(c) \/ Greet(c) \/ Leave(c) \/ Process(c)
      PROVE  /\ \A x \in Handlers : at'[x] = "resized" => newSize'[x] = size'
             /\ ~Resized' => \A e \in Clients : SizeComes(e)'
  <2>1. UNCHANGED <<size, at, newSize>>
    BY <1>9 DEF Subscribe, Greet, Leave, Process, buffer, commands
  <2>2. \A e \in Clients : SizeComes(e) => SizeComes(e)'
    BY <1>0, <1>9, ClientKeepsSize
  <2>. QED
    BY <1>1, <2>1, <2>2 DEF Resized
<1>. QED
  BY <1>3, <1>4, <1>5, <1>6, <1>7, <1>8, <1>9 DEF Next, Broadcaster, Command

\* A settled client has the server's buffer size if commands came one at a time and
\* nobody lost a message, whatever was aborted and whoever came and went.
THEOREM SizesAgree == Spec => []SizeAgrees
<1>1. SizeInv => SizeAgrees
  <2> SUFFICES ASSUME SizeInv, used["overlaps"] = 0, used["lost"] = 0, NEW c \in Clients, Settled(c)
               PROVE  cap[c] = size
    BY DEF SizeAgrees, Without
  <2>1. ~Resized /\ link[c] = "on" /\ Silent(queue[c], "BufferSizeChanged")
    BY DEF Settled, Resized, Silent
  <2>. QED
    BY <2>1 DEF SizeInv, SizeComes
<1>. QED
  BY <1>1, BaseInit, BaseNext, SizeInit, SizeNext, PTL DEF Spec

-----------------------------------------------------------------------------
(* NothingResurrected: the last snapshot on its way, or the chart a client  *)
(* has, was read after the last clearing, unless a command is still to send *)
(* one; deltas that were overtaken are below the cursor it brings           *)

Above(s, n) == \A i \in 1 .. Len(s) : s[i] > n

LEMMA NewestAbove ==
  ASSUME NEW s \in Seq(Nat), NEW n \in Nat, NEW low, Above(s, low)
  PROVE  Above(Newest(s, n), low)
<1>1. CASE Len(s) <= n
  BY <1>1 DEF Newest
<1>2. CASE ~(Len(s) <= n)
  <2> DEFINE k == Len(s) - n
             t == Newest(s, n)
  <2>1. t = SubSeq(s, k + 1, Len(s)) /\ k \in Nat /\ k + n = Len(s)
    BY <1>2 DEF Newest
  <2>2. k + 1 \in Int /\ Len(s) \in Int /\ \A i \in k + 1 .. Len(s) : s[i] \in Nat
    BY <2>1
  <2>3. /\ Len(SubSeq(s, k + 1, Len(s))) = IF k + 1 <= Len(s) THEN Len(s) - (k + 1) + 1 ELSE 0
        /\ \A i \in 1 .. Len(s) - (k + 1) + 1 : SubSeq(s, k + 1, Len(s))[i] = s[k + 1 + i - 1]
    BY <2>2, SubSeqProperties
  <2>4. /\ Len(s) - (k + 1) + 1 = n /\ \A i \in 1 .. n : k + 1 + i - 1 = k + i
        /\ \A i \in 1 .. n : k + i \in 1 .. Len(s)
    BY <2>1
  <2>5. Len(t) = n /\ \A i \in 1 .. n : t[i] = s[k + i]
    BY <2>1, <2>3, <2>4
  <2> HIDE DEF k, t
  <2>6. Above(t, low)
    BY <2>4, <2>5 DEF Above
  <2>. QED
    BY <2>6 DEF t
<1>. QED
  BY <1>1, <1>2

LEMMA JoinedAbove ==
  ASSUME NEW s \in Seq(Nat), NEW t \in Seq(Nat), NEW low, Above(s, low), Above(t, low)
  PROVE  Above(s \o t, low)
<1> DEFINE u == s \o t
<1>1. \A i \in 1 .. Len(u) : \/ i \in 1 .. Len(s) /\ u[i] = s[i]
                             \/ i - Len(s) \in 1 .. Len(t) /\ u[i] = t[i - Len(s)]
  OBVIOUS
<1> HIDE DEF u
<1>2. Above(u, low)
  BY <1>1 DEF Above
<1>. QED
  BY <1>2 DEF u

LEMMA IdsAbove ==
  ASSUME NEW from \in Nat, NEW to \in Nat, NEW low \in Nat, low <= from
  PROVE  Ids(from, to) \in Seq(Nat) /\ Above(Ids(from, to), low)
<1> DEFINE s == Ids(from, to)
<1>1. s \in Seq(Nat) /\ \A i \in 1 .. Len(s) : s[i] > from
  BY IdsAre
<1>2. \A i \in 1 .. Len(s) : s[i] \in Nat
  BY <1>1
<1> HIDE DEF s
<1>3. Above(s, low)
  BY <1>1, <1>2 DEF Above
<1>. QED
  BY <1>1, <1>3 DEF s

Bounds == wiped <= lo /\ lo <= total /\ prevCursor <= total

Clean(m) == m.type = "ChartData" /\ m.from >= wiped /\ m.cursor >= wiped

CleanComes(c) ==
  /\ \A i \in 1 .. Len(queue[c]) : Latest(queue[c], "ChartData", i) => Clean(queue[c][i])
  /\ link[c] = "on" /\ Silent(queue[c], "ChartData") =>
       cursor[c] >= wiped /\ Above(points[c], wiped)

Idle == \A h \in Handlers : at[h] = "idle"

WipeInv ==
  /\ Bounds
  /\ tick = "send" => delta.type = "ChartDelta"
  /\ (\A k \in {"overlaps", "aborts", "lost"} : used[k] = 0) =>
       /\ \A h \in Handlers : at[h] = "send" => Clean(snapshot[h])
       /\ Idle => \A c \in Clients : CleanComes(c)

LEMMA WipeInit == Init => WipeInv
<1> SUFFICES ASSUME Init
             PROVE  /\ wiped = 0 /\ lo = 0 /\ total = 0 /\ prevCursor = 0 /\ tick = "idle"
                    /\ \A h \in Handlers : at[h] = "idle"
                    /\ \A c \in Clients : /\ Len(queue[c]) = 0 /\ cursor[c] = 0
                                          /\ Len(points[c]) = 0
  BY DEF WipeInv, Bounds, CleanComes, Above
<1>. QED
  BY DEF Init

\* What a client draws after it has taken a message is above a bound that its chart, or
\* the snapshot it takes, is above.
LEMMA ProcessKeepsAbove ==
  ASSUME TypeInv, NEW c \in Clients, Process(c), NEW low \in Nat,
         IF Head(queue[c]).type = "ChartData"
         THEN Head(queue[c]).from >= low /\ Head(queue[c]).cursor >= low
         ELSE cursor[c] >= low /\ Above(points[c], low)
  PROVE  cursor'[c] >= low /\ Above(points'[c], low)
<1> DEFINE m == Head(queue[c])
<1>1. /\ m \in Messages /\ points[c] \in Seq(Nat) /\ cursor[c] \in Nat /\ cap[c] \in Nat
      /\ Larger(Len(points[c]), cap[c]) \in Nat
  <2>1. queue[c] \in Seq(Messages) /\ queue[c] # <<>>
    BY DEF Process, TypeInv, TypeOK
  <2>2. points[c] \in Seq(Nat) /\ cursor[c] \in Nat /\ cap[c] \in Sizes
    BY DEF TypeInv, TypeOK
  <2>3. Len(points[c]) \in Nat /\ cap[c] \in Nat
    BY <2>2, SizesAssumption, LenProperties DEF SizesAssumption
  <2>4. m \in Messages
    BY <2>1, HeadTailProperties
  <2>5. Larger(Len(points[c]), cap[c]) \in Nat
    BY <2>3 DEF Larger
  <2>. QED
    BY <2>2, <2>3, <2>4, <2>5
<1>2. /\ m.type = "BufferSizeChanged" => m.size \in Nat
      /\ m.type # "BufferSizeChanged" => m.from \in Nat /\ m.cursor \in Nat
  BY <1>1, SizesAssumption DEF SizesAssumption, Messages, Charts
<1>3. \/ m.type = "ChartData" /\ SetSnapshot(c, m, cap[c])
      \/ m.type = "ChartDelta" /\ ApplyDelta(c, m)
      \/ m.type = "BufferSizeChanged" /\ ChangeSize(c, m) /\ UNCHANGED <<cursor, stats>>
  BY DEF Process
<1>4. IF m.type = "ChartData" THEN m.from >= low /\ m.cursor >= low
      ELSE cursor[c] >= low /\ Above(points[c], low)
  OBVIOUS
<1> HIDE DEF m
<1>5. CASE m.type = "ChartData" /\ SetSnapshot(c, m, cap[c])
  <2>1. cursor'[c] = m.cursor /\ points'[c] = Newest(Ids(m.from, m.cursor), cap[c])
    BY <1>5 DEF SetSnapshot, TypeInv, TypeOK
  <2>2. Ids(m.from, m.cursor) \in Seq(Nat) /\ Above(Ids(m.from, m.cursor), low)
    BY <1>2, <1>4, <1>5, IdsAbove
  <2>. QED
    BY <1>1, <1>4, <1>5, <2>1, <2>2, NewestAbove
<1>6. CASE m.type = "ChartDelta" /\ ApplyDelta(c, m)
  <2>1. CASE m.cursor <= cursor[c]
    BY <1>4, <1>6, <2>1 DEF ApplyDelta
  <2>2. CASE ~(m.cursor <= cursor[c])
    <3> DEFINE fresh == Ids(Larger(m.from, cursor[c]), m.cursor)
               n == Larger(Len(points[c]), cap[c])
    <3>1. cursor'[c] = m.cursor /\ points'[c] = Newest(points[c] \o fresh, n)
      BY <1>6, <2>2 DEF ApplyDelta, TypeInv, TypeOK
    <3>2. Larger(m.from, cursor[c]) \in Nat /\ low <= Larger(m.from, cursor[c]) /\ m.cursor >= low
      BY <1>1, <1>2, <1>4, <1>6, <2>2 DEF Larger
    <3>3. fresh \in Seq(Nat) /\ Above(fresh, low)
      BY <1>2, <1>6, <3>2, IdsAbove
    <3>4. n \in Nat
      BY <1>1
    <3> HIDE DEF fresh, n
    <3>5. points[c] \o fresh \in Seq(Nat) /\ Above(points[c] \o fresh, low)
      BY <1>1, <1>4, <1>6, <3>3, JoinedAbove
    <3>. QED
      BY <3>1, <3>2, <3>4, <3>5, NewestAbove
  <2>. QED
    BY <2>1, <2>2
<1>7. CASE m.type = "BufferSizeChanged" /\ ChangeSize(c, m) /\ UNCHANGED <<cursor, stats>>
  <2>1. cursor'[c] = cursor[c] /\ points'[c] = Newest(points[c], m.size)
    BY <1>7 DEF ChangeSize, TypeInv, TypeOK
  <2>. QED
    BY <1>1, <1>2, <1>4, <1>7, <2>1, NewestAbove
<1>. QED
  BY <1>3, <1>5, <1>6, <1>7

LEMMA ClientKeepsClean ==
  ASSUME TypeInv, Bounds, Queues, NEW c \in Clients,
         Subscribe(c) \/ Greet(c) \/ Leave(c) \/ Process(c), NEW e \in Clients, CleanComes(e)
  PROVE  CleanComes(e)'
<1>0. wiped' = wiped /\ wiped \in Nat
  BY DEF Subscribe, Greet, Leave, Process, buffer, TypeInv, TypeOK
<1>1. CASE e # c
  <2>1. /\ queue'[e] = queue[e] /\ link'[e] = link[e]
        /\ cursor'[e] = cursor[e] /\ points'[e] = points[e]
    BY <1>1 DEF Subscribe, Greet, Leave, Process, SetSnapshot, ApplyDelta, ChangeSize, chart,
                TypeInv, TypeOK
  <2>. QED
    BY <1>0, <2>1 DEF CleanComes, Clean
<1>2. CASE e = c /\ Subscribe(c)
  <2>1. queue' = queue /\ link'[c] = "subscribed"
    BY <1>2 DEF Subscribe, TypeInv, TypeOK
  <2>. QED
    BY <1>0, <1>2, <2>1 DEF CleanComes, Clean
<1>3. CASE e = c /\ Greet(c)
  <2>1. queue' = queue /\ cursor'[c] = total /\ points'[c] = Newest(Ids(lo, total), size)
    BY <1>3 DEF Greet, SetSnapshot, ChartData, Message, TypeInv, TypeOK
  <2>2. total \in Nat /\ lo \in Nat /\ size \in Nat
    BY SizesAssumption DEF SizesAssumption, TypeInv, TypeOK
  <2>3. Ids(lo, total) \in Seq(Nat) /\ Above(Ids(lo, total), wiped)
    BY <1>0, <2>2, IdsAbove DEF Bounds
  <2>4. Above(points'[c], wiped)
    BY <2>1, <2>2, <2>3, NewestAbove
  <2>5. cursor'[c] >= wiped
    BY <1>0, <2>1, <2>2 DEF Bounds
  <2>. QED
    BY <1>0, <1>3, <2>1, <2>4, <2>5 DEF CleanComes, Clean
<1>4. CASE e = c /\ Leave(c)
  <2>1. queue'[c] = <<>> /\ link'[c] = "off"
    BY <1>4 DEF Leave, TypeInv, TypeOK
  <2>. QED
    BY <1>4, <2>1 DEF CleanComes
<1>5. CASE e = c /\ Process(c)
  <2> DEFINE q == queue[c]
             m == Head(q)
             t == "ChartData"
  <2>1. q \in Seq(Messages) /\ q # <<>> /\ queue'[c] = Tail(q) /\ link[c] = "on"
    BY <1>5 DEF Process, TypeInv, TypeOK
  <2>2. /\ \A i \in 1 .. Len(q) : Latest(q, t, i) => Clean(q[i])
        /\ Silent(q, t) => cursor[c] >= wiped /\ Above(points[c], wiped)
    BY <1>5, <2>1 DEF CleanComes
  <2>3. (IF m.type = t THEN m.from >= wiped /\ m.cursor >= wiped
         ELSE cursor[c] >= wiped /\ Above(points[c], wiped))
        => cursor'[c] >= wiped /\ Above(points'[c], wiped)
    BY <1>0, <1>5, ProcessKeepsAbove
  <2> HIDE DEF q, m, t
  <2>4. /\ \A i \in 1 .. Len(Tail(q)) : Latest(Tail(q), t, i) =>
             i + 1 \in 1 .. Len(q) /\ Latest(q, t, i + 1) /\ Tail(q)[i] = q[i + 1]
        /\ Silent(Tail(q), t) /\ m.type # t => Silent(q, t)
        /\ Silent(Tail(q), t) /\ m.type = t => 1 \in 1 .. Len(q) /\ Latest(q, t, 1) /\ q[1] = m
    BY <2>1, TailSays DEF m
  <2>5. \A i \in 1 .. Len(Tail(q)) : Latest(Tail(q), t, i) => Clean(Tail(q)[i])
    BY <2>2, <2>4
  <2>6. Silent(Tail(q), t) => cursor'[c] >= wiped /\ Above(points'[c], wiped)
    BY <2>2, <2>3, <2>4 DEF Clean
  <2>. QED
    BY <1>0, <1>5, <2>1, <2>5, <2>6 DEF CleanComes, Clean, t
<1>. QED
  BY <1>1, <1>2, <1>3, <1>4, <1>5

\* A message that is sent to everyone: a snapshot is a clean one.
LEMMA SentKeepsClean ==
  ASSUME TypeInv, Queues, NEW m \in Messages, Broadcast(m), used'["lost"] = 0,
         UNCHANGED <<wiped, link, chart>>, NEW c \in Clients,
         Clean(m) \/ (m.type # "ChartData" /\ CleanComes(c))
  PROVE  CleanComes(c)'
<1> DEFINE q == queue[c]
           t == "ChartData"
<1>1. CASE link[c] = "off"
  <2>1. queue'[c] = <<>>
    BY <1>1, Delivered DEF Queues
  <2>. QED
    BY <1>1, <2>1 DEF CleanComes
<1>2. CASE link[c] # "off"
  <2>1. queue'[c] = Append(q, m) /\ q \in Seq(Messages)
    BY <1>2, Delivered DEF TypeInv, TypeOK
  <2> HIDE DEF q, t
  <2>2. /\ Append(q, m) \in Seq(Messages)
        /\ Silent(Append(q, m), t) => m.type # t /\ Silent(q, t)
    BY <2>1, AppendSays
  <2>3. ASSUME NEW i \in 1 .. Len(Append(q, m)), Latest(Append(q, m), t, i)
         PROVE  \/ m.type = t /\ Append(q, m)[i] = m
                \/ m.type # t /\ i \in 1 .. Len(q) /\ Latest(q, t, i) /\ Append(q, m)[i] = q[i]
    BY <2>1, <2>3, AppendSays
  <2>4. m.type # t =>
          /\ \A i \in 1 .. Len(q) : Latest(q, t, i) => Clean(q[i])
          /\ link[c] = "on" /\ Silent(q, t) => cursor[c] >= wiped /\ Above(points[c], wiped)
    <3>1. m.type # t => CleanComes(c)
      BY DEF Clean, t
    <3>. QED
      BY <3>1 DEF CleanComes, q, t
  <2>5. m.type = t => Clean(m)
    BY DEF t
  <2>6. \A i \in 1 .. Len(Append(q, m)) :
          Latest(Append(q, m), t, i) => Clean(Append(q, m)[i])
    BY <2>3, <2>4, <2>5
  <2>7. link[c] = "on" /\ Silent(Append(q, m), t) => cursor[c] >= wiped /\ Above(points[c], wiped)
    BY <2>2, <2>4
  <2>. QED
    BY <2>1, <2>6, <2>7 DEF CleanComes, Clean, chart, t
<1>. QED
  BY <1>1, <1>2

LEMMA BoundsStay ==
  ASSUME TypeInv, Bounds, [Next]_vars
  PROVE  Bounds'
<1>0. total \in Nat /\ lo \in Nat /\ wiped \in Nat /\ prevCursor \in Nat
  BY DEF TypeInv, TypeOK
<1>1. CASE UNCHANGED <<buffer, prevCursor>>
  BY <1>1 DEF buffer, Bounds
<1>2. CASE Sample
  BY <1>0, <1>2 DEF Sample, Bounds, broadcaster
<1>3. CASE Tick \/ SendDelta
  BY <1>1, <1>3 DEF Tick, SendDelta
<1>4. CASE Gather
  BY <1>0, <1>4 DEF Gather, buffer, Bounds
<1>5. ASSUME NEW h \in Handlers, ClearBuffer(h)
      PROVE  Bounds'
  BY <1>0, <1>5 DEF ClearBuffer, Bounds, broadcaster
<1>6. ASSUME NEW h \in Handlers, NEW n \in Sizes, SetBufferSize(h, n)
      PROVE  Bounds'
  <2>1. n \in Nat
    BY SizesAssumption DEF SizesAssumption
  <2>. QED
    BY <1>0, <1>6, <2>1 DEF SetBufferSize, SetCapacity, Bounds, broadcaster
<1>7. ASSUME NEW h \in Handlers, ClearAnother(h) \/ Abort(h) \/ Command(h)
      PROVE  Bounds'
  BY <1>1, <1>7 DEF ClearAnother, Abort, Command, TellSize, ReadSnapshot, SendSnapshot, broadcaster
<1>8. CASE \E c \in Clients : Subscribe(c) \/ Greet(c) \/ Leave(c) \/ Process(c)
  BY <1>1, <1>8 DEF Subscribe, Greet, Leave, Process, broadcaster
<1>9. CASE UNCHANGED vars
  BY <1>1, <1>9 DEF vars, broadcaster
<1>. QED
  BY <1>2, <1>3, <1>4, <1>5, <1>6, <1>7, <1>8, <1>9 DEF Next, Broadcaster

LEMMA DeltasAreDeltas ==
  ASSUME tick = "send" => delta.type = "ChartDelta", [Next]_vars, tick' = "send"
  PROVE  delta'.type = "ChartDelta"
<1>1. CASE UNCHANGED <<tick, delta>>
  BY <1>1
<1>2. CASE Gather
  BY <1>2 DEF Gather, ChartDelta, Message
<1>3. CASE Tick \/ SendDelta
  BY <1>3 DEF Tick, SendDelta
<1>4. CASE Sample \/ UNCHANGED vars
  BY <1>1, <1>4 DEF Sample, vars, broadcaster
<1>5. ASSUME NEW h \in Handlers,
             \/ ClearBuffer(h) \/ ClearAnother(h) \/ Abort(h) \/ Command(h)
             \/ \E n \in Sizes : SetBufferSize(h, n)
      PROVE  delta'.type = "ChartDelta"
  BY <1>1, <1>5 DEF ClearBuffer, ClearAnother, Abort, Command, TellSize, ReadSnapshot, SendSnapshot,
                    SetBufferSize, broadcaster
<1>6. CASE \E c \in Clients : Subscribe(c) \/ Greet(c) \/ Leave(c) \/ Process(c)
  BY <1>1, <1>6 DEF Subscribe, Greet, Leave, Process, broadcaster
<1>. QED
  BY <1>2, <1>3, <1>4, <1>5, <1>6 DEF Next, Broadcaster

LEMMA WipeNext == Base /\ WipeInv /\ [Next]_vars => WipeInv'
<1> SUFFICES ASSUME Base, WipeInv, [Next]_vars,
                    \A k \in {"overlaps", "aborts", "lost"} : used'[k] = 0
             PROVE  /\ \A h \in Handlers : at'[h] = "send" => Clean(snapshot[h])'
                    /\ Idle' => \A c \in Clients : CleanComes(c)'
  <2>1. Base /\ WipeInv /\ [Next]_vars => Bounds'
    BY BoundsStay DEF Base, Inv, WipeInv
  <2>2. WipeInv /\ [Next]_vars => (tick' = "send" => delta'.type = "ChartDelta")
    BY DeltasAreDeltas DEF WipeInv
  <2>. QED
    BY <2>1, <2>2 DEF WipeInv
<1>0. TypeInv /\ Queues /\ \A k \in {"overlaps", "aborts", "lost"} : used[k] = 0
  BY UsedStays DEF Base, Inv
<1>1. /\ Solo /\ Bounds /\ \A h \in Handlers : at[h] = "send" => Clean(snapshot[h])
      /\ Idle => \A c \in Clients : CleanComes(c)
  BY <1>0 DEF Base, WipeInv
<1>2. CASE UNCHANGED <<wiped, at, snapshot, channel, chart>>
  BY <1>1, <1>2 DEF Idle, CleanComes, Clean, channel, chart
<1>3. CASE Sample \/ Tick \/ Gather \/ UNCHANGED vars
  BY <1>2, <1>3 DEF Sample, Tick, Gather, vars, buffer, commands
<1>4. CASE SendDelta
  <2>1. delta \in Messages /\ delta.type # "ChartData"
    BY <1>0, <1>4 DEF SendDelta, TypeInv, Locals, Messages, WipeInv
  <2>2. Broadcast(delta) /\ UNCHANGED <<wiped, at, snapshot, link, chart>>
    BY <1>4 DEF SendDelta, buffer, commands
  <2>3. Idle => \A c \in Clients : CleanComes(c)'
    BY <1>0, <1>1, <2>1, <2>2, SentKeepsClean
  <2>. QED
    BY <1>1, <2>2, <2>3 DEF Idle, Clean
<1>5. ASSUME NEW h \in Handlers, SendSnapshot(h)
      PROVE  /\ \A x \in Handlers : at'[x] = "send" => Clean(snapshot[x])'
             /\ Idle' => \A c \in Clients : CleanComes(c)'
  <2>1. snapshot[h] \in Messages /\ Clean(snapshot[h])
    BY <1>0, <1>1, <1>5 DEF SendSnapshot, TypeInv, Locals, Messages
  <2>2. Broadcast(snapshot[h]) /\ UNCHANGED <<wiped, link, chart>>
    BY <1>5 DEF SendSnapshot, buffer
  <2>3. \A x \in Handlers : at'[x] # "send"
    BY <1>0, <1>1, <1>5 DEF SendSnapshot, Goto, Solo, TypeInv, TypeOK
  <2>4. \A c \in Clients : CleanComes(c)'
    BY <1>0, <2>1, <2>2, SentKeepsClean
  <2>. QED
    BY <2>3, <2>4
<1>6. ASSUME NEW h \in Handlers, TellSize(h)
      PROVE  /\ \A x \in Handlers : at'[x] = "send" => Clean(snapshot[x])'
             /\ Idle' => \A c \in Clients : CleanComes(c)'
  <2>1. at'[h] = "read" /\ \A x \in Handlers : at'[x] # "send"
    BY <1>0, <1>1, <1>6 DEF TellSize, Goto, Solo, TypeInv, TypeOK
  <2>. QED
    BY <2>1 DEF Idle
<1>7. ASSUME NEW h \in Handlers, ReadSnapshot(h)
      PROVE  /\ \A x \in Handlers : at'[x] = "send" => Clean(snapshot[x])'
             /\ Idle' => \A c \in Clients : CleanComes(c)'
  <2>1. /\ at'[h] = "send" /\ snapshot'[h] = ChartData /\ wiped' = wiped
        /\ \A x \in Handlers \ {h} : at'[x] # "send"
    BY <1>0, <1>1, <1>7 DEF ReadSnapshot, buffer, Goto, Solo, TypeInv, TypeOK
  <2>2. wiped \in Nat /\ lo \in Nat /\ total \in Nat
    BY <1>0 DEF TypeInv, TypeOK
  <2>3. ChartData.type = "ChartData" /\ ChartData.from >= wiped /\ ChartData.cursor >= wiped
    BY <1>1, <2>2 DEF ChartData, Message, Bounds
  <2>. QED
    BY <2>1, <2>3 DEF Idle, Clean
<1>8. ASSUME NEW h \in Handlers,
             ClearBuffer(h) \/ ClearAnother(h) \/ \E n \in Sizes : SetBufferSize(h, n)
      PROVE  /\ \A x \in Handlers : at'[x] = "send" => Clean(snapshot[x])'
             /\ Idle' => \A c \in Clients : CleanComes(c)'
  <2>1. \A x \in Handlers : at[x] = "idle"
    BY <1>0, <1>8, Counted DEF ClearBuffer, ClearAnother, SetBufferSize
  <2>2. at'[h] \in {"read", "resized"} /\ \A x \in Handlers \ {h} : at'[x] = "idle"
    BY <1>0, <1>8, <2>1 DEF ClearBuffer, ClearAnother, SetBufferSize, Goto, TypeInv, TypeOK
  <2>. QED
    BY <2>2 DEF Idle
<1>9. ASSUME NEW h \in Handlers, Abort(h)
      PROVE  FALSE
  BY <1>0, <1>9, Counted
<1>10. ASSUME NEW c \in Clients, Subscribe(c) \/ Greet(c) \/ Leave(c) \/ Process(c)
       PROVE  /\ \A x \in Handlers : at'[x] = "send" => Clean(snapshot[x])'
              /\ Idle' => \A e \in Clients : CleanComes(e)'
  <2>1. UNCHANGED <<wiped, at, snapshot>>
    BY <1>10 DEF Subscribe, Greet, Leave, Process, buffer, commands
  <2>2. \A e \in Clients : CleanComes(e) => CleanComes(e)'
    BY <1>0, <1>1, <1>10, ClientKeepsClean
  <2>. QED
    BY <1>1, <2>1, <2>2 DEF Idle, Clean
<1>. QED
  BY <1>3, <1>4, <1>5, <1>6, <1>7, <1>8, <1>9, <1>10 DEF Next, Broadcaster, Command

\* A settled client draws no sample that was cleared, if commands came one at a time to
\* their end and nobody lost a message: a delta that was read before the clearing and is
\* sent after the snapshot falls below the cursor the snapshot brings.
THEOREM ClearedStaysCleared == Spec => []NothingResurrected
<1>1. WipeInv => NothingResurrected
  <2> SUFFICES ASSUME WipeInv, \A k \in {"overlaps", "aborts", "lost"} : used[k] = 0,
                      NEW c \in Clients, Settled(c)
               PROVE  Above(points[c], wiped)
    BY DEF NothingResurrected, Without, Above
  <2>1. Idle /\ link[c] = "on" /\ Silent(queue[c], "ChartData")
    BY DEF Settled, Idle, Silent
  <2>. QED
    BY <2>1 DEF WipeInv, CleanComes
<1>. QED
  BY <1>1, BaseInit, BaseNext, WipeInit, WipeNext, PTL DEF Spec

-----------------------------------------------------------------------------
(* InSyncWithoutResets: while no buffer is reset, the chart of a client is  *)
(* the buffer as it was at the client's cursor, and the deltas on its way   *)
(* continue it without a gap that still matters                             *)

\* What the buffer starts after when n samples have been pushed.
Floor(n) == IF n > size THEN n - size ELSE 0

\* A chart that has come to k misses nothing when it takes m.
Covers(m, k) == m.from <= Larger(Floor(m.cursor), k)

Image(m) ==
  /\ m.type = "ChartDelta" /\ m.stats = <<Floor(m.cursor), m.cursor>>
  /\ m.from <= m.cursor /\ m.cursor <= total

Chain(q) ==
  \A i \in 1 .. Len(q) : Image(q[i]) /\ (i > 1 => Covers(q[i], q[i - 1].cursor))

\* Where a client will be when it has taken what is on its way.
End(c) == IF queue[c] = <<>> THEN cursor[c] ELSE queue[c][Len(queue[c])].cursor

Draws(c) ==
  /\ cap[c] = size /\ cursor[c] <= total
  /\ points[c] = Ids(Floor(cursor[c]), cursor[c])
  /\ stats[c] = <<Floor(cursor[c]), cursor[c]>>

Continues(c) ==
  /\ Chain(queue[c])
  /\ link[c] = "on" /\ queue[c] # <<>> => Covers(queue[c][1], cursor[c])
  /\ link[c] = "on" \/ queue[c] # <<>> =>
       IF tick = "send" THEN Covers(delta, End(c)) ELSE prevCursor <= End(c)

Listening == \A c \in Residents : link[c] = "on"

SyncInv ==
  Residents # {} /\ used["commands"] = 0 /\ used["lost"] = 0 =>
    /\ Idle /\ Listening /\ lo = Floor(total) /\ prevCursor <= total
    /\ tick = "gather" => haveReceivers
    /\ tick = "send" => Image(delta) /\ delta.cursor = prevCursor
    /\ \A c \in Clients : Draws(c) /\ Continues(c)

LEMMA IdsLength ==
  ASSUME NEW from \in Nat, NEW to \in Nat, from <= to
  PROVE  /\ Ids(from, to) \in Seq(Nat) /\ Len(Ids(from, to)) = to - from
         /\ \A i \in 1 .. (to - from) : Ids(from, to)[i] = from + i
<1> DEFINE n == to - from
           s == [i \in 1 .. n |-> from + i]
<1>1. n \in Nat /\ Ids(from, to) = s
  BY DEF Ids
<1> HIDE DEF n
<1>2. s \in Seq(Nat) /\ Len(s) = n /\ \A i \in 1 .. n : s[i] = from + i
  BY <1>1
<1> HIDE DEF s
<1>. QED
  BY <1>1, <1>2 DEF n

\* The newest n of a sequence that ends in the samples up to t.
LEMMA NewestOf ==
  ASSUME NEW u \in Seq(Nat), NEW n \in Nat, NEW t \in Nat, n <= t, n <= Len(u),
         \A j \in 1 .. n : u[Len(u) - n + j] = t - n + j
  PROVE  Newest(u, n) = Ids(t - n, t)
<1> DEFINE k == Len(u) - n
           v == Ids(t - n, t)
           w == Newest(u, n)
<1>1. t - n \in Nat /\ t - (t - n) = n /\ t - n <= t
  OBVIOUS
<1>2. v \in Seq(Nat) /\ Len(v) = n /\ \A i \in 1 .. n : v[i] = t - n + i
  BY <1>1, IdsLength
<1>3. w \in Seq(Nat) /\ Len(w) = n /\ \A i \in 1 .. n : w[i] = u[k + i]
  <2>1. w \in Seq(Nat)
    BY NewestIs
  <2>2. CASE Len(u) = n
    <3>1. w = u /\ k = 0
      BY <2>2 DEF Newest
    <3>. QED
      BY <2>1, <2>2, <3>1
  <2>3. CASE Len(u) > n
    <3>1. w = SubSeq(u, k + 1, Len(u)) /\ k \in Nat /\ k + n = Len(u)
      BY <2>3 DEF Newest
    <3>2. k + 1 \in Int /\ Len(u) \in Int /\ \A i \in k + 1 .. Len(u) : u[i] \in Nat
      BY <3>1
    <3>3. /\ Len(SubSeq(u, k + 1, Len(u))) = IF k + 1 <= Len(u) THEN Len(u) - (k + 1) + 1 ELSE 0
          /\ \A i \in 1 .. Len(u) - (k + 1) + 1 : SubSeq(u, k + 1, Len(u))[i] = u[k + 1 + i - 1]
      BY <3>2, SubSeqProperties
    <3>4. Len(u) - (k + 1) + 1 = n /\ \A i \in 1 .. n : k + 1 + i - 1 = k + i
      BY <3>1
    <3>. QED
      BY <2>1, <3>1, <3>3, <3>4
  <2>. QED
    BY <2>2, <2>3, LenProperties
<1>4. \A i \in 1 .. n : w[i] = v[i]
  BY <1>2, <1>3
<1> HIDE DEF k, v, w
<1>5. w = v
  BY <1>2, <1>3, <1>4, SeqEqual
<1>. QED
  BY <1>5 DEF v, w

\* The buffer at t, out of the buffer at k and the samples after it that still matter.
LEMMA DeltaDraws ==
  ASSUME NEW k \in Nat, NEW t \in Nat, k < t, NEW from \in Nat, size \in Nat,
         from <= Larger(Floor(t), k)
  PROVE  LET s == Ids(Floor(k), k) IN
         Newest(s \o Ids(Larger(from, k), t), Larger(Len(s), size)) = Ids(Floor(t), t)
<1> DEFINE a == Floor(k)
           b == Floor(t)
           f == Larger(from, k)
           s == Ids(a, k)
           r == Ids(f, t)
           u == s \o r
<1>1. /\ a \in Nat /\ b \in Nat /\ f \in Nat /\ a <= k /\ b <= t /\ f <= t /\ k <= f
      /\ k - a <= size /\ (a = 0 \/ a = k - size) /\ (k > size => a = k - size)
      /\ (t > size => b = t - size) /\ (t <= size => b = 0) /\ (f = k \/ f <= b)
  BY DEF Floor, Larger
<1> HIDE DEF a, b, f
<1>2. s \in Seq(Nat) /\ Len(s) = k - a /\ \A i \in 1 .. (k - a) : s[i] = a + i
  BY <1>1, IdsLength
<1>3. r \in Seq(Nat) /\ Len(r) = t - f /\ \A i \in 1 .. (t - f) : r[i] = f + i
  BY <1>1, IdsLength
<1>4. Larger(Len(s), size) = size
  BY <1>1, <1>2 DEF Larger
<1> HIDE DEF s, r
<1>5. /\ u \in Seq(Nat) /\ Len(u) = (k - a) + (t - f)
      /\ \A i \in 1 .. (k - a) : u[i] = s[i]
      /\ \A i \in 1 .. Len(u) : i > k - a => u[i] = r[i - (k - a)]
  <2>1. /\ u \in Seq(Nat) /\ Len(u) = Len(s) + Len(r)
        /\ \A i \in 1 .. Len(s) + Len(r) : u[i] = IF i <= Len(s) THEN s[i] ELSE r[i - Len(s)]
    BY <1>2, <1>3, ConcatProperties
  <2> HIDE DEF u
  <2>2. \A i \in 1 .. (k - a) : u[i] = s[i]
    BY <1>1, <1>2, <1>3, <2>1
  <2>3. \A i \in 1 .. Len(u) : i > k - a => u[i] = r[i - (k - a)]
    BY <1>1, <1>2, <1>3, <2>1
  <2>. QED
    BY <1>2, <1>3, <2>1, <2>2, <2>3
<1> HIDE DEF u
<1>6. \A i \in 1 .. Len(u) : i > k - a => u[i] = f + (i - (k - a))
  <2> SUFFICES ASSUME NEW i \in 1 .. Len(u), i > k - a
               PROVE  u[i] = f + (i - (k - a))
    OBVIOUS
  <2>1. i - (k - a) \in 1 .. (t - f)
    BY <1>1, <1>5
  <2>. QED
    BY <1>3, <1>5, <2>1
<1>7. f = k => \A i \in 1 .. Len(u) : u[i] = a + i
  <2> SUFFICES ASSUME f = k, NEW i \in 1 .. Len(u)
               PROVE  u[i] = a + i
    OBVIOUS
  <2>1. CASE i > k - a
    BY <1>1, <1>6, <2>1
  <2>2. CASE ~(i > k - a)
    <3>1. i \in 1 .. (k - a)
      BY <1>1, <2>2
    <3>. QED
      BY <1>2, <1>5, <3>1
  <2>. QED
    BY <2>1, <2>2
<1>8. CASE t <= size
  <2>1. a = 0 /\ b = 0 /\ f = k
    BY <1>1, <1>8
  <2>2. Len(u) = t /\ \A i \in 1 .. t : u[i] = a + i
    BY <1>1, <1>5, <1>7, <2>1
  <2>3. Ids(b, t) \in Seq(Nat) /\ Len(Ids(b, t)) = t /\ \A i \in 1 .. t : Ids(b, t)[i] = a + i
    <3>1. /\ Ids(a, t) \in Seq(Nat) /\ Len(Ids(a, t)) = t - a
          /\ \A i \in 1 .. (t - a) : Ids(a, t)[i] = a + i
      <4>1. a \in Nat /\ a <= t
        BY <1>1
      <4>. QED
        BY <4>1, IdsLength
    <3>2. t - a = t /\ a = b
      BY <2>1
    <3>. QED
      BY <3>1, <3>2
  <2>4. Newest(u, size) = u
    BY <1>8, <2>2 DEF Newest
  <2>5. u = Ids(b, t)
    BY <1>5, <2>2, <2>3, SeqEqual
  <2>. QED
    BY <1>4, <2>4, <2>5 DEF a, b, f, s, r, u
<1>9. CASE t > size
  <2>1. b = t - size /\ size <= t
    BY <1>1, <1>9
  <2>2. size <= Len(u)
    BY <1>1, <1>5, <2>1
  <2>3. ASSUME NEW j \in 1 .. size
        PROVE  u[Len(u) - size + j] = t - size + j
    <3>1. Len(u) - size + j \in 1 .. Len(u)
      BY <1>5, <2>2
    <3>2. CASE f = k
      BY <1>1, <1>5, <1>7, <3>1, <3>2
    <3>3. CASE f <= b
      <4>1. Len(u) - size + j > k - a
        BY <1>1, <1>5, <2>1, <3>3
      <4>. QED
        BY <1>1, <1>5, <1>6, <3>1, <4>1
    <3>. QED
      BY <1>1, <3>2, <3>3
  <2>4. Newest(u, size) = Ids(t - size, t)
    BY <1>5, <2>1, <2>2, <2>3, NewestOf
  <2>. QED
    BY <1>4, <2>1, <2>4 DEF a, b, f, s, r, u
<1>. QED
  BY <1>8, <1>9

LEMMA ChainTail ==
  ASSUME NEW q \in Seq(Messages), q # <<>>, Chain(q)
  PROVE  /\ Chain(Tail(q)) /\ Image(Head(q)) /\ Head(q) = q[1]
         /\ Tail(q) # <<>> => /\ Covers(Tail(q)[1], Head(q).cursor)
                              /\ Tail(q)[Len(Tail(q))] = q[Len(q)]
         /\ Tail(q) = <<>> => q[Len(q)] = Head(q)
<1> DEFINE t == Tail(q)
           n == Len(q)
<1>1. /\ t \in Seq(Messages) /\ Head(q) = q[1] /\ Len(t) = n - 1
      /\ n \in Nat /\ n >= 1 /\ \A i \in 1 .. (n - 1) : t[i] = q[i + 1]
  BY HeadTailProperties, EmptySeq, LenProperties
<1>2. t = <<>> <=> Len(t) = 0
  BY <1>1, EmptySeq
<1>3. \A i \in 1 .. n : Image(q[i]) /\ (i > 1 => Covers(q[i], q[i - 1].cursor))
  BY DEF Chain
<1> HIDE DEF t, n
<1>4. ASSUME NEW i \in 1 .. Len(t)
      PROVE  Image(t[i]) /\ (i > 1 => Covers(t[i], t[i - 1].cursor))
  <2>1. i + 1 \in 1 .. n /\ t[i] = q[i + 1] /\ i + 1 > 1 /\ (i + 1) - 1 = i
    BY <1>1
  <2>2. i > 1 => i - 1 \in 1 .. (n - 1) /\ (i - 1) + 1 = i
    BY <1>1
  <2>3. i > 1 => t[i - 1] = q[i]
    BY <1>1, <2>2
  <2>4. Covers(q[i + 1], q[i].cursor) /\ Image(q[i + 1])
    BY <1>3, <2>1
  <2>. QED
    BY <2>1, <2>3, <2>4
<1>5. Chain(t)
  BY <1>4 DEF Chain
<1>6. 1 \in 1 .. n /\ Image(q[1])
  BY <1>1, <1>3
<1>7. ASSUME t # <<>>
      PROVE  Covers(t[1], q[1].cursor) /\ t[Len(t)] = q[n]
  <2>1. 1 \in 1 .. (n - 1) /\ n - 1 \in 1 .. (n - 1) /\ (n - 1) + 1 = n /\ 2 \in 1 .. n
    BY <1>1, <1>2, <1>7
  <2>2. t[1] = q[2] /\ t[n - 1] = q[n]
    BY <1>1, <2>1
  <2>3. Covers(q[2], q[1].cursor)
    BY <1>3, <2>1
  <2>. QED
    BY <1>1, <2>2, <2>3
<1>8. t = <<>> => n = 1
  BY <1>1, <1>2
<1>. QED
  BY <1>1, <1>5, <1>6, <1>7, <1>8 DEF t, n

LEMMA ChainAppend ==
  ASSUME NEW q \in Seq(Messages), NEW m \in Messages, Chain(q), Image(m),
         q # <<>> => Covers(m, q[Len(q)].cursor)
  PROVE  /\ Chain(Append(q, m)) /\ Append(q, m) # <<>> /\ Append(q, m)[Len(Append(q, m))] = m
         /\ Append(q, m)[1] = IF q = <<>> THEN m ELSE q[1]
<1> DEFINE t == Append(q, m)
           n == Len(q)
<1>1. /\ t \in Seq(Messages) /\ Len(t) = n + 1 /\ n \in Nat /\ t # <<>>
      /\ t[n + 1] = m /\ \A i \in 1 .. n : t[i] = q[i]
  BY AppendProperties, LenProperties
<1>2. q = <<>> <=> n = 0
  BY EmptySeq
<1>3. \A i \in 1 .. n : Image(q[i]) /\ (i > 1 => Covers(q[i], q[i - 1].cursor))
  BY DEF Chain
<1>4. q # <<>> => Covers(m, q[n].cursor)
  OBVIOUS
<1> HIDE DEF t, n
<1>5. ASSUME NEW i \in 1 .. (n + 1)
      PROVE  Image(t[i]) /\ (i > 1 => Covers(t[i], t[i - 1].cursor))
  <2>1. CASE i = n + 1
    <3>1. i > 1 => i - 1 \in 1 .. n /\ i - 1 = n /\ q # <<>>
      BY <1>1, <1>2, <2>1
    <3>2. t[i] = m /\ (i > 1 => t[i - 1] = q[n])
      BY <1>1, <2>1, <3>1
    <3>. QED
      BY <1>4, <3>1, <3>2
  <2>2. CASE i # n + 1
    <3>1. i \in 1 .. n /\ (i > 1 => i - 1 \in 1 .. n)
      BY <1>1, <2>2
    <3>. QED
      BY <1>1, <1>3, <3>1
  <2>. QED
    BY <2>1, <2>2
<1>6. Chain(t)
  BY <1>1, <1>5 DEF Chain
<1>7. t[1] = IF q = <<>> THEN m ELSE q[1]
  BY <1>1, <1>2
<1>. QED
  BY <1>1, <1>6, <1>7 DEF t

LEMMA SyncInit == Init => SyncInv
<1> SUFFICES ASSUME Init
             PROVE  /\ Idle /\ Listening /\ lo = Floor(total) /\ prevCursor <= total
                    /\ tick = "idle" /\ \A c \in Clients : Draws(c) /\ Continues(c)
  BY DEF SyncInv
<1>1. /\ Idle /\ total = 0 /\ lo = 0 /\ prevCursor = 0 /\ tick = "idle" /\ size \in Nat
      /\ \A c \in Clients : /\ queue[c] = <<>> /\ points[c] = <<>> /\ cursor[c] = 0
                            /\ cap[c] = size /\ stats[c] = <<0, 0>>
  BY SizesAssumption DEF SizesAssumption, Init, Idle
<1>2. Listening
  BY ResidentsAssumption DEF ResidentsAssumption, Init, Listening
<1>3. Floor(0) = 0
  BY <1>1 DEF Floor
<1>4. Ids(0, 0) = <<>>
  BY DEF Ids
<1>5. ASSUME NEW c \in Clients
      PROVE  Draws(c)
  <2>1. cursor[c] = 0 /\ points[c] = <<>> /\ cap[c] = size /\ stats[c] = <<0, 0>> /\ 0 <= total
    BY <1>1
  <2>. QED
    BY <1>3, <1>4, <2>1 DEF Draws
<1>6. ASSUME NEW c \in Clients
      PROVE  Continues(c)
  <2>1. queue[c] = <<>> /\ tick = "idle" /\ cursor[c] = 0 /\ prevCursor = 0 /\ Len(<<>>) = 0
    BY <1>1
  <2>2. Chain(queue[c])
    BY <2>1 DEF Chain
  <2>3. End(c) = 0
    BY <2>1 DEF End
  <2>. QED
    BY <2>1, <2>2, <2>3 DEF Continues
<1>. QED
  BY <1>1, <1>2, <1>3, <1>5, <1>6

\* A longer way along the samples misses no more.
LEMMA CoversMore ==
  ASSUME NEW m, NEW j \in Nat, NEW k \in Nat, m.from \in Nat, m.cursor \in Nat, size \in Nat,
         Covers(m, j), j <= k
  PROVE  Covers(m, k)
<1>1. Floor(m.cursor) \in Nat
  BY DEF Floor
<1>. QED
  BY <1>1 DEF Covers, Larger

\* A client takes a delta.
LEMMA ProcessDraws ==
  ASSUME TypeInv, NEW c \in Clients, Process(c), Draws(c), Continues(c)
  PROVE  Draws(c)' /\ Continues(c)'
<1> DEFINE q == queue[c]
           m == Head(q)
           k == cursor[c]
<1>1. /\ q \in Seq(Messages) /\ q # <<>> /\ queue'[c] = Tail(q) /\ link[c] = "on"
      /\ link'[c] = "on" /\ UNCHANGED <<buffer, broadcaster>>
  BY DEF Process, TypeInv, TypeOK
<1>2. /\ total \in Nat /\ size \in Nat /\ k \in Nat /\ prevCursor \in Nat /\ cap[c] = size
      /\ points[c] = Ids(Floor(k), k) /\ stats[c] = <<Floor(k), k>> /\ k <= total
  BY SizesAssumption DEF SizesAssumption, Draws, TypeInv, TypeOK
<1>3. /\ Chain(Tail(q)) /\ Image(m) /\ m = q[1]
      /\ Tail(q) # <<>> => Covers(Tail(q)[1], m.cursor) /\ Tail(q)[Len(Tail(q))] = q[Len(q)]
      /\ Tail(q) = <<>> => q[Len(q)] = m
  BY <1>1, ChainTail DEF Continues
<1>4. Covers(m, k)
  BY <1>1, <1>3 DEF Continues
<1>5. m \in Charts /\ m.from \in Nat /\ m.cursor \in Nat /\ m.type = "ChartDelta"
  <2>1. m \in Messages /\ m.type = "ChartDelta"
    BY <1>1, <1>3, HeadTailProperties DEF Image
  <2>. QED
    BY <2>1 DEF Messages, Charts
<1>6. ApplyDelta(c, m) /\ UNCHANGED cap
  BY <1>5 DEF Process
<1>7. m.cursor <= total /\ m.stats = <<Floor(m.cursor), m.cursor>>
  BY <1>3 DEF Image
<1>8. IF tick = "send" THEN Covers(delta, q[Len(q)].cursor) ELSE prevCursor <= q[Len(q)].cursor
  BY <1>1 DEF Continues, End
<1>9. tick = "send" => delta.from \in Nat /\ delta.cursor \in Nat
  BY DEF TypeInv, Locals, Charts
<1>00. \A n : Floor(n)' = Floor(n)
  BY <1>1 DEF Floor, buffer
<1>10. \A e, n : Covers(e, n)' = Covers(e, n)
  BY <1>00 DEF Covers
<1>11. \A e : Image(e)' = Image(e)
  BY <1>00, <1>1 DEF Image, buffer
<1>12. Draws(c)' /\ cursor'[c] \in Nat /\ cursor'[c] >= m.cursor
  <2>1. CASE m.cursor <= k
    <3>1. UNCHANGED chart
      BY <1>6, <2>1 DEF ApplyDelta, chart
    <3>2. Draws(c)'
      BY <1>00, <1>1, <3>1 DEF Draws, chart, buffer
    <3>. QED
      BY <1>2, <1>5, <2>1, <3>1, <3>2 DEF chart
  <2>2. CASE ~(m.cursor <= k)
    <3>1. /\ points'[c] = Newest(points[c] \o Ids(Larger(m.from, k), m.cursor),
                                 Larger(Len(points[c]), cap[c]))
          /\ cursor'[c] = m.cursor /\ stats'[c] = m.stats /\ cap'[c] = size
      BY <1>2, <1>6, <2>2 DEF ApplyDelta, TypeInv, TypeOK
    <3>2. k < m.cursor /\ m.from <= Larger(Floor(m.cursor), k)
      BY <1>2, <1>4, <1>5, <2>2 DEF Covers
    <3> HIDE DEF q, m, k
    <3>3. points'[c] = Ids(Floor(m.cursor), m.cursor)
      BY <1>2, <1>5, <3>1, <3>2, DeltaDraws
    <3>4. Draws(c)'
      BY <1>00, <1>1, <1>7, <3>1, <3>3 DEF Draws, buffer
    <3>. QED
      BY <1>5, <3>1, <3>4
  <2>. QED
    BY <2>1, <2>2
<1>13. Chain(queue[c])'
  BY <1>1, <1>3, <1>10, <1>11 DEF Chain
<1> HIDE DEF q, m, k
<1>14. queue'[c] # <<>> => Covers(queue'[c][1], cursor'[c])
  <2> SUFFICES ASSUME Tail(q) # <<>>
               PROVE  Covers(Tail(q)[1], cursor'[c])
    BY <1>1
  <2>1. Tail(q) \in Seq(Messages) /\ 1 \in 1 .. Len(Tail(q))
    BY <1>1, HeadTailProperties, EmptySeq, LenProperties
  <2>2. Tail(q)[1] \in Messages /\ Image(Tail(q)[1])
    BY <1>3, <2>1 DEF Chain
  <2>3. Tail(q)[1].from \in Nat /\ Tail(q)[1].cursor \in Nat
    BY <2>2 DEF Image, Messages, Charts
  <2>. QED
    BY <1>2, <1>3, <1>5, <1>12, <2>3, CoversMore
<1>15. IF tick = "send" THEN Covers(delta, End(c)') ELSE prevCursor <= End(c)'
  <2>1. CASE Tail(q) # <<>>
    <3>1. End(c)' = q[Len(q)].cursor
      BY <1>1, <1>3, <2>1 DEF End
    <3>. QED
      BY <1>8, <3>1
  <2>2. CASE Tail(q) = <<>>
    <3>1. End(c)' = cursor'[c] /\ q[Len(q)] = m
      BY <1>1, <1>3, <2>2 DEF End
    <3>2. CASE tick = "send"
      BY <1>2, <1>5, <1>8, <1>9, <1>12, <3>1, <3>2, CoversMore
    <3>3. CASE tick # "send"
      BY <1>2, <1>5, <1>8, <1>12, <3>1, <3>3
    <3>. QED
      BY <3>2, <3>3
  <2>. QED
    BY <2>1, <2>2
<1>16. UNCHANGED <<tick, delta, prevCursor>>
  BY <1>1 DEF broadcaster
<1>17. Continues(c)'
  BY <1>10, <1>13, <1>14, <1>15, <1>16 DEF Continues
<1>. QED
  BY <1>12, <1>17

\* A client that is greeted gets the buffer; what is in its queue is older.
LEMMA GreetDraws ==
  ASSUME TypeInv, NEW c \in Clients, Greet(c), Continues(c), lo = Floor(total),
         prevCursor <= total, tick = "send" => Image(delta)
  PROVE  Draws(c)' /\ Continues(c)'
<1>1. /\ link'[c] = "on" /\ cap'[c] = size /\ cursor'[c] = total /\ stats'[c] = <<lo, total>>
      /\ points'[c] = Newest(Ids(lo, total), size) /\ queue' = queue
      /\ UNCHANGED <<buffer, broadcaster>>
  BY DEF Greet, SetSnapshot, ChartData, Message, TypeInv, TypeOK
<1>2. total \in Nat /\ size \in Nat /\ lo \in Nat /\ lo <= total /\ total - lo <= size
      /\ queue[c] \in Seq(Messages)
  BY SizesAssumption DEF SizesAssumption, TypeInv, TypeOK, Floor
<1>3. points'[c] = Ids(lo, total)
  BY <1>1, <1>2, IdsLength DEF Newest
<1>00. \A n : Floor(n)' = Floor(n)
  BY <1>1 DEF Floor, buffer
<1>4. Draws(c)'
  BY <1>00, <1>1, <1>2, <1>3 DEF Draws, buffer
<1>5. \A m \in Messages : Image(m) => Covers(m, total)
  <2> SUFFICES ASSUME NEW m \in Messages, Image(m)
               PROVE  Covers(m, total)
    OBVIOUS
  <2>1. m.from \in Nat /\ m.cursor \in Nat /\ m.from <= m.cursor /\ m.cursor <= total
    BY DEF Image, Messages, Charts
  <2>2. Floor(m.cursor) \in Nat
    BY <1>2, <2>1 DEF Floor
  <2>. QED
    BY <1>2, <2>1, <2>2 DEF Covers, Larger
<1>6. \A e, n : Covers(e, n)' = Covers(e, n)
  BY <1>00 DEF Covers
<1>7. \A e : Image(e)' = Image(e)
  BY <1>00, <1>1 DEF Image, buffer
<1>8. Chain(queue[c])'
  BY <1>1, <1>6, <1>7 DEF Continues, Chain
<1>9. queue[c] # <<>> => Covers(queue[c][1], total)
  <2> SUFFICES ASSUME queue[c] # <<>>
               PROVE  Covers(queue[c][1], total)
    OBVIOUS
  <2>1. 1 \in 1 .. Len(queue[c])
    BY <1>2, EmptySeq, LenProperties
  <2>2. Image(queue[c][1]) /\ queue[c][1] \in Messages
    BY <1>2, <2>1 DEF Continues, Chain
  <2>. QED
    BY <1>5, <2>2
<1>10. IF tick = "send" THEN Covers(delta, End(c)') ELSE prevCursor <= End(c)'
  <2>1. CASE queue[c] # <<>>
    BY <1>1, <2>1 DEF Continues, End
  <2>2. CASE queue[c] = <<>>
    <3>1. End(c)' = total
      BY <1>1, <2>2 DEF End
    <3>2. tick = "send" => delta \in Messages
      BY DEF TypeInv, Locals, Messages
    <3>. QED
      BY <1>5, <3>1, <3>2
  <2>. QED
    BY <2>1, <2>2
<1>11. UNCHANGED <<tick, delta, prevCursor>>
  BY <1>1 DEF broadcaster
<1>12. Continues(c)'
  BY <1>1, <1>6, <1>8, <1>9, <1>10, <1>11 DEF Continues
<1>. QED
  BY <1>4, <1>12

\* The broadcaster sends its delta.
LEMMA SendDraws ==
  ASSUME TypeInv, Queues, SendDelta, used'["lost"] = 0, Image(delta), delta.cursor = prevCursor,
         NEW c \in Clients, Draws(c), Continues(c)
  PROVE  Draws(c)' /\ Continues(c)'
<1>1. /\ tick = "send" /\ tick' = "idle" /\ Broadcast(delta) /\ delta \in Messages
      /\ UNCHANGED <<buffer, prevCursor, link, chart>>
  BY DEF SendDelta, TypeInv, Locals, Messages
<1>2. /\ queue'[c] = IF link[c] = "off" THEN queue[c] ELSE Append(queue[c], delta)
      /\ queue[c] \in Seq(Messages) /\ prevCursor \in Nat
  BY <1>1, Delivered DEF TypeInv, TypeOK
<1>00. \A n : Floor(n)' = Floor(n)
  BY <1>1 DEF Floor, buffer
<1>3. \A e, n : Covers(e, n)' = Covers(e, n)
  BY <1>00 DEF Covers
<1>4. \A e : Image(e)' = Image(e)
  BY <1>00, <1>1 DEF Image, buffer
<1>5. Draws(c)'
  BY <1>00, <1>1 DEF Draws, buffer, chart
<1>6. CASE link[c] = "off"
  <2>1. queue'[c] = <<>> /\ link'[c] = "off"
    BY <1>1, <1>2, <1>6 DEF Queues
  <2>. QED
    BY <1>5, <2>1 DEF Continues, Chain
<1>7. CASE link[c] # "off"
  <2> DEFINE q == queue[c]
             t == Append(q, delta)
  <2>1. q # <<>> => Covers(delta, q[Len(q)].cursor)
    BY <1>1 DEF Continues, End
  <2>2. /\ Chain(t) /\ t # <<>> /\ t[Len(t)] = delta
        /\ t[1] = IF q = <<>> THEN delta ELSE q[1]
    BY <1>1, <1>2, <2>1, ChainAppend DEF Continues
  <2>3. queue'[c] = t
    BY <1>2, <1>7
  <2>4. link[c] = "on" => Covers(t[1], cursor[c])
    BY <1>1, <2>2 DEF Continues, End
  <2> HIDE DEF q, t
  <2>5. Chain(queue[c])'
    BY <1>3, <1>4, <2>2, <2>3 DEF Chain
  <2>6. End(c)' = prevCursor
    BY <2>2, <2>3 DEF End
  <2>7. link'[c] = "on" => Covers(queue'[c][1], cursor'[c])
    BY <1>1, <2>3, <2>4 DEF chart
  <2>8. prevCursor' <= End(c)' /\ tick' # "send"
    BY <1>1, <1>2, <2>6
  <2>9. Continues(c)'
    BY <1>3, <2>5, <2>7, <2>8 DEF Continues
  <2>. QED
    BY <1>5, <2>9
<1>. QED
  BY <1>6, <1>7

\* The broadcaster gathers the samples since its last tick.
LEMMA GatherContinues ==
  ASSUME TypeInv, Gather, haveReceivers, lo = Floor(total), prevCursor <= total,
         \A c \in Clients : Draws(c) /\ Continues(c)
  PROVE  /\ prevCursor' <= total' /\ tick' # "gather" /\ lo' = Floor(total)'
         /\ tick' = "send" => Image(delta)' /\ delta'.cursor = prevCursor'
         /\ \A c \in Clients : Draws(c)' /\ Continues(c)'
<1>1. /\ tick = "gather" /\ prevCursor' = total /\ UNCHANGED <<buffer, channel, chart>>
      /\ \/ total # prevCursor /\ tick' = "send" /\ delta' = ChartDelta
         \/ total = prevCursor /\ tick' = "idle"
  BY DEF Gather
<1>2. total \in Nat /\ lo \in Nat /\ prevCursor \in Nat /\ size \in Nat
  BY SizesAssumption DEF SizesAssumption, TypeInv, TypeOK
<1>3. /\ ChartDelta.type = "ChartDelta" /\ ChartDelta.stats = <<lo, total>>
      /\ ChartDelta.cursor = total /\ ChartDelta.from = Larger(lo, prevCursor)
  BY DEF ChartDelta, Message
<1>4. lo <= total /\ Larger(lo, prevCursor) <= total
  BY <1>2 DEF Floor, Larger
<1>5. \A n : Floor(n)' = Floor(n)
  BY <1>1 DEF Floor, buffer
<1>6. \A e, n : Covers(e, n)' = Covers(e, n)
  BY <1>5 DEF Covers
<1>7. \A e : Image(e)' = Image(e)
  BY <1>1, <1>5 DEF Image, buffer
<1>8. Image(ChartDelta)
  BY <1>3, <1>4, <1>2 DEF Image
<1>9. ASSUME NEW c \in Clients
      PROVE  Draws(c)' /\ Continues(c)'
  <2>1. Draws(c)'
    BY <1>1, <1>5 DEF Draws, buffer, chart
  <2>2. Chain(queue[c])'
    BY <1>1, <1>6, <1>7 DEF Continues, Chain, channel
  <2>3. End(c)' = End(c)
    BY <1>1 DEF End, channel, chart
  <2>4. link'[c] = "on" /\ queue'[c] # <<>> => Covers(queue'[c][1], cursor'[c])
    BY <1>1 DEF Continues, channel, chart
  <2>5. ASSUME link'[c] = "on" \/ queue'[c] # <<>>
        PROVE  IF tick' = "send" THEN Covers(delta', End(c)) ELSE prevCursor' <= End(c)
    <3>1. prevCursor <= End(c)
      BY <1>1, <2>5 DEF Continues, channel
    <3>2. CASE tick' = "send" /\ delta' = ChartDelta
      <4>1. End(c) \in Nat
        <5>1. queue[c] \in Seq(Messages) /\ cursor[c] \in Nat
          BY DEF TypeInv, TypeOK
        <5>2. queue[c] # <<>> => Len(queue[c]) \in 1 .. Len(queue[c])
          BY <5>1, EmptySeq, LenProperties
        <5>3. queue[c] # <<>> => Image(queue[c][Len(queue[c])]) /\ queue[c][Len(queue[c])] \in Messages
          BY <5>1, <5>2 DEF Continues, Chain
        <5>4. queue[c] # <<>> => queue[c][Len(queue[c])].cursor \in Nat
          BY <5>3 DEF Image, Messages, Charts
        <5>. QED
          BY <5>1, <5>4 DEF End
      <4>2. Larger(lo, prevCursor) <= Larger(lo, End(c))
        BY <1>2, <3>1, <4>1 DEF Larger
      <4>. QED
        BY <1>3, <3>2, <4>2 DEF Covers
    <3>3. CASE total = prevCursor /\ tick' = "idle"
      BY <1>1, <3>1, <3>3
    <3>. QED
      BY <1>1, <3>2, <3>3
  <2>6. Continues(c)'
    BY <1>6, <2>2, <2>3, <2>4, <2>5 DEF Continues
  <2>. QED
    BY <2>1, <2>6
<1>10. tick' = "send" => Image(delta)' /\ delta'.cursor = prevCursor'
  BY <1>1, <1>3, <1>7, <1>8
<1>11. prevCursor' <= total' /\ tick' # "gather" /\ lo' = Floor(total)'
  BY <1>1, <1>2, <1>5 DEF buffer
<1>. QED
  BY <1>9, <1>10, <1>11

\* What one client has does not change when the buffer, the broadcaster and its own part stay.
LEMMA SyncKept ==
  ASSUME NEW c \in Clients, Draws(c), Continues(c), UNCHANGED <<buffer, broadcaster>>,
         points'[c] = points[c], cursor'[c] = cursor[c], cap'[c] = cap[c], stats'[c] = stats[c]
  PROVE  /\ Draws(c)'
         /\ queue'[c] = queue[c] /\ link'[c] = link[c] => Continues(c)'
         /\ link'[c] # "on" /\ queue'[c] = <<>> => Continues(c)'
<1>1. \A n : Floor(n)' = Floor(n)
  BY DEF Floor, buffer
<1>2. \A e, n : Covers(e, n)' = Covers(e, n)
  BY <1>1 DEF Covers
<1>3. \A e : Image(e)' = Image(e)
  BY <1>1 DEF Image, buffer
<1>4. Draws(c)'
  BY <1>1 DEF Draws, buffer
<1>5. ASSUME queue'[c] = queue[c], link'[c] = link[c]
      PROVE  Continues(c)'
  <2>1. Chain(queue[c])'
    BY <1>2, <1>3, <1>5 DEF Continues, Chain
  <2>2. End(c)' = End(c)
    BY <1>5 DEF End
  <2>. QED
    BY <1>2, <1>5, <2>1, <2>2 DEF Continues, broadcaster
<1>6. ASSUME link'[c] # "on", queue'[c] = <<>>
      PROVE  Continues(c)'
  <2>1. Chain(queue[c])'
    BY <1>6 DEF Chain
  <2>. QED
    BY <1>6, <2>1 DEF Continues
<1>. QED
  BY <1>4, <1>5, <1>6

\* A client's own step.
LEMMA ClientDraws ==
  ASSUME TypeInv, Queues, Listening, lo = Floor(total), prevCursor <= total,
         tick = "send" => Image(delta), \A e \in Clients : Draws(e) /\ Continues(e),
         NEW c \in Clients, Subscribe(c) \/ Greet(c) \/ Leave(c) \/ Process(c)
  PROVE  Listening' /\ \A e \in Clients : Draws(e)' /\ Continues(e)'
<1>1. UNCHANGED <<buffer, broadcaster>>
  BY DEF Subscribe, Greet, Leave, Process
<1>2. \A e \in Clients \ {c} : queue'[e] = queue[e] /\ link'[e] = link[e]
  BY DEF Subscribe, Greet, Leave, Process, TypeInv, TypeOK
<1>3. ASSUME NEW e \in Clients \ {c}
      PROVE  Draws(e)' /\ Continues(e)'
  <2>1. /\ points'[e] = points[e] /\ cursor'[e] = cursor[e]
        /\ cap'[e] = cap[e] /\ stats'[e] = stats[e]
    BY DEF Subscribe, Greet, Leave, Process, SetSnapshot, ApplyDelta, ChangeSize, chart,
           TypeInv, TypeOK
  <2>. QED
    BY <1>1, <1>2, <2>1, SyncKept
<1>4. c \in Residents => link'[c] = "on"
  BY DEF Subscribe, Greet, Leave, Process, Listening, TypeInv, TypeOK
<1>5. Listening'
  BY <1>2, <1>4, ResidentsAssumption DEF ResidentsAssumption, Listening
<1>6. Draws(c)' /\ Continues(c)'
  <2>1. CASE Subscribe(c) \/ Leave(c)
    <3>1. link'[c] # "on" /\ queue'[c] = <<>> /\ UNCHANGED chart
      BY <2>1 DEF Subscribe, Leave, Queues, TypeInv, TypeOK
    <3>. QED
      BY <1>1, <3>1, SyncKept DEF chart
  <2>2. CASE Greet(c)
    BY <2>2, GreetDraws
  <2>3. CASE Process(c)
    BY <2>3, ProcessDraws
  <2>. QED
    BY <2>1, <2>2, <2>3
<1>. QED
  BY <1>3, <1>5, <1>6

\* A sample goes in: what is on its way was read earlier.
LEMMA SampleDraws ==
  ASSUME TypeInv, Sample, lo = Floor(total), prevCursor <= total,
         tick = "send" => Image(delta), \A e \in Clients : Draws(e) /\ Continues(e)
  PROVE  /\ lo' = Floor(total)' /\ prevCursor' <= total'
         /\ tick' = "send" => Image(delta)'
         /\ \A e \in Clients : Draws(e)' /\ Continues(e)'
<1>1. /\ total' = total + 1 /\ UNCHANGED <<size, broadcaster, channel, chart>>
      /\ lo' = IF total - lo >= size THEN lo + 1 ELSE lo
      /\ total \in Nat /\ size \in Nat /\ prevCursor \in Nat /\ \A c \in Clients : cursor[c] \in Nat
  BY SizesAssumption DEF SizesAssumption, Sample, TypeInv, TypeOK
<1>2. \A n : Floor(n)' = Floor(n)
  BY <1>1 DEF Floor
<1>3. \A e, n : Covers(e, n)' = Covers(e, n)
  BY <1>2 DEF Covers
<1>4. ASSUME NEW m \in Charts, Image(m)
      PROVE  Image(m)'
  <2>1. m.cursor \in Nat
    BY DEF Charts
  <2>. QED
    BY <1>1, <1>2, <1>4, <2>1 DEF Image
<1>5. lo' = Floor(total)'
  BY <1>1 DEF Floor
<1>6. tick' = "send" => Image(delta)'
  <2>1. tick = "send" => delta \in Charts
    BY DEF TypeInv, Locals
  <2>2. tick' = tick /\ delta' = delta
    BY <1>1 DEF broadcaster
  <2>3. ASSUME tick = "send"
        PROVE  Image(delta)'
    <3>1. delta.cursor \in Nat /\ Image(delta)
      BY <2>1, <2>3 DEF Charts
    <3>. QED
      BY <1>1, <1>2, <2>2, <3>1 DEF Image
  <2>. QED
    BY <2>2, <2>3
<1>7. ASSUME NEW c \in Clients
      PROVE  Draws(c)' /\ Continues(c)'
  <2>1. Draws(c)'
    BY <1>1, <1>2 DEF Draws, chart
  <2>2. queue[c] \in Seq(Messages) /\ Chain(queue[c]) /\ queue' = queue
    BY <1>1 DEF Continues, channel, TypeInv, TypeOK
  <2>3. \A i \in 1 .. Len(queue[c]) : Image(queue[c][i])'
    <3> SUFFICES ASSUME NEW i \in 1 .. Len(queue[c])
                 PROVE  Image(queue[c][i])'
      OBVIOUS
    <3>1. Image(queue[c][i]) /\ queue[c][i] \in Messages
      BY <2>2 DEF Chain
    <3>2. queue[c][i].cursor \in Nat
      BY <3>1 DEF Image, Messages, Charts
    <3>. QED
      BY <1>1, <1>2, <2>2, <3>1, <3>2 DEF Image
  <2>4. Chain(queue[c])'
    BY <1>3, <2>2, <2>3 DEF Chain
  <2>5. End(c)' = End(c)
    BY <1>1 DEF End, channel, chart
  <2>6. Continues(c)'
    BY <1>1, <1>3, <2>4, <2>5 DEF Continues, broadcaster, channel, chart
  <2>. QED
    BY <2>1, <2>6
<1>. QED
  BY <1>1, <1>5, <1>6, <1>7 DEF broadcaster

LEMMA SyncNext == Base /\ SyncInv /\ [Next]_vars => SyncInv'
<1> SUFFICES ASSUME Base, SyncInv, [Next]_vars,
                    Residents # {}, used'["commands"] = 0, used'["lost"] = 0
             PROVE  /\ Idle' /\ Listening' /\ lo' = Floor(total)' /\ prevCursor' <= total'
                    /\ tick' = "gather" => haveReceivers'
                    /\ tick' = "send" => Image(delta)' /\ delta'.cursor = prevCursor'
                    /\ \A c \in Clients : Draws(c)' /\ Continues(c)'
  BY DEF SyncInv
<1>0. TypeInv /\ Queues
  BY DEF Base, Inv
<1>1. used["commands"] = 0 /\ used["lost"] = 0
  BY <1>0, UsedStays
<1>2. /\ Idle /\ Listening /\ lo = Floor(total) /\ prevCursor <= total
      /\ tick = "gather" => haveReceivers
      /\ tick = "send" => Image(delta) /\ delta.cursor = prevCursor
      /\ \A c \in Clients : Draws(c) /\ Continues(c)
  BY <1>1 DEF SyncInv
<1>3. CASE Sample
  <2>1. UNCHANGED <<broadcaster, at, link>>
    BY <1>3 DEF Sample, commands, channel
  <2>2. /\ lo' = Floor(total)' /\ prevCursor' <= total' /\ (tick' = "send" => Image(delta)')
        /\ \A c \in Clients : Draws(c)' /\ Continues(c)'
    BY <1>0, <1>2, <1>3, SampleDraws
  <2>3. Idle' /\ Listening'
    BY <1>2, <2>1 DEF Idle, Listening
  <2>. QED
    BY <1>2, <2>1, <2>2, <2>3 DEF broadcaster
<1>4. CASE Tick
  <2>1. /\ tick' = "gather" /\ tick # "send"
        /\ UNCHANGED <<buffer, prevCursor, delta, commands, channel, chart>>
    BY <1>4 DEF Tick
  <2>2. haveReceivers'
    BY <1>2, <1>4, ResidentsAssumption DEF ResidentsAssumption, Tick, Listening
  <2>3. \A n : Floor(n)' = Floor(n)
    BY <2>1 DEF Floor, buffer
  <2>4. \A e, n : Covers(e, n)' = Covers(e, n)
    BY <2>3 DEF Covers
  <2>5. \A e : Image(e)' = Image(e)
    BY <2>1, <2>3 DEF Image, buffer
  <2>6. ASSUME NEW c \in Clients
        PROVE  Draws(c)' /\ Continues(c)'
    <3>1. Draws(c)'
      BY <1>2, <2>1, <2>3 DEF Draws, buffer, chart
    <3>2. Chain(queue[c])'
      BY <1>2, <2>1, <2>4, <2>5 DEF Continues, Chain, channel
    <3>3. End(c)' = End(c)
      BY <2>1 DEF End, channel, chart
    <3>4. Continues(c)'
      BY <1>2, <2>1, <2>4, <3>2, <3>3 DEF Continues, channel, chart
    <3>. QED
      BY <3>1, <3>4
  <2>7. Idle' /\ Listening' /\ lo' = Floor(total)' /\ prevCursor' <= total'
    BY <1>2, <2>1, <2>3 DEF Idle, Listening, buffer, commands, channel
  <2>. QED
    BY <2>1, <2>2, <2>6, <2>7
<1>5. CASE Gather
  <2>1. haveReceivers
    BY <1>2, <1>5 DEF Gather
  <2>2. Idle' /\ Listening'
    BY <1>2, <1>5 DEF Gather, Idle, Listening, commands, channel
  <2>. QED
    BY <1>0, <1>2, <1>5, <2>1, <2>2, GatherContinues
<1>6. CASE SendDelta
  <2>1. tick = "send" /\ tick' = "idle" /\ UNCHANGED <<buffer, prevCursor, at, link>>
    BY <1>6 DEF SendDelta, commands
  <2>2. \A c \in Clients : Draws(c)' /\ Continues(c)'
    BY <1>0, <1>2, <1>6, <2>1, SendDraws
  <2>3. \A n : Floor(n)' = Floor(n)
    BY <2>1 DEF Floor, buffer
  <2>4. Idle' /\ Listening' /\ lo' = Floor(total)' /\ prevCursor' <= total'
    BY <1>2, <2>1, <2>3 DEF Idle, Listening, buffer
  <2>. QED
    BY <2>1, <2>2, <2>4
<1>7. ASSUME NEW h \in Handlers,
             \/ ClearBuffer(h) \/ ClearAnother(h) \/ Abort(h) \/ Command(h)
             \/ \E n \in Sizes : SetBufferSize(h, n)
      PROVE  FALSE
  <2>1. ~Start(h)
    BY <1>0, Counted
  <2>2. at[h] = "idle"
    BY <1>2 DEF Idle
  <2>. QED
    BY <1>7, <2>1, <2>2 DEF ClearBuffer, ClearAnother, Abort, Command, TellSize, ReadSnapshot,
                            SendSnapshot, SetBufferSize
<1>8. ASSUME NEW c \in Clients, Subscribe(c) \/ Greet(c) \/ Leave(c) \/ Process(c)
      PROVE  /\ Idle' /\ Listening' /\ lo' = Floor(total)' /\ prevCursor' <= total'
             /\ tick' = "gather" => haveReceivers'
             /\ tick' = "send" => Image(delta)' /\ delta'.cursor = prevCursor'
             /\ \A e \in Clients : Draws(e)' /\ Continues(e)'
  <2>1. UNCHANGED <<buffer, broadcaster, commands>>
    BY <1>8 DEF Subscribe, Greet, Leave, Process
  <2>2. Listening' /\ \A e \in Clients : Draws(e)' /\ Continues(e)'
    BY <1>0, <1>2, <1>8, ClientDraws
  <2>3. \A n : Floor(n)' = Floor(n)
    BY <2>1 DEF Floor, buffer
  <2>4. \A e : Image(e)' = Image(e)
    BY <2>1, <2>3 DEF Image, buffer
  <2>5. Image(delta)' = Image(delta)
    BY <2>1, <2>3 DEF Image, buffer, broadcaster
  <2>6. Idle' /\ lo' = Floor(total)' /\ prevCursor' <= total'
    BY <1>2, <2>1, <2>3 DEF Idle, buffer, broadcaster, commands
  <2>. QED
    BY <1>2, <2>1, <2>2, <2>5, <2>6 DEF broadcaster
<1>9. CASE UNCHANGED vars
  <2>1. UNCHANGED <<buffer, broadcaster, commands, channel, chart>>
    BY <1>9 DEF vars
  <2>2. \A c \in Clients : Draws(c)' /\ Continues(c)'
    BY <1>2, <2>1, SyncKept DEF channel, chart
  <2>3. \A n : Floor(n)' = Floor(n)
    BY <2>1 DEF Floor, buffer
  <2>4. Image(delta)' = Image(delta)
    BY <2>1, <2>3 DEF Image, buffer, broadcaster
  <2>5. Idle' /\ Listening' /\ lo' = Floor(total)' /\ prevCursor' <= total'
    BY <1>2, <2>1, <2>3 DEF Idle, Listening, buffer, broadcaster, commands, channel
  <2>. QED
    BY <1>2, <2>1, <2>2, <2>4, <2>5 DEF broadcaster
<1>. QED
  BY <1>3, <1>4, <1>5, <1>6, <1>7, <1>8, <1>9 DEF Next, Broadcaster

\* A settled client draws the server's buffer and shows its statistics as long as no buffer
\* was reset, no message lost and somebody always listened: one that joins at any moment
\* misses no sample and repeats none.
THEOREM ChartsComeInSync == Spec => []InSyncWithoutResets
<1>1. Base /\ SyncInv => InSyncWithoutResets
  <2> SUFFICES ASSUME Base, SyncInv, Residents # {}, used["commands"] = 0, used["lost"] = 0,
                      NEW c \in Clients, Settled(c)
               PROVE  points[c] = Ids(lo, total) /\ stats[c] = <<lo, total>>
    BY DEF InSyncWithoutResets, Without, InSync
  <2>1. /\ lo = Floor(total) /\ Draws(c) /\ Continues(c)
        /\ total \in Nat /\ cursor[c] \in Nat
    BY DEF SyncInv, Base, Inv, TypeInv, TypeOK
  <2>2. prevCursor = total /\ tick = "idle" /\ link[c] = "on" /\ End(c) = cursor[c]
    BY DEF Settled, End
  <2>3. total <= cursor[c]
    BY <2>1, <2>2 DEF Continues
  <2>4. cursor[c] = total
    BY <2>1, <2>3 DEF Draws
  <2>. QED
    BY <2>1, <2>4 DEF Draws
<1>. QED
  BY <1>1, BaseInit, BaseNext, SyncInit, SyncNext, PTL DEF Spec
=============================================================================
