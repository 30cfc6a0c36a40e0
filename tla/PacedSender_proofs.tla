-------------------------- MODULE PacedSender_proofs --------------------------
(***************************************************************************)
(* Proofs about PacedSender, for any sizes, periods and settings: type     *)
(* correctness, WholeFrames, ParityInPlace and WindowShared.               *)
(***************************************************************************)
EXTENDS PacedSender, TLAPS

-----------------------------------------------------------------------------
(* Arithmetic of the schedule.                                             *)

LEMMA QuotientLe ==
  ASSUME NEW a \in Nat, NEW b \in Nat \ {0}
  PROVE  a \div b \in Nat /\ a \div b <= a /\ b * (a \div b) <= a
  OBVIOUS

(* Multiplication keeps the order of the naturals. *)
LEMMA ProductLe ==
  ASSUME NEW a \in Nat, NEW b \in Nat, NEW c \in Nat, b <= c
  PROVE  a * b \in Nat /\ a * b <= a * c
  OBVIOUS

(* A positive factor can be dropped from both sides of a comparison; the prover needs it
   to bound the pacer's quotients. *)
LEMMA CancelFactor ==
  ASSUME NEW q \in Nat, NEW a \in Nat, NEW t \in Nat \ {0}, t * q <= a * t
  PROVE  q <= a
  OBVIOUS

(* ShardPacer::deadline is within the budget of the frame.                 *)
LEMMA DeadlineInBudget ==
  ASSUME NEW s \in Sender, NEW offset \in Nat, s.total > 0, offset <= s.total
  PROVE  deadline(s, offset) \in Nat /\ deadline(s, offset) <= s.start + s.budget
  <1>1. s.start \in Nat /\ s.budget \in Nat /\ s.total \in Nat \ {0}
    BY DEF Sender
  <1>2. s.budget * offset \in Nat /\ s.budget * offset <= s.budget * s.total
    BY <1>1, ProductLe
  <1> DEFINE q == (s.budget * offset) \div s.total
  <1>3. q \in Nat /\ s.total * q <= s.budget * offset
    BY <1>1, <1>2, QuotientLe
  <1>4. q <= s.budget
    <2>1. s.total * q <= s.budget * s.total
      BY <1>1, <1>2, <1>3
    <2> HIDE DEF q
    <2> QED BY <1>1, <1>3, <2>1, CancelFactor
  <1> HIDE DEF q
  <1>5. deadline(s, offset) \in {s.start, s.start + s.budget, s.start + q}
    BY DEF deadline, q
  <1> QED BY <1>1, <1>3, <1>4, <1>5

(* PacingSlot::begin_frame gives a frame no more than the window has left. *)
LEMMA BudgetInWindow ==
  ASSUME TypeOK, NEW queued \in Nat
  PROVE  /\ OpenSlot \in [open : BOOLEAN, start : Nat]
         /\ begin_frame(queued) \in Nat
         /\ begin_frame(queued) > 0 => now + begin_frame(queued) <= OpenSlot.start + Window
  <1>1. now \in Nat /\ period \in Nat \ {0} /\ slot \in [open : BOOLEAN, start : Nat]
    BY PacingAssumption DEF TypeOK
  <1>2. OpenSlot \in [open : BOOLEAN, start : Nat]
    BY <1>1 DEF OpenSlot
  <1>3. Window \in Nat
    BY <1>1, QuotientLe DEF Window
  <1> DEFINE left == OpenSlot.start + Window - now
  <1>4. left \in Int /\ OpenSlot.start \in Nat
    BY <1>1, <1>2, <1>3
  <1>5. CASE left <= 0
    BY <1>2, <1>5 DEF begin_frame
  <1>6. CASE left > 0
    <2>1. left \in Nat /\ queued + 1 \in Nat \ {0}
      BY <1>4, <1>6
    <2>2. begin_frame(queued) = left \div (queued + 1)
      BY <1>4, <1>6 DEF begin_frame
    <2> HIDE DEF left
    <2>3. begin_frame(queued) \in Nat /\ begin_frame(queued) <= left
      BY <2>1, <2>2, QuotientLe
    <2>4. now + begin_frame(queued) <= OpenSlot.start + Window
      BY <1>1, <1>3, <1>4, <2>3 DEF left
    <2> QED BY <1>2, <2>3, <2>4
  <1> QED BY <1>4, <1>5, <1>6

-----------------------------------------------------------------------------
(* What a frame has put on the wire: w holds the first o of its t bytes.    *)

Wire == Seq(DataShard \cup {Parity})

Data(w) == {i \in DOMAIN w : IsData(w[i])}

Chain(w, o, t) ==
  /\ o = 0 <=> Data(w) = {}
  /\ Data(w) # {} => \E i \in Data(w) : \A j \in Data(w) : j <= i
  /\ \A i \in Data(w) :
        /\ w[i].view_info <=> \A j \in Data(w) : i <= j
        /\ (\A j \in Data(w) : i <= j) => w[i].from = 0
        /\ w[i].timing_info <=> ((\A j \in Data(w) : j <= i) /\ o = t)
        /\ (\A j \in Data(w) : j <= i) => w[i].from + w[i].bytes = o
        /\ \A j \in Data(w) : (i < j /\ \A k \in Data(w) : k <= i \/ j <= k)
                                 => w[j].from = w[i].from + w[i].bytes

(* The shards of w are covered by parity but for the last g, all of them    *)
(* data.                                                                   *)
Trail(w, g) ==
  /\ g <= Len(w)
  /\ \A i \in Len(w) - g + 1 .. Len(w) : IsData(w[i])
  /\ Len(w) > g => w[Len(w) - g] = Parity
  /\ \A i \in 1 .. Len(w) - group_size : \E j \in i .. i + group_size : w[j] = Parity
  /\ \A i \in 1 .. Len(w) - 1 : w[i] = Parity => IsData(w[i + 1])

(* A data shard and the parity shard are told apart by their kind.          *)
LEMMA Kinds ==
  /\ \A x \in DataShard : IsData(x) /\ x # Parity
  /\ ~IsData(Parity)
  BY DEF DataShard, Parity, IsData

(* A sequence of shards with one more at the end.                          *)
LEMMA WireAppend ==
  ASSUME NEW w \in Wire, NEW x \in DataShard \cup {Parity}
  PROVE  /\ Append(w, x) \in Wire
         /\ Len(w) \in Nat /\ Len(Append(w, x)) = Len(w) + 1
         /\ DOMAIN w = 1 .. Len(w) /\ DOMAIN Append(w, x) = 1 .. Len(w) + 1
         /\ \A i \in 1 .. Len(w) : Append(w, x)[i] = w[i]
         /\ Append(w, x)[Len(w) + 1] = x
         /\ w \o <<x>> = Append(w, x) /\ w \o <<>> = w
         /\ \A i \in 1 .. Len(w) : w[i] \in DataShard \cup {Parity}
  BY DEF Wire

(* Nothing sent yet.                                                       *)
LEMMA ChainEmpty ==
  ASSUME NEW t
  PROVE  <<>> \in Wire /\ Chain(<<>>, 0, t) /\ Trail(<<>>, 0)
  <1>1. <<>> \in Wire /\ Data(<<>>) = {}
    BY DEF Wire, Data
  <1>2. Len(<<>>) = 0
    OBVIOUS
  <1> QED BY <1>1, <1>2, PacingAssumption DEF Chain, Trail

(* The next data shard carries the bytes that follow.                      *)
LEMMA ChainData ==
  ASSUME NEW w \in Wire, NEW o \in Nat, NEW t \in Nat, NEW x \in DataShard,
         Chain(w, o, t), o < t, o + x.bytes <= t,
         x.from = o, x.view_info <=> o = 0, x.timing_info <=> o + x.bytes = t
  PROVE  Chain(Append(w, x), o + x.bytes, t)
  <1> DEFINE v == Append(w, x)
             n == Len(w) + 1
             p == o + x.bytes
  <1>1. n \in Nat /\ v[n] = x /\ \A i \in Data(w) : v[i] = w[i] /\ i \in Nat /\ i < n
    BY WireAppend DEF Data
  <1>2. Data(v) = Data(w) \cup {n}
    <2>1. /\ DOMAIN w = 1 .. Len(w) /\ DOMAIN v = 1 .. n /\ n = Len(w) + 1 /\ Len(w) \in Nat
          /\ \A i \in 1 .. Len(w) : v[i] = w[i]
      BY WireAppend
    <2>2. IsData(v[n])
      BY <1>1, Kinds
    <2> HIDE DEF v, n
    <2> QED BY <2>1, <2>2 DEF Data
  <1>3. p \in Nat /\ p > o /\ x.bytes > 0
    BY DEF DataShard
  <1>4. \A i \in Data(w) : w[i] \in DataShard
    BY WireAppend, Kinds DEF Data
  <1> HIDE DEF v, n
  <1>5. /\ \A j \in Data(v) : j <= n
        /\ \A i \in Data(w) : ~(\A j \in Data(v) : j <= i)
        /\ \A i \in Data(w) : (\A j \in Data(v) : i <= j) <=> \A j \in Data(w) : i <= j
        /\ (\A j \in Data(v) : n <= j) <=> Data(w) = {}
    BY <1>1, <1>2
  <1>6. \A i \in Data(w) : ~w[i].timing_info
    BY DEF Chain
  <1>7. \A i \in Data(w), j \in Data(w) :
           (i < j /\ \A k \in Data(v) : k <= i \/ j <= k)
              => v[j].from = v[i].from + v[i].bytes
    BY <1>1, <1>2 DEF Chain
  <1>8. \A i \in Data(w) :
           (\A k \in Data(v) : k <= i \/ n <= k) => v[n].from = v[i].from + v[i].bytes
    <2> SUFFICES ASSUME NEW i \in Data(w), \A k \in Data(v) : k <= i \/ n <= k
                 PROVE  v[n].from = v[i].from + v[i].bytes
      OBVIOUS
    <2>1. \A j \in Data(w) : j <= i
      BY <1>1, <1>2
    <2>2. w[i].from + w[i].bytes = o
      BY <2>1 DEF Chain
    <2> QED BY <1>1, <2>2
  <1>9. \A i \in Data(v), j \in Data(v) :
           (i < j /\ \A k \in Data(v) : k <= i \/ j <= k)
              => v[j].from = v[i].from + v[i].bytes
    BY <1>1, <1>2, <1>7, <1>8
  <1>10. \A i \in Data(w) :
           /\ v[i].view_info <=> \A j \in Data(v) : i <= j
           /\ (\A j \in Data(v) : i <= j) => v[i].from = 0
           /\ v[i].timing_info <=> ((\A j \in Data(v) : j <= i) /\ p = t)
           /\ (\A j \in Data(v) : j <= i) => v[i].from + v[i].bytes = p
    BY <1>1, <1>5, <1>6 DEF Chain
  <1>11. /\ v[n].view_info <=> \A j \in Data(v) : n <= j
         /\ (\A j \in Data(v) : n <= j) => v[n].from = 0
         /\ v[n].timing_info <=> ((\A j \in Data(v) : j <= n) /\ p = t)
         /\ v[n].from + v[n].bytes = p
    BY <1>1, <1>5 DEF Chain
  <1>12. p # 0 /\ Data(v) # {} /\ \E i \in Data(v) : \A j \in Data(v) : j <= i
    BY <1>2, <1>3, <1>5
  <1> HIDE DEF p
  <1>13. Chain(v, p, t)
    BY <1>2, <1>9, <1>10, <1>11, <1>12 DEF Chain
  <1> QED BY <1>13 DEF v, p

(* A parity shard carries none.                                            *)
LEMMA ChainParity ==
  ASSUME NEW w \in Wire, NEW o, NEW t, Chain(w, o, t)
  PROVE  Chain(Append(w, Parity), o, t)
  <1>1. Data(Append(w, Parity)) = Data(w)
    BY WireAppend, Kinds DEF Data
  <1>2. \A i \in Data(w) : Append(w, Parity)[i] = w[i]
    BY WireAppend DEF Data
  <1> DEFINE v == Append(w, Parity)
  <1>3. Data(v) = Data(w) /\ \A i \in Data(w) : v[i] = w[i]
    BY <1>1, <1>2
  <1> HIDE DEF v, Data
  <1>4. Chain(v, o, t)
    BY <1>3 DEF Chain
  <1> QED BY <1>4 DEF v

(* A data shard in a group that is not full.                               *)
LEMMA TrailData ==
  ASSUME NEW w \in Wire, NEW g \in Nat, NEW x \in DataShard, Trail(w, g), g < group_size
  PROVE  Trail(Append(w, x), g + 1)
  <1> DEFINE v == Append(w, x)
             n == Len(w)
  <1>1. /\ n \in Nat /\ Len(v) = n + 1 /\ v[n + 1] = x /\ \A i \in 1 .. n : v[i] = w[i]
        /\ group_size \in Nat \ {0} /\ IsData(x) /\ x # Parity /\ ~IsData(Parity)
    BY WireAppend, Kinds, PacingAssumption
  <1>2. /\ g <= n
        /\ \A i \in n - g + 1 .. n : IsData(w[i])
        /\ n > g => w[n - g] = Parity
        /\ \A i \in 1 .. n - group_size : \E j \in i .. i + group_size : w[j] = Parity
        /\ \A i \in 1 .. n - 1 : w[i] = Parity => IsData(w[i + 1])
    BY DEF Trail
  <1> HIDE DEF v, n
  <1>3. \A i \in (n + 1) - (g + 1) + 1 .. n + 1 : IsData(v[i])
    <2> SUFFICES ASSUME NEW i \in (n + 1) - (g + 1) + 1 .. n + 1
                 PROVE  IsData(v[i])
      OBVIOUS
    <2>1. CASE i = n + 1
      BY <1>1, <2>1
    <2>2. CASE i # n + 1
      <3>1. i \in 1 .. n /\ i \in n - g + 1 .. n
        BY <1>1, <1>2, <2>2
      <3> QED BY <1>1, <1>2, <3>1
    <2> QED BY <2>1, <2>2
  <1>4. n + 1 > g + 1 => v[(n + 1) - (g + 1)] = Parity
    BY <1>1, <1>2
  <1>5. \A i \in 1 .. n + 1 - group_size : \E j \in i .. i + group_size : v[j] = Parity
    <2> SUFFICES ASSUME NEW i \in 1 .. n + 1 - group_size
                 PROVE  \E j \in i .. i + group_size : v[j] = Parity
      OBVIOUS
    <2>1. CASE i <= n - group_size
      <3>1. i \in 1 .. n - group_size
        BY <1>1, <2>1
      <3>2. PICK j \in i .. i + group_size : w[j] = Parity
        BY <1>2, <3>1
      <3>3. j \in 1 .. n
        BY <1>1, <2>1
      <3> QED BY <1>1, <3>2, <3>3
    <2>2. CASE i = n + 1 - group_size
      <3>1. n > g /\ n - g \in i .. i + group_size /\ n - g \in 1 .. n
        BY <1>1, <2>2
      <3> QED BY <1>1, <1>2, <3>1
    <2> QED BY <1>1, <2>1, <2>2
  <1>6. \A i \in 1 .. n : v[i] = Parity => IsData(v[i + 1])
    BY <1>1, <1>2
  <1>7. /\ g + 1 <= Len(v)
        /\ \A i \in Len(v) - (g + 1) + 1 .. Len(v) : IsData(v[i])
        /\ Len(v) > g + 1 => v[Len(v) - (g + 1)] = Parity
    BY <1>1, <1>2, <1>3, <1>4
  <1>8. /\ \A i \in 1 .. Len(v) - group_size : \E j \in i .. i + group_size : v[j] = Parity
        /\ \A i \in 1 .. Len(v) - 1 : v[i] = Parity => IsData(v[i + 1])
    BY <1>1, <1>5, <1>6
  <1>9. Trail(v, g + 1)
    BY <1>7, <1>8 DEF Trail
  <1> QED BY <1>9 DEF v

(* The parity of a group that is not empty.                                *)
LEMMA TrailParity ==
  ASSUME NEW w \in Wire, NEW g \in Nat, Trail(w, g), g > 0
  PROVE  Trail(Append(w, Parity), 0)
  <1> DEFINE v == Append(w, Parity)
             n == Len(w)
  <1>1. /\ n \in Nat /\ Len(v) = n + 1 /\ v[n + 1] = Parity /\ \A i \in 1 .. n : v[i] = w[i]
        /\ group_size \in Nat \ {0} /\ ~IsData(Parity)
    BY WireAppend, Kinds, PacingAssumption
  <1>2. /\ g <= n
        /\ \A i \in n - g + 1 .. n : IsData(w[i])
        /\ \A i \in 1 .. n - group_size : \E j \in i .. i + group_size : w[j] = Parity
        /\ \A i \in 1 .. n - 1 : w[i] = Parity => IsData(w[i + 1])
    BY DEF Trail
  <1> HIDE DEF v, n
  <1>3. \A i \in 1 .. n + 1 - group_size : \E j \in i .. i + group_size : v[j] = Parity
    <2> SUFFICES ASSUME NEW i \in 1 .. n + 1 - group_size
                 PROVE  \E j \in i .. i + group_size : v[j] = Parity
      OBVIOUS
    <2>1. CASE i <= n - group_size
      <3>1. i \in 1 .. n - group_size
        BY <1>1, <2>1
      <3>2. PICK j \in i .. i + group_size : w[j] = Parity
        BY <1>2, <3>1
      <3>3. j \in 1 .. n
        BY <1>1, <2>1
      <3> QED BY <1>1, <3>2, <3>3
    <2>2. CASE i = n + 1 - group_size
      BY <1>1, <2>2
    <2> QED BY <1>1, <2>1, <2>2
  <1>4. \A i \in 1 .. n : v[i] = Parity => IsData(v[i + 1])
    BY <1>1, <1>2
  <1>5. \A i \in n + 1 - 0 + 1 .. n + 1 : IsData(v[i])
    BY <1>1
  <1>6. n + 1 - 1 = n /\ 0 <= n + 1 /\ n + 1 - 0 = n + 1
    BY <1>1
  <1>7. Trail(v, 0)
    BY <1>1, <1>3, <1>4, <1>5, <1>6 DEF Trail
  <1> QED BY <1>7 DEF v

-----------------------------------------------------------------------------
(* The inductive invariant.                                                *)

(* The burst that is due belongs to the frame at the head of the queue.    *)
SchedInv ==
  /\ pc = "pump" => next_video_due_ = 0
  /\ next_video_due_ <= sender_.start + sender_.budget
  /\ sender_.active => sender_.total > 0 /\ video_queue_ # <<>>
  /\ sender_.offset <= sender_.total

ChainInv == Chain(wire, sender_.offset, sender_.total)

ParityInv ==
  /\ sender_.active /\ sender_.fec => Trail(wire, sender_.group) /\ sender_.group < group_size
  /\ Finished /\ sender_.fec => Trail(wire, 0) /\ wire # <<>>

IInv == TypeOK /\ SchedInv /\ ChainInv /\ ParityInv

(* The fields of sender_, taken out of the type invariant. *)
LEMMA SenderTypes ==
  ASSUME TypeOK
  PROVE  /\ sender_.offset \in Nat /\ sender_.total \in Nat /\ sender_.start \in Nat
         /\ sender_.budget \in Nat /\ sender_.group \in Nat /\ sender_.next_group \in Nat
         /\ sender_.active \in BOOLEAN /\ sender_.fec \in BOOLEAN
         /\ wire \in Wire
  BY DEF TypeOK, Sender, Wire

(* The state of PacedSender before begin and after finish is one of its states. *)
LEMMA IdleTypes ==
  Idle \in Sender
  BY PacingAssumption DEF Idle, Sender

(* The invariant holds before the first frame. *)
LEMMA PacingInit ==
  Init => IInv
  <1> SUFFICES ASSUME Init PROVE IInv
    OBVIOUS
  <1>1. TypeOK
    <2>1. fec_enabled_ \in BOOLEAN /\ pacing_enabled_ \in BOOLEAN /\ stream_ \in BOOLEAN
      BY Zenon DEF Init
    <2>2. inbox \in Seq(Frame) /\ video_queue_ \in Seq(Frame) /\ wire \in Seq(DataShard \cup {Parity})
      BY DEF Init
    <2>3. sender_ \in Sender
      BY IdleTypes DEF Init
    <2>4. /\ now \in Nat /\ period \in Periods /\ pc \in {"poll", "pump"} /\ next_video_due_ \in Nat
          /\ pairs \in 0 .. MaxPairs /\ settings \in 0 .. MaxSettings /\ errors \in 0 .. MaxErrors
      BY PacingAssumption DEF Init
    <2>5. slot \in [open : BOOLEAN, start : Nat]
      BY DEF Init
    <2>6. early \in BOOLEAN
      BY Zenon DEF Init
    <2> QED BY <2>1, <2>2, <2>3, <2>4, <2>5, <2>6 DEF TypeOK
  <1>2. SchedInv
    BY DEF Init, SchedInv, Idle
  <1>3. ChainInv
    BY ChainEmpty DEF Init, ChainInv, Idle
  <1>4. ParityInv
    BY DEF Init, ParityInv, Idle, Finished
  <1> QED BY <1>1, <1>2, <1>3, <1>4 DEF IInv

(* What a turn of PacedSender::pump hands to the socket.                   *)
Take(s) == IF Payload(s) < s.total - s.offset THEN Payload(s) ELSE s.total - s.offset
Sent(s) == s.offset + Take(s)
Shard(s) ==
  [kind |-> "data", from |-> s.offset, bytes |-> Take(s),
   view_info |-> s.offset = 0, timing_info |-> Sent(s) = s.total]
Group(s) == IF s.fec THEN s.group + 1 ELSE 0
Closed(g) == IF g = group_size THEN send_parity(g) ELSE <<>>

(* A shard carries at least a byte and no more than is left.               *)
LEMMA TakeSome ==
  ASSUME NEW s \in Sender, s.offset < s.total
  PROVE  /\ Take(s) \in Nat \ {0} /\ Sent(s) \in Nat /\ Sent(s) <= s.total
         /\ Sent(s) > s.offset /\ Shard(s) \in DataShard
  <1>1. s.offset \in Nat /\ s.total \in Nat
    BY DEF Sender
  <1>2. Payload(s) \in Nat \ {0}
    BY <1>1, PacingAssumption DEF Payload, Sender
  <1>3. Take(s) \in Nat \ {0} /\ Take(s) <= s.total - s.offset
    BY <1>1, <1>2 DEF Take
  <1>4. Sent(s) \in Nat /\ Sent(s) <= s.total /\ Sent(s) > s.offset
    BY <1>1, <1>3 DEF Sent
  <1> QED BY <1>1, <1>3, <1>4 DEF Shard, DataShard

(* SendShard in these terms.                                               *)
LEMMA SendShardIs ==
  ASSUME SendShard
  PROVE  /\ pc = "pump" /\ sender_.active /\ sender_.offset < sender_.total
         /\ wire' = Append(wire, Shard(sender_)) \o Closed(Group(sender_))
         /\ sender_' = [sender_ EXCEPT
               !.offset = Sent(sender_),
               !.group = IF Group(sender_) = group_size THEN 0 ELSE Group(sender_),
               !.next_group = IF Crosses(sender_, Sent(sender_)) THEN NextGroup(Sent(sender_))
                              ELSE sender_.next_group]
         /\ \/ next_video_due_' = 0
            \/ pc' = "poll" /\ next_video_due_' = deadline(sender_, Sent(sender_))
         /\ pc' \in {"poll", "pump"}
         /\ early' = FALSE
         /\ UNCHANGED <<now, settingVars, inbox, video_queue_, slot, pairs, errors>>
  BY DEF SendShard, Take, Sent, Shard, Group, Closed

(* The parity group that a micro-burst ends at is a natural number. *)
LEMMA NextGroupType ==
  ASSUME NEW n \in Nat
  PROVE  NextGroup(n) \in Nat
  BY PacingAssumption, QuotientLe DEF NextGroup

(* The fields a shard changes and the ones it leaves.                      *)
LEMMA SendShardSender ==
  ASSUME TypeOK, SendShard
  PROVE  /\ sender_' \in Sender
         /\ sender_'.offset = Sent(sender_)
         /\ sender_'.group = IF Group(sender_) = group_size THEN 0 ELSE Group(sender_)
         /\ sender_'.total = sender_.total /\ sender_'.start = sender_.start
         /\ sender_'.budget = sender_.budget /\ sender_'.active = sender_.active
         /\ sender_'.fec = sender_.fec
  <1>1. sender_ \in Sender
    BY DEF TypeOK
  <1>2. Sent(sender_) \in Nat
    BY <1>1, SendShardIs, TakeSome
  <1>3. NextGroup(Sent(sender_)) \in Nat
    BY <1>2, NextGroupType
  <1>4. Group(sender_) \in Nat
    BY <1>1 DEF Group, Sender
  <1> DEFINE g == IF Group(sender_) = group_size THEN 0 ELSE Group(sender_)
             n == IF Crosses(sender_, Sent(sender_)) THEN NextGroup(Sent(sender_))
                  ELSE sender_.next_group
             o == Sent(sender_)
  <1>5. o \in Nat /\ g \in Nat /\ n \in Nat
    BY <1>1, <1>2, <1>3, <1>4 DEF Sender
  <1>6. sender_' = [sender_ EXCEPT !.offset = o, !.group = g, !.next_group = n]
    BY SendShardIs
  <1> HIDE DEF o, g, n
  <1>7. /\ sender_' \in Sender
        /\ sender_'.offset = o /\ sender_'.group = g
        /\ sender_'.total = sender_.total /\ sender_'.start = sender_.start
        /\ sender_'.budget = sender_.budget /\ sender_'.active = sender_.active
        /\ sender_'.fec = sender_.fec
    BY <1>1, <1>5, <1>6 DEF Sender
  <1> QED BY <1>7 DEF o, g

-----------------------------------------------------------------------------
(* Type correctness.                                                       *)

SenderTypeOK == sender_ \in Sender /\ wire \in Seq(DataShard \cup {Parity})
QueueTypeOK == inbox \in Seq(Frame) /\ video_queue_ \in Seq(Frame)
ClockTypeOK ==
  /\ now \in Nat /\ next_video_due_ \in Nat /\ pc \in {"poll", "pump"}
  /\ slot \in [open : BOOLEAN, start : Nat]
FlagTypeOK ==
  /\ pacing_enabled_ \in BOOLEAN /\ fec_enabled_ \in BOOLEAN /\ stream_ \in BOOLEAN
  /\ early \in BOOLEAN
CountTypeOK ==
  /\ period \in Periods
  /\ pairs \in 0 .. MaxPairs /\ settings \in 0 .. MaxSettings /\ errors \in 0 .. MaxErrors

(* The type invariant is the conjunction of the parts that the next lemmas keep one at a
   time. *)
LEMMA TypeParts ==
  TypeOK <=> SenderTypeOK /\ QueueTypeOK /\ ClockTypeOK /\ FlagTypeOK /\ CountTypeOK
  BY DEF TypeOK, SenderTypeOK, QueueTypeOK, ClockTypeOK, FlagTypeOK, CountTypeOK

(* Every step keeps the types of the switches. *)
LEMMA FlagStep ==
  ASSUME FlagTypeOK, [Next]_vars
  PROVE  FlagTypeOK'
  <1>1. /\ pacing_enabled_' = pacing_enabled_ \/ pacing_enabled_' \in BOOLEAN
        /\ fec_enabled_' = fec_enabled_ \/ fec_enabled_' \in {FALSE, stream_}
        /\ stream_' = stream_
    BY DEF Next, Encoded, Tick, on_settings, PollTimeout, PollPacket, pump_video, PumpStep,
           PumpReturns, EmptyFrame, begin_video_frame, SendShard, finish_video_frame, SendError,
           vars, settingVars
  <1>2. early' = early \/ early' \in BOOLEAN
    BY DEF Next, Encoded, Tick, on_settings, PollTimeout, PollPacket, pump_video, PumpStep,
           PumpReturns, EmptyFrame, begin_video_frame, SendShard, finish_video_frame, SendError,
           vars, settingVars
  <1> QED BY <1>1, <1>2, Zenon DEF FlagTypeOK

(* Every step keeps the types of the counters that bound the run. *)
LEMMA CountStep ==
  ASSUME CountTypeOK, [Next]_vars
  PROVE  CountTypeOK'
  <1>1. period' = period \/ period' \in Periods
    BY DEF Next, Encoded, Tick, on_settings, PollTimeout, PollPacket, pump_video, PumpStep,
           PumpReturns, EmptyFrame, begin_video_frame, SendShard, finish_video_frame, SendError,
           vars, settingVars
  <1>2. /\ pairs' = pairs \/ (pairs < MaxPairs /\ pairs' = pairs + 1)
        /\ settings' = settings \/ (settings < MaxSettings /\ settings' = settings + 1)
        /\ errors' = errors \/ (errors < MaxErrors /\ errors' = errors + 1)
    BY DEF Next, Encoded, Tick, on_settings, PollTimeout, PollPacket, pump_video, PumpStep,
           PumpReturns, EmptyFrame, begin_video_frame, SendShard, finish_video_frame, SendError,
           vars, settingVars
  <1> QED BY <1>1, <1>2, PacingAssumption DEF CountTypeOK

(* A queue whose first frame is taken off.                                 *)
LEMMA QueueTail ==
  ASSUME NEW q \in Seq(Frame), q # <<>>
  PROVE  Tail(q) \in Seq(Frame) /\ Len(q) \in Nat \ {0} /\ Head(q) \in Frame
  OBVIOUS

(* Every step keeps the type of the session's queue: a frame leaves it only when
   PacedSender is done with it. *)
LEMMA QueueStep ==
  ASSUME TypeOK, SchedInv, [Next]_vars
  PROVE  QueueTypeOK'
  <1>1. inbox \in Seq(Frame) /\ video_queue_ \in Seq(Frame) /\ pairs \in 0 .. MaxPairs
    BY DEF TypeOK
  <1>2. CASE Encoded
    <2>1. PICK l \in Sizes, r \in Sizes, idr \in BOOLEAN :
             inbox' = inbox \o <<[id |-> pairs + 1, eye |-> 0, size |-> l, idr |-> idr],
                                 [id |-> pairs + 1, eye |-> 1, size |-> r, idr |-> idr]>>
      BY <1>2 DEF Encoded
    <2>2. pairs + 1 \in 1 .. MaxPairs
      BY <1>1, <1>2, PacingAssumption DEF Encoded
    <2>3. /\ [id |-> pairs + 1, eye |-> 0, size |-> l, idr |-> idr] \in Frame
          /\ [id |-> pairs + 1, eye |-> 1, size |-> r, idr |-> idr] \in Frame
      BY <2>2 DEF Frame
    <2>4. video_queue_' = video_queue_
      BY <1>2 DEF Encoded
    <2> HIDE DEF Frame
    <2> QED BY <1>1, <2>1, <2>3, <2>4 DEF QueueTypeOK
  <1>3. CASE PollTimeout \/ PollPacket
    <2>1. video_queue_' = video_queue_ \o inbox /\ inbox' = <<>>
      BY <1>3 DEF PollTimeout, PollPacket, pump_video
    <2> QED BY <1>1, <2>1 DEF QueueTypeOK
  <1>4. CASE EmptyFrame \/ finish_video_frame \/ SendError
    <2>1. video_queue_ # <<>> /\ video_queue_' = Tail(video_queue_) /\ inbox' = inbox
      BY <1>4 DEF EmptyFrame, finish_video_frame, SendError, SchedInv
    <2> QED BY <1>1, <2>1, QueueTail DEF QueueTypeOK
  <1>5. CASE UNCHANGED <<inbox, video_queue_>>
    BY <1>1, <1>5 DEF QueueTypeOK
  <1>6. Tick \/ on_settings \/ PumpReturns \/ begin_video_frame \/ SendShard \/ UNCHANGED vars
           => UNCHANGED <<inbox, video_queue_>>
    BY DEF Tick, on_settings, PumpReturns, begin_video_frame, SendShard, vars
  <1> QED BY <1>2, <1>3, <1>4, <1>5, <1>6 DEF Next, PumpStep

(* What begin_video_frame gives a frame.                                   *)
LEMMA BeginSender ==
  ASSUME TypeOK, begin_video_frame
  PROVE  /\ sender_' \in Sender /\ slot' \in [open : BOOLEAN, start : Nat]
         /\ sender_'.active /\ sender_'.total > 0 /\ sender_'.offset = 0
         /\ sender_'.group = 0 /\ sender_'.start = now
         /\ sender_'.budget > 0 => now + sender_'.budget <= slot'.start + Window
  <1> DEFINE f == Head(video_queue_)
             pace == pacing_enabled_ /\ ~f.idr
             frag == ~f.idr /\ (stream_ \/ pacing_enabled_)
             fec == fec_enabled_ /\ stream_ /\ ~f.idr
             b == IF pace THEN begin_frame(Len(video_queue_) - 1) ELSE 0
  <1>1. video_queue_ \in Seq(Frame) /\ video_queue_ # <<>>
    BY DEF TypeOK, begin_video_frame
  <1>2. f \in Frame /\ Len(video_queue_) - 1 \in Nat
    BY <1>1, QueueTail
  <1>3. f.size \in Nat /\ f.size > 0 /\ f.idr \in BOOLEAN
    BY <1>2, PacingAssumption DEF Frame, begin_video_frame
  <1>4. slot' = IF pace THEN OpenSlot ELSE slot
    BY DEF begin_video_frame
  <1>5. /\ OpenSlot \in [open : BOOLEAN, start : Nat]
        /\ begin_frame(Len(video_queue_) - 1) \in Nat
        /\ begin_frame(Len(video_queue_) - 1) > 0
              => now + begin_frame(Len(video_queue_) - 1) <= OpenSlot.start + Window
    BY <1>2, BudgetInWindow
  <1>6. /\ b \in Nat /\ slot' \in [open : BOOLEAN, start : Nat]
        /\ b > 0 => now + b <= slot'.start + Window
    BY <1>4, <1>5 DEF TypeOK
  <1>7. sender_' = [Idle EXCEPT !.active = TRUE, !.idr = f.idr, !.total = f.size, !.start = now,
                                !.fragment = frag, !.fec = fec, !.budget = b]
    BY DEF begin_video_frame
  <1>8. frag \in BOOLEAN /\ fec \in BOOLEAN /\ now \in Nat
    BY DEF TypeOK
  <1> HIDE DEF f, frag, fec, b
  <1>9. /\ sender_'.active /\ sender_'.total = f.size /\ sender_'.offset = 0
        /\ sender_'.group = 0 /\ sender_'.start = now /\ sender_'.budget = b
    BY <1>7 DEF Idle
  <1>10. sender_' \in Sender
    BY <1>3, <1>6, <1>7, <1>8, PacingAssumption DEF Idle, Sender
  <1> QED BY <1>3, <1>6, <1>9, <1>10

(* How the frame ends, or is given up.                                     *)
LEMMA EndSender ==
  ASSUME TypeOK, finish_video_frame \/ SendError
  PROVE  /\ sender_' \in Sender /\ sender_'.active = FALSE
         /\ sender_'.offset = sender_.offset /\ sender_'.total = sender_.total
         /\ sender_'.start = sender_.start /\ sender_'.budget = sender_.budget
         /\ sender_'.fec = sender_.fec
  <1>1. sender_ \in Sender
    BY DEF TypeOK
  <1>2. CASE finish_video_frame
    <2>1. sender_' = [sender_ EXCEPT !.active = FALSE, !.group = 0]
      BY <1>2 DEF finish_video_frame
    <2> QED BY <1>1, <2>1 DEF Sender
  <1>3. CASE SendError
    <2>1. sender_' = [sender_ EXCEPT !.active = FALSE]
      BY <1>3 DEF SendError
    <2> QED BY <1>1, <2>1 DEF Sender
  <1> QED BY <1>2, <1>3

(* What send_parity adds.                                                  *)
LEMMA ClosedWire ==
  ASSUME NEW w \in Wire, NEW g \in Nat
  PROVE  /\ w \o send_parity(g) = IF g > 0 THEN Append(w, Parity) ELSE w
         /\ w \o Closed(g) = IF g = group_size THEN Append(w, Parity) ELSE w
  <1>1. w \o <<Parity>> = Append(w, Parity) /\ w \o <<>> = w
    BY WireAppend
  <1>2. send_parity(g) = (IF g > 0 THEN <<Parity>> ELSE <<>>) /\ group_size \in Nat \ {0}
    BY PacingAssumption DEF send_parity
  <1>3. Closed(g) = IF g = group_size THEN <<Parity>> ELSE <<>>
    BY <1>2 DEF Closed
  <1> QED BY <1>1, <1>2, <1>3

(* Every step keeps the types of sender_ and of what is on the wire. *)
LEMMA SenderStep ==
  ASSUME TypeOK, [Next]_vars
  PROVE  SenderTypeOK'
  <1>1. sender_ \in Sender /\ wire \in Wire
    BY DEF TypeOK, Wire
  <1>2. CASE PumpReturns
    BY <1>2, IdleTypes DEF PumpReturns, SenderTypeOK
  <1>3. CASE begin_video_frame
    BY <1>3, BeginSender DEF begin_video_frame, SenderTypeOK
  <1>4. CASE SendShard
    <2>1. Shard(sender_) \in DataShard /\ Group(sender_) \in Nat
      BY <1>1, <1>4, SendShardIs, TakeSome DEF Group, Sender
    <2>2. Append(wire, Shard(sender_)) \in Wire
      BY <1>1, <2>1, WireAppend
    <2>3. wire' \in Wire
      <3> DEFINE v == Append(wire, Shard(sender_))
                 g == Group(sender_)
      <3>1. wire' = v \o Closed(g) /\ v \in Wire /\ g \in Nat
        BY <1>4, <2>1, <2>2, SendShardIs
      <3> HIDE DEF v, g
      <3>2. wire' = IF g = group_size THEN Append(v, Parity) ELSE v
        BY <3>1, ClosedWire
      <3> QED BY <3>1, <3>2, WireAppend
    <2> QED BY <1>4, <2>3, SendShardSender DEF SenderTypeOK, Wire
  <1>5. CASE finish_video_frame
    <2>1. wire' = wire \o send_parity(sender_.group) /\ sender_.group \in Nat
      BY <1>1, <1>5 DEF finish_video_frame, Sender
    <2>2. wire' \in Wire
      BY <1>1, <2>1, ClosedWire, WireAppend
    <2> QED BY <1>5, <2>2, EndSender DEF SenderTypeOK, Wire
  <1>6. CASE SendError
    BY <1>1, <1>6, EndSender DEF SendError, SenderTypeOK, Wire
  <1>7. CASE UNCHANGED <<sender_, wire>>
    BY <1>1, <1>7 DEF SenderTypeOK, Wire
  <1>8. Encoded \/ Tick \/ on_settings \/ PollTimeout \/ PollPacket \/ EmptyFrame \/ UNCHANGED vars
           => UNCHANGED <<sender_, wire>>
    BY DEF Encoded, Tick, on_settings, PollTimeout, PollPacket, pump_video, EmptyFrame, vars
  <1> QED BY <1>2, <1>3, <1>4, <1>5, <1>6, <1>7, <1>8 DEF Next, PumpStep

(* A burst is scheduled within the budget of its frame.                    *)
LEMMA DueStep ==
  ASSUME TypeOK, SchedInv, SendShard
  PROVE  next_video_due_' \in Nat /\ next_video_due_' <= sender_'.start + sender_'.budget
  <1>1. /\ sender_ \in Sender /\ sender_.offset < sender_.total
        /\ Sent(sender_) \in Nat /\ Sent(sender_) <= sender_.total
    BY SendShardIs, TakeSome DEF TypeOK
  <1>2. sender_.total > 0 /\ sender_.start \in Nat /\ sender_.budget \in Nat
    BY <1>1 DEF Sender
  <1>3. /\ deadline(sender_, Sent(sender_)) \in Nat
        /\ deadline(sender_, Sent(sender_)) <= sender_.start + sender_.budget
    BY <1>1, <1>2, DeadlineInBudget
  <1>4. sender_'.start = sender_.start /\ sender_'.budget = sender_.budget
    BY SendShardSender
  <1>5. next_video_due_' \in {0, deadline(sender_, Sent(sender_))}
    BY SendShardIs
  <1> QED BY <1>2, <1>3, <1>4, <1>5

(* Every step keeps the types of the clock, the deadline and the window: the schedule
   never yields an instant before the frame's start. *)
LEMMA ClockStep ==
  ASSUME TypeOK, SchedInv, [Next]_vars
  PROVE  ClockTypeOK'
  <1>1. /\ now \in Nat /\ next_video_due_ \in Nat /\ pc \in {"poll", "pump"}
        /\ slot \in [open : BOOLEAN, start : Nat]
    BY DEF TypeOK
  <1>2. CASE SendShard
    BY <1>1, <1>2, DueStep, SendShardIs DEF ClockTypeOK
  <1>3. CASE begin_video_frame
    <2>1. now' = now /\ next_video_due_' = next_video_due_ /\ pc' = pc
      BY <1>3 DEF begin_video_frame
    <2> QED BY <1>1, <1>3, <2>1, BeginSender DEF ClockTypeOK
  <1>4. CASE on_settings
    <2>1. now' = now /\ next_video_due_' = next_video_due_ /\ pc' = pc
      BY <1>4 DEF on_settings
    <2>2. slot' = slot \/ slot' = [slot EXCEPT !.open = FALSE]
      BY <1>4 DEF on_settings
    <2>3. slot' \in [open : BOOLEAN, start : Nat]
      BY <1>1, <2>2
    <2> QED BY <1>1, <2>1, <2>3 DEF ClockTypeOK
  <1>5. CASE slot' = slot /\ now' \in {now, now + 1} /\ next_video_due_' \in {next_video_due_, 0}
             /\ pc' \in {pc, "poll", "pump"}
    BY <1>1, <1>5 DEF ClockTypeOK
  <1>6. Encoded \/ Tick \/ PollTimeout \/ PollPacket \/ EmptyFrame \/ PumpReturns
          \/ finish_video_frame \/ SendError \/ UNCHANGED vars
           => /\ slot' = slot /\ now' \in {now, now + 1}
              /\ next_video_due_' \in {next_video_due_, 0} /\ pc' \in {pc, "poll", "pump"}
    BY DEF Encoded, Tick, PollTimeout, PollPacket, pump_video, EmptyFrame, PumpReturns,
           finish_video_frame, SendError, vars
  <1> QED BY <1>2, <1>3, <1>4, <1>5, <1>6 DEF Next, PumpStep

-----------------------------------------------------------------------------
(* The schedule, the bytes and the parity, each kept by every step.        *)

LEMMA SchedStep ==
  ASSUME TypeOK, SchedInv, [Next]_vars
  PROVE  SchedInv'
  <1>1. /\ sender_.start \in Nat /\ sender_.budget \in Nat /\ sender_.offset \in Nat
        /\ sender_.total \in Nat /\ next_video_due_ \in Nat /\ now \in Nat
    BY SenderTypes DEF TypeOK
  <1>2. CASE SendShard
    <2>1. sender_.offset < sender_.total /\ Sent(sender_) <= sender_.total
      BY <1>2, SendShardIs, TakeSome DEF TypeOK
    <2>2. sender_'.offset <= sender_'.total
      BY <1>2, <2>1, SendShardSender
    <2>3. sender_'.active => sender_'.total > 0 /\ video_queue_' # <<>>
      BY <1>2, SendShardIs, SendShardSender DEF SchedInv
    <2>4. pc' = "pump" => next_video_due_' = 0
      BY <1>2, SendShardIs
    <2> QED BY <1>2, <2>2, <2>3, <2>4, DueStep DEF SchedInv
  <1>3. CASE begin_video_frame
    <2>1. /\ next_video_due_' = next_video_due_ /\ pc' = pc /\ pc = "pump"
          /\ video_queue_' = video_queue_ /\ video_queue_ # <<>>
      BY <1>3 DEF begin_video_frame
    <2>2. /\ sender_'.start \in Nat /\ sender_'.budget \in Nat /\ sender_'.total > 0
          /\ sender_'.offset = 0 /\ sender_'.total \in Nat
      BY <1>3, BeginSender DEF Sender
    <2> QED BY <2>1, <2>2 DEF SchedInv
  <1>4. CASE finish_video_frame \/ SendError
    <2>1. next_video_due_' = next_video_due_ /\ pc' = pc
      BY <1>4 DEF finish_video_frame, SendError
    <2> QED BY <1>4, <2>1, EndSender DEF SchedInv
  <1>5. CASE PumpReturns
    <2>1. next_video_due_' = 0 /\ sender_' = Idle
      BY <1>5 DEF PumpReturns, SchedInv
    <2> QED BY <2>1 DEF SchedInv, Idle
  <1>6. CASE EmptyFrame
    <2>1. sender_' = sender_ /\ ~sender_.active /\ pc' = pc /\ next_video_due_' = next_video_due_
      BY <1>6 DEF EmptyFrame
    <2> QED BY <2>1 DEF SchedInv
  <1>7. CASE PollTimeout \/ PollPacket
    <2>1. sender_' = sender_ /\ next_video_due_' = 0 /\ video_queue_' = video_queue_ \o inbox
      BY <1>7 DEF PollTimeout, PollPacket, pump_video
    <2>2. video_queue_ # <<>> => video_queue_' # <<>>
      BY <2>1 DEF TypeOK
    <2> QED BY <1>1, <2>1, <2>2 DEF SchedInv
  <1>8. CASE UNCHANGED <<pc, video_queue_, sender_, next_video_due_>>
    BY <1>8 DEF SchedInv
  <1>9. Encoded \/ Tick \/ on_settings \/ UNCHANGED vars
           => UNCHANGED <<pc, video_queue_, sender_, next_video_due_>>
    BY DEF Encoded, Tick, on_settings, vars
  <1> QED BY <1>2, <1>3, <1>4, <1>5, <1>6, <1>7, <1>8, <1>9 DEF Next, PumpStep

(* SendShard appends a data shard, then the parity of a full group.        *)
LEMMA ShardThenParity ==
  ASSUME TypeOK, SendShard
  PROVE  LET v == Append(wire, Shard(sender_))
         IN  /\ v \in Wire /\ Group(sender_) \in Nat
             /\ wire' = IF Group(sender_) = group_size THEN Append(v, Parity) ELSE v
  <1> DEFINE v == Append(wire, Shard(sender_))
             g == Group(sender_)
  <1>1. sender_ \in Sender /\ wire \in Wire /\ Shard(sender_) \in DataShard
    BY SendShardIs, TakeSome, SenderTypes DEF TypeOK
  <1>2. v \in Wire /\ g \in Nat
    BY <1>1, WireAppend DEF Group, Sender
  <1>3. wire' = v \o Closed(g)
    BY SendShardIs
  <1> HIDE DEF v, g
  <1>4. wire' = IF g = group_size THEN Append(v, Parity) ELSE v
    BY <1>2, <1>3, ClosedWire
  <1> QED BY <1>2, <1>4 DEF v, g

(* Every step keeps the shards of the current frame a chain from its first byte to the
   offset the sender has reached. *)
LEMMA ChainStep ==
  ASSUME TypeOK, SchedInv, ChainInv, [Next]_vars
  PROVE  ChainInv'
  <1>1. /\ sender_.offset \in Nat /\ sender_.total \in Nat /\ sender_.group \in Nat
        /\ wire \in Wire /\ Chain(wire, sender_.offset, sender_.total)
    BY SenderTypes DEF ChainInv
  <1>2. CASE SendShard
    <2> DEFINE x == Shard(sender_)
               o == sender_.offset
               t == sender_.total
               v == Append(wire, x)
    <2>1. o < t /\ Sent(sender_) <= t /\ x \in DataShard /\ Sent(sender_) = o + x.bytes
      BY <1>2, SendShardIs, TakeSome DEF TypeOK, Sent, Shard
    <2>2. x.from = o /\ (x.view_info <=> o = 0) /\ (x.timing_info <=> o + x.bytes = t)
      BY DEF Shard, Sent
    <2>3. v \in Wire /\ (wire' = v \/ wire' = Append(v, Parity))
      BY <1>2, ShardThenParity
    <2>4. sender_'.offset = o + x.bytes /\ sender_'.total = t
      BY <1>2, <2>1, SendShardSender
    <2>5. Chain(v, o + x.bytes, t)
      <3> HIDE DEF x, o, t
      <3>1. Chain(Append(wire, x), o + x.bytes, t)
        <4>1. o \in Nat /\ t \in Nat /\ Chain(wire, o, t) /\ wire \in Wire
          BY <1>1 DEF o, t
        <4>2. o + x.bytes <= t
          BY <2>1
        <4> QED BY <4>1, <4>2, <2>1, <2>2, ChainData
      <3> QED BY <3>1
    <2> HIDE DEF x, o, t, v
    <2>6. Chain(Append(v, Parity), o + x.bytes, t)
      BY <2>3, <2>5, ChainParity
    <2> QED BY <2>3, <2>4, <2>5, <2>6 DEF ChainInv
  <1>3. CASE begin_video_frame
    <2>1. wire' = <<>> /\ sender_'.offset = 0
      BY <1>3, BeginSender DEF begin_video_frame
    <2> QED BY <2>1, ChainEmpty DEF ChainInv
  <1>4. CASE PumpReturns
    <2>1. wire' = <<>> /\ sender_'.offset = 0
      BY <1>4 DEF PumpReturns, Idle
    <2> QED BY <2>1, ChainEmpty DEF ChainInv
  <1>5. CASE finish_video_frame
    <2>1. wire' = wire \/ wire' = Append(wire, Parity)
      BY <1>1, <1>5, ClosedWire DEF finish_video_frame
    <2>2. sender_'.offset = sender_.offset /\ sender_'.total = sender_.total
      BY <1>5, EndSender
    <2> QED BY <1>1, <2>1, <2>2, ChainParity DEF ChainInv
  <1>6. CASE SendError
    <2>1. wire' = wire
      BY <1>6 DEF SendError
    <2> QED BY <1>1, <1>6, <2>1, EndSender DEF ChainInv
  <1>7. CASE UNCHANGED <<sender_, wire>>
    BY <1>1, <1>7 DEF ChainInv
  <1>8. Encoded \/ Tick \/ on_settings \/ PollTimeout \/ PollPacket \/ EmptyFrame \/ UNCHANGED vars
           => UNCHANGED <<sender_, wire>>
    BY DEF Encoded, Tick, on_settings, PollTimeout, PollPacket, pump_video, EmptyFrame, vars
  <1> QED BY <1>2, <1>3, <1>4, <1>5, <1>6, <1>7, <1>8 DEF Next, PumpStep

(* Every step keeps the data shards since the last parity shard as many as the group
   counter says, and a finished frame ended by parity. *)
LEMMA ParityStep ==
  ASSUME TypeOK, SchedInv, ChainInv, ParityInv, [Next]_vars
  PROVE  ParityInv'
  <1>1. /\ sender_.offset \in Nat /\ sender_.total \in Nat /\ sender_.group \in Nat
        /\ wire \in Wire /\ sender_.active \in BOOLEAN /\ group_size \in Nat \ {0}
    BY SenderTypes, PacingAssumption
  <1>2. CASE SendShard
    <2> DEFINE x == Shard(sender_)
               g == sender_.group
               v == Append(wire, x)
    <2>1. sender_'.active = sender_.active /\ sender_.active /\ sender_'.fec = sender_.fec
      BY <1>2, SendShardSender, SendShardIs
    <2>2. ~Finished'
      BY <2>1 DEF Finished
    <2>3. CASE sender_.fec
      <3>1. Trail(wire, g) /\ g < group_size /\ x \in DataShard
        BY <1>2, <2>1, <2>3, SendShardIs, TakeSome DEF TypeOK, ParityInv
      <3>2. Trail(v, g + 1)
        <4> HIDE DEF x, g
        <4> QED BY <1>1, <3>1, TrailData DEF g
      <3>3. /\ v \in Wire /\ g + 1 \in Nat
            /\ wire' = IF g + 1 = group_size THEN Append(v, Parity) ELSE v
        BY <1>1, <1>2, <2>3, ShardThenParity DEF Group
      <3>4. sender_'.group = IF g + 1 = group_size THEN 0 ELSE g + 1
        BY <1>2, <2>3, SendShardSender DEF Group
      <3> HIDE DEF v, g
      <3>5. g \in Nat
        BY <1>1 DEF g
      <3>6. CASE g + 1 = group_size
        <4>1. Trail(Append(v, Parity), 0)
          <5>1. g + 1 > 0
            BY <3>5
          <5> QED BY <3>2, <3>3, <5>1, TrailParity
        <4> QED BY <1>1, <2>2, <3>3, <3>4, <3>6, <4>1 DEF ParityInv
      <3>7. CASE g + 1 # group_size
        <4>1. wire' = v /\ sender_'.group = g + 1 /\ g + 1 < group_size
          BY <1>1, <3>1, <3>3, <3>4, <3>5, <3>7
        <4> QED BY <2>2, <3>2, <4>1 DEF ParityInv
      <3> QED BY <3>6, <3>7
    <2>4. CASE ~sender_.fec
      BY <2>1, <2>2, <2>4 DEF ParityInv
    <2> QED BY <2>3, <2>4
  <1>3. CASE begin_video_frame
    <2>1. wire' = <<>> /\ sender_'.group = 0 /\ sender_'.active
      BY <1>3, BeginSender DEF begin_video_frame
    <2>2. ~Finished'
      BY <2>1 DEF Finished
    <2> QED BY <1>1, <2>1, <2>2, ChainEmpty DEF ParityInv
  <1>4. CASE PumpReturns
    <2>1. sender_' = Idle
      BY <1>4 DEF PumpReturns
    <2> QED BY <2>1 DEF ParityInv, Idle, Finished
  <1>5. CASE finish_video_frame
    <2> DEFINE g == sender_.group
    <2>1. sender_.active /\ sender_.offset = sender_.total /\ sender_.total > 0
      BY <1>5 DEF finish_video_frame, SchedInv
    <2>2. sender_'.active = FALSE /\ sender_'.fec = sender_.fec
      BY <1>5, EndSender
    <2>3. wire' = IF g > 0 THEN Append(wire, Parity) ELSE wire
      BY <1>1, <1>5, ClosedWire DEF finish_video_frame
    <2>4. CASE sender_.fec
      <3>1. Trail(wire, g)
        BY <2>1, <2>4 DEF ParityInv
      <3>2. wire # <<>>
        <4>1. Data(wire) # {}
          BY <1>1, <2>1 DEF ChainInv, Chain
        <4> QED BY <4>1 DEF Data
      <3>3. CASE g > 0
        <4>1. Trail(Append(wire, Parity), 0)
          BY <1>1, <3>1, <3>3, TrailParity
        <4>2. wire' = Append(wire, Parity)
          BY <2>3, <3>3
        <4>3. Append(wire, Parity) # <<>>
          BY <1>1 DEF Wire
        <4> QED BY <2>2, <4>1, <4>2, <4>3 DEF ParityInv
      <3>4. CASE g = 0
        BY <2>2, <2>3, <3>1, <3>2, <3>4 DEF ParityInv
      <3> QED BY <1>1, <3>3, <3>4
    <2>5. CASE ~sender_.fec
      BY <2>2, <2>5 DEF ParityInv
    <2> QED BY <2>4, <2>5
  <1>6. CASE SendError
    <2>1. sender_.offset < sender_.total
      BY <1>6 DEF SendError
    <2>2. /\ sender_'.active = FALSE
          /\ sender_'.offset = sender_.offset /\ sender_'.total = sender_.total
      BY <1>6, EndSender
    <2>3. sender_'.offset # sender_'.total
      BY <1>1, <2>1, <2>2
    <2> QED BY <2>2, <2>3 DEF ParityInv, Finished
  <1>7. CASE UNCHANGED <<sender_, wire>>
    BY <1>7 DEF ParityInv, Finished
  <1>8. Encoded \/ Tick \/ on_settings \/ PollTimeout \/ PollPacket \/ EmptyFrame \/ UNCHANGED vars
           => UNCHANGED <<sender_, wire>>
    BY DEF Encoded, Tick, on_settings, PollTimeout, PollPacket, pump_video, EmptyFrame, vars
  <1> QED BY <1>2, <1>3, <1>4, <1>5, <1>6, <1>7, <1>8 DEF Next, PumpStep

-----------------------------------------------------------------------------
(* The results.                                                            *)

(* The inductive invariant of the session's sending loop holds always.      *)
THEOREM PacingInvariant == Spec => []IInv
  <1>1. Init => IInv
    BY PacingInit
  <1>2. IInv /\ [Next]_vars => IInv'
    <2> SUFFICES ASSUME IInv, [Next]_vars PROVE IInv'
      OBVIOUS
    <2>1. TypeOK /\ SchedInv /\ ChainInv /\ ParityInv
      BY DEF IInv
    <2>2. FlagTypeOK /\ CountTypeOK
      BY <2>1, TypeParts
    <2>3. SenderTypeOK' /\ QueueTypeOK' /\ ClockTypeOK' /\ FlagTypeOK' /\ CountTypeOK'
      BY <2>1, <2>2, SenderStep, QueueStep, ClockStep, FlagStep, CountStep
    <2>4. TypeOK'
      BY <2>3 DEF TypeOK, SenderTypeOK, QueueTypeOK, ClockTypeOK, FlagTypeOK, CountTypeOK
    <2>5. SchedInv' /\ ChainInv' /\ ParityInv'
      BY <2>1, SchedStep, ChainStep, ParityStep
    <2> QED BY <2>4, <2>5 DEF IInv
  <1> QED BY <1>1, <1>2, PTL DEF Spec

(* Type correctness of the pacing loop.                                    *)
THEOREM PacingTypeOK == Spec => []TypeOK
  <1>1. IInv => TypeOK
    BY DEF IInv
  <1> QED BY <1>1, PacingInvariant, PTL

(* The shards PacedSender::pump puts on the wire carry the bytes of the     *)
(* frame once each and in order, for any frame size and shard budget and    *)
(* over every pause, abort and change of settings.                         *)
THEOREM PacingWholeFrames == Spec => []WholeFrames
  <1>1. IInv => WholeFrames
    <2> SUFFICES ASSUME IInv PROVE WholeFrames
      OBVIOUS
    <2> DEFINE o == sender_.offset
               t == sender_.total
    <2>1. Chain(wire, o, t) /\ wire \in Wire /\ o \in Nat /\ t \in Nat
      BY SenderTypes DEF IInv, ChainInv
    <2>2. DataAt = Data(wire)
      BY DEF DataAt, Data
    <2>3. \A i \in Data(wire) : wire[i] \in DataShard
      BY <2>1, WireAppend, Kinds DEF Data
    <2>4. \A i \in Data(wire) : wire[i].bytes > 0
      BY <2>3 DEF DataShard
    <2>5. \A i \in DataAt :
             /\ First(i) <=> \A j \in Data(wire) : i <= j
             /\ Last(i) <=> \A j \in Data(wire) : j <= i
      BY <2>2 DEF First, Last
    <2> HIDE DEF o, t, DataAt, Data
    <2>6. \A i \in DataAt :
             /\ wire[i].bytes > 0
             /\ wire[i].view_info <=> First(i)
             /\ First(i) => wire[i].from = 0
             /\ wire[i].timing_info => Last(i)
             /\ \A j \in DataAt : (i < j /\ \A k \in DataAt : k <= i \/ j <= k)
                                    => wire[j].from = wire[i].from + wire[i].bytes
      BY <2>1, <2>2, <2>4, <2>5 DEF Chain
    <2>7. ASSUME Finished
          PROVE  \E i \in DataAt : /\ Last(i) /\ wire[i].timing_info
                                   /\ wire[i].from + wire[i].bytes = sender_.total
      <3>1. o = t /\ t > 0
        BY <2>7 DEF Finished, o, t
      <3>2. PICK i \in Data(wire) : \A j \in Data(wire) : j <= i
        BY <2>1, <3>1 DEF Chain
      <3>3. wire[i].timing_info /\ wire[i].from + wire[i].bytes = t
        BY <2>1, <3>1, <3>2 DEF Chain
      <3> QED BY <2>2, <2>5, <3>2, <3>3 DEF t
    <2> QED BY <2>6, <2>7 DEF WholeFrames
  <1> QED BY <1>1, PacingInvariant, PTL

(* Every data shard of a finished frame is covered by a parity shard in     *)
(* its place, for any group size (PacedSender::send_parity).                *)
THEOREM PacingParityInPlace == Spec => []ParityInPlace
  <1>1. IInv => ParityInPlace
    <2> SUFFICES ASSUME IInv, Finished, sender_.fec
                 PROVE  /\ wire[Len(wire)] = Parity
                        /\ \A i \in 1 .. Len(wire) - group_size :
                              \E j \in i .. i + group_size : wire[j] = Parity
                        /\ \A i \in 1 .. Len(wire) - 1 : wire[i] = Parity => IsData(wire[i + 1])
      BY DEF ParityInPlace
    <2>1. Trail(wire, 0) /\ wire # <<>> /\ wire \in Wire
      BY SenderTypes DEF IInv, ParityInv
    <2>2. Len(wire) \in Nat /\ Len(wire) > 0 /\ Len(wire) - 0 = Len(wire)
      BY <2>1 DEF Wire
    <2> QED BY <2>1, <2>2 DEF Trail
  <1> QED BY <1>1, PacingInvariant, PTL

(* No frame is given time past the window of its slot and no burst is       *)
(* scheduled past the time its frame was given (PacingSlot::begin_frame,    *)
(* ShardPacer::deadline), for any period, budget and queue length.          *)
THEOREM PacingWindowShared == Spec => WindowShared
  <1> DEFINE A == /\ sender_'.active /\ ~sender_.active /\ sender_'.budget > 0
                        => sender_'.start + sender_'.budget <= slot'.start + Window
                  /\ next_video_due_' > now
                        => next_video_due_' <= sender_'.start + sender_'.budget
  <1>1. IInv /\ IInv' /\ [Next]_vars => [A]_vars
    <2> SUFFICES ASSUME IInv, IInv', Next PROVE A
      OBVIOUS
    <2>1. next_video_due_' <= sender_'.start + sender_'.budget
      BY DEF IInv, SchedInv
    <2>2. ASSUME sender_'.active, ~sender_.active PROVE begin_video_frame
      <3>1. ~SendShard /\ ~finish_video_frame /\ ~SendError
        BY <2>2 DEF SendShard, finish_video_frame, SendError
      <3>2. ~PumpReturns
        BY <2>2 DEF PumpReturns, Idle
      <3>3. ~(Encoded \/ Tick \/ on_settings \/ PollTimeout \/ PollPacket \/ EmptyFrame)
        BY <2>2 DEF Encoded, Tick, on_settings, PollTimeout, PollPacket, pump_video, EmptyFrame
      <3> QED BY <3>1, <3>2, <3>3 DEF Next, PumpStep
    <2>3. ASSUME sender_'.active, ~sender_.active, sender_'.budget > 0
          PROVE  sender_'.start + sender_'.budget <= slot'.start + Window
      <3>1. begin_video_frame /\ TypeOK
        BY <2>2, <2>3 DEF IInv
      <3> QED BY <2>3, <3>1, BeginSender
    <2> QED BY <2>1, <2>3
  <1> QED BY <1>1, PacingInvariant, PTL DEF Spec, WindowShared
=============================================================================
