------------------------- MODULE SwapTextures_proofs -------------------------
(***************************************************************************)
(* Proofs about SwapTextures, for any processes, table size and number of  *)
(* creations: the reference counts, the processes that own nothing, and,   *)
(* where D3D does not give a handle again, which texture Present copies.   *)
(***************************************************************************)
EXTENDS SwapTextures, FiniteSetTheorems, WellFoundedInduction, TLAPS

-----------------------------------------------------------------------------
(* Counting.                                                               *)

(* The first of a set of numbers.                                          *)
LEMMA Least ==
  ASSUME NEW T \in SUBSET Nat, T # {}
  PROVE  \E x \in T : \A y \in T : x <= y
  <1>1. PICK x \in T : \A y \in T : ~ (<<y, x>> \in OpToRel(<, Nat))
    BY WFMin, NatLessThanWellFounded
  <1>2. \A y \in T : ~ (y < x)
    BY <1>1 DEF OpToRel
  <1> QED BY <1>2

(* The numbers from 1 to n are n of them. *)
LEMMA UpTo ==
  ASSUME NEW n \in Nat
  PROVE  IsFiniteSet(1 .. n) /\ Cardinality(1 .. n) = n
  BY FS_Interval

(* Every place of a finite set of numbers is some number's.                *)
LEMMA NthExists ==
  ASSUME NEW K \in SUBSET Nat, IsFiniteSet(K), NEW i \in 1 .. Cardinality(K)
  PROVE  /\ Nth(K, i) \in K
         /\ Cardinality({j \in K : j <= Nth(K, i)}) = i
  <1> DEFINE Below(k) == {j \in K : j <= k}
             n == Cardinality(K)
             f == [k \in K |-> Cardinality(Below(k))]
  <1>1. n \in Nat
    BY FS_CardinalityType
  <1>2. \A k \in K : IsFiniteSet(Below(k)) /\ Cardinality(Below(k)) \in 1 .. n
    <2> SUFFICES ASSUME NEW k \in K
                 PROVE  IsFiniteSet(Below(k)) /\ Cardinality(Below(k)) \in 1 .. n
      OBVIOUS
    <2>1. Below(k) \subseteq K /\ k \in Below(k)
      OBVIOUS
    <2>2. IsFiniteSet(Below(k)) /\ Cardinality(Below(k)) <= n
      BY <2>1, FS_Subset
    <2>3. Cardinality(Below(k)) \in Nat /\ Cardinality(Below(k)) # 0
      BY <2>1, <2>2, FS_CardinalityType, FS_EmptySet
    <2> HIDE DEF Below
    <2> QED BY <1>1, <2>2, <2>3
  <1>3. \A j, k \in K : j < k => f[j] # f[k]
    <2> SUFFICES ASSUME NEW j \in K, NEW k \in K, j < k PROVE f[j] # f[k]
      OBVIOUS
    <2>1. Below(j) \subseteq Below(k) /\ k \in Below(k) /\ k \notin Below(j)
      <3>1. j \in Nat /\ k \in Nat /\ \A x \in K : x \in Nat
        OBVIOUS
      <3>2. \A x \in K : x <= j => x <= k
        BY <3>1
      <3>3. k <= k /\ ~ (k <= j)
        BY <3>1
      <3> QED BY <3>2, <3>3
    <2>2. Below(j) # Below(k)
      BY <2>1
    <2>3. Cardinality(Below(j)) = Cardinality(Below(k)) => Below(j) = Below(k)
      BY <1>2, <2>1, FS_Subset
    <2> QED BY <2>2, <2>3
  <1>4. f \in Injection(K, 1 .. n)
    <2>1. f \in [K -> 1 .. n]
      BY <1>2
    <2>2. \A j, k \in K : f[j] = f[k] => j = k
      BY <1>3
    <2> HIDE DEF f
    <2> QED BY <2>1, <2>2 DEF Injection, IsInjective
  <1>5. IsFiniteSet(1 .. n) /\ Cardinality(1 .. n) = n
    BY <1>1, UpTo
  <1>6. f \in Surjection(K, 1 .. n)
    BY <1>4, <1>5, FS_Injection
  <1>7. \E k \in K : f[k] = i
    BY <1>6 DEF Surjection
  <1>8. \E k \in K : Cardinality({j \in K : j <= k}) = i
    BY <1>7
  <1> QED BY <1>8 DEF Nth

(* Each number of a finite set has a place, which names it.                *)
LEMMA NthOnto ==
  ASSUME NEW K \in SUBSET Nat, IsFiniteSet(K), NEW k \in K
  PROVE  \E i \in 1 .. Cardinality(K) : Nth(K, i) = k
  <1> DEFINE Below(m) == {j \in K : j <= m}
             i == Cardinality(Below(k))
  <1>1. Below(k) \subseteq K /\ k \in Below(k)
    OBVIOUS
  <1>2. IsFiniteSet(Below(k)) /\ i <= Cardinality(K)
    BY <1>1, FS_Subset
  <1>3. i \in Nat /\ i # 0 /\ Cardinality(K) \in Nat
    BY <1>1, <1>2, FS_CardinalityType, FS_EmptySet
  <1>4. i \in 1 .. Cardinality(K)
    <2> HIDE DEF i
    <2> QED BY <1>2, <1>3
  <1> DEFINE m == Nth(K, i)
  <1>5. m \in K /\ Cardinality(Below(m)) = i
    BY <1>4, NthExists
  <1> HIDE DEF m
  <1>6. Below(m) \subseteq Below(k) \/ Below(k) \subseteq Below(m)
    <2>1. m \in Nat /\ k \in Nat /\ \A x \in K : x \in Nat
      BY <1>5
    <2>2. (\A x \in K : x <= m => x <= k) \/ (\A x \in K : x <= k => x <= m)
      BY <2>1
    <2> QED BY <2>2
  <1>7. Below(m) \subseteq K /\ IsFiniteSet(Below(m))
    <2>1. Below(m) \subseteq K
      OBVIOUS
    <2> QED BY <2>1, FS_Subset
  <1>8. Below(m) = Below(k)
    BY <1>2, <1>5, <1>6, <1>7, FS_Subset
  <1>9. m = k
    <2>1. m \in Below(m) /\ k \in Below(k)
      BY <1>5
    <2>2. m <= k /\ k <= m
      BY <1>8, <2>1
    <2> QED BY <1>5, <2>2
  <1> QED BY <1>4, <1>9 DEF m

-----------------------------------------------------------------------------
(* Texture sets in a table.                                                *)

HeldIn(sets) == UNION {TexturesOf(sets[k]) : k \in DOMAIN sets}

(* Every texture of the table was made, and is in one place.               *)
Distinct(sets, last) ==
  \A k \in DOMAIN sets, i \in Slot :
     /\ sets[k].textures[i] <= last
     /\ \A l \in DOMAIN sets, j \in Slot :
           sets[k].textures[i] = sets[l].textures[j] => k = l /\ i = j

(* A texture of the table, told by its place.                              *)
LEMMA Held ==
  ASSUME NEW sets, NEW t
  PROVE  t \in HeldIn(sets) <=> \E k \in DOMAIN sets, i \in Slot : sets[k].textures[i] = t
  BY DEF HeldIn, TexturesOf

(* What erasing sets leaves: those of the places kept, each once.          *)
LEMMA RemainingIs ==
  ASSUME sets_ \in Seq(TextureSet), NEW K \in SUBSET DOMAIN sets_
  PROVE  /\ Remaining(K) \in Seq(TextureSet) /\ Len(Remaining(K)) <= Len(sets_)
         /\ \A i \in DOMAIN Remaining(K) : /\ Nth(K, i) \in K
                                           /\ Remaining(K)[i] = sets_[Nth(K, i)]
         /\ \A i, j \in DOMAIN Remaining(K) : Nth(K, i) = Nth(K, j) => i = j
         /\ \A k \in K : \E i \in DOMAIN Remaining(K) : Nth(K, i) = k
  <1> DEFINE n == Cardinality(K)
             R == Remaining(K)
  <1>1. DOMAIN sets_ = 1 .. Len(sets_) /\ Len(sets_) \in Nat
    OBVIOUS
  <1>2. K \in SUBSET Nat
    BY <1>1
  <1>3. IsFiniteSet(K) /\ n <= Len(sets_) /\ n \in Nat
    <2> DEFINE m == Len(sets_)
    <2> HIDE DEF m
    <2>1. m \in Nat /\ DOMAIN sets_ = 1 .. m
      BY <1>1 DEF m
    <2>2. IsFiniteSet(1 .. m) /\ Cardinality(1 .. m) = m
      BY <2>1, UpTo
    <2>3. IsFiniteSet(K) /\ Cardinality(K) <= m
      BY <2>1, <2>2, FS_Subset
    <2> QED BY <2>3, FS_CardinalityType DEF m
  <1>4. R = [i \in 1 .. n |-> sets_[Nth(K, i)]]
    BY DEF Remaining
  <1>5. \A i \in 1 .. n : /\ Nth(K, i) \in K
                          /\ Cardinality({j \in K : j <= Nth(K, i)}) = i
    BY <1>2, <1>3, NthExists
  <1>6. \A k \in K : \E i \in 1 .. n : Nth(K, i) = k
    BY <1>2, <1>3, NthOnto
  <1> HIDE DEF n, R
  <1>7. \A i \in 1 .. n : sets_[Nth(K, i)] \in TextureSet
    <2>1. \A k \in DOMAIN sets_ : sets_[k] \in TextureSet
      OBVIOUS
    <2> HIDE DEF Nth
    <2> QED BY <1>5, <2>1
  <1>8. R \in Seq(TextureSet) /\ Len(R) = n /\ DOMAIN R = 1 .. n
    <2> HIDE DEF Remaining, Nth, TextureSet
    <2> QED BY <1>3, <1>4, <1>7
  <1>9. \A i, j \in 1 .. n : Nth(K, i) = Nth(K, j) => i = j
    BY <1>5
  <1>10. \A i \in 1 .. n : R[i] = sets_[Nth(K, i)]
    BY <1>4
  <1> QED BY <1>3, <1>5, <1>6, <1>8, <1>9, <1>10 DEF R

(* The textures of the sets kept, and no other.                            *)
LEMMA RemainingHeld ==
  ASSUME sets_ \in Seq(TextureSet), NEW K \in SUBSET DOMAIN sets_, NEW last, Distinct(sets_, last)
  PROVE  /\ Distinct(Remaining(K), last)
         /\ \A t : t \in HeldIn(Remaining(K))
                      <=> \E k \in K, i \in Slot : sets_[k].textures[i] = t
  <1> DEFINE R == Remaining(K)
  <1>1. /\ \A i \in DOMAIN R : Nth(K, i) \in K /\ R[i] = sets_[Nth(K, i)]
        /\ \A i, j \in DOMAIN R : Nth(K, i) = Nth(K, j) => i = j
        /\ \A k \in K : \E i \in DOMAIN R : Nth(K, i) = k
    BY RemainingIs
  <1> HIDE DEF R
  <1>2. Distinct(R, last)
    <2> SUFFICES ASSUME NEW a \in DOMAIN R, NEW i \in Slot
                 PROVE  /\ R[a].textures[i] <= last
                        /\ \A l \in DOMAIN R, j \in Slot :
                              R[a].textures[i] = R[l].textures[j] => a = l /\ i = j
      BY DEF Distinct
    <2>1. Nth(K, a) \in DOMAIN sets_ /\ R[a] = sets_[Nth(K, a)]
      BY <1>1
    <2>2. R[a].textures[i] <= last
      BY <2>1 DEF Distinct
    <2>3. ASSUME NEW l \in DOMAIN R, NEW j \in Slot, R[a].textures[i] = R[l].textures[j]
          PROVE  a = l /\ i = j
      <3>1. Nth(K, l) \in DOMAIN sets_ /\ R[l] = sets_[Nth(K, l)]
        BY <1>1
      <3>2. Nth(K, a) = Nth(K, l) /\ i = j
        BY <2>1, <2>3, <3>1 DEF Distinct
      <3> QED BY <1>1, <3>2
    <2> QED BY <2>2, <2>3
  <1>3. \A t : t \in HeldIn(R) <=> \E k \in K, i \in Slot : sets_[k].textures[i] = t
    <2> TAKE t
    <2>1. t \in HeldIn(R) <=> \E a \in DOMAIN R, i \in Slot : R[a].textures[i] = t
      BY Held
    <2> QED BY <1>1, <2>1
  <1> QED BY <1>2, <1>3 DEF R

(* find_set_locked: the place of a set with the handle, or 0.              *)
LEMMA FindSet ==
  ASSUME sets_ \in Seq(TextureSet), NEW h
  PROVE  \/ find_set_locked(h) = 0
         \/ find_set_locked(h) \in DOMAIN sets_ /\ HasHandle(sets_[find_set_locked(h)], h)
  <1> DEFINE found == {k \in DOMAIN sets_ : h # None /\ HasHandle(sets_[k], h)}
  <1>1. found \in SUBSET Nat
    OBVIOUS
  <1>2. CASE found = {}
    BY <1>2 DEF find_set_locked
  <1>3. CASE found # {}
    <2>1. \E k \in found : \A j \in found : k <= j
      BY <1>1, <1>3, Least
    <2> DEFINE c == CHOOSE k \in found : \A j \in found : k <= j
    <2>2. c \in found
      BY <2>1
    <2>3. find_set_locked(h) = c
      BY <1>3 DEF find_set_locked
    <2> HIDE DEF c
    <2> QED BY <2>2, <2>3
  <1> QED BY <1>2, <1>3

(* find_texture_locked: a texture of the table with the handle, or none.    *)
LEMMA FindTexture ==
  ASSUME sets_ \in Seq(TextureSet), NEW h
  PROVE  \/ find_texture_locked(h) = None
         \/ \E k \in DOMAIN sets_, i \in Slot :
               find_texture_locked(h) = sets_[k].textures[i] /\ sets_[k].handles[i] = h
  <1> DEFINE k == find_set_locked(h)
             c == CHOOSE i \in Slot : sets_[k].handles[i] = h
  <1>1. find_texture_locked(h) = IF k = 0 THEN None ELSE sets_[k].textures[c]
    BY DEF find_texture_locked
  <1>2. CASE k = 0
    BY <1>1, <1>2
  <1>3. CASE k # 0
    <2>1. k \in DOMAIN sets_ /\ \E i \in Slot : sets_[k].handles[i] = h
      BY <1>3, FindSet DEF HasHandle
    <2>2. c \in Slot /\ sets_[k].handles[c] = h
      BY <2>1
    <2> HIDE DEF k, c
    <2> QED BY <1>1, <1>3, <2>1, <2>2
  <1> QED BY <1>2, <1>3

-----------------------------------------------------------------------------
(* The inductive invariant.                                                *)

(* The processes with a CreateSwapTextureSet in progress.                  *)
Busy == {p \in Pids : pc[p] \in {"device", "sets"}}

(* Each call in progress may still make three textures, and its process is *)
(* not one whose sets were destroyed last.                                 *)
WorkInv ==
  /\ \A p \in Pids : pc[p] \in {"idle", "device", "sets"}
  /\ pc["present"] \in {"idle", "device", "find", "copy"}
  /\ IsFiniteSet(Busy) /\ made + 3 * Cardinality(Busy) <= 3 * creates
  /\ \A p \in Busy : p \notin gone

TableInv == Distinct(sets_, made)

(* Present holds textures during the copy only.                            *)
EyesInv ==
  /\ \A e \in Eye : eyes[e] <= made
  /\ pc["present"] # "copy" => eyes = NoEyes

IInv == TypeOK /\ WorkInv /\ TableInv /\ EyesInv /\ RefsMatchHolders /\ DeadOwnsNothing

(* The threads and the textures.                                           *)
LEMMA ConstantFacts ==
  /\ Pids \subseteq Thread /\ "present" \in Thread /\ "present" \notin Pids
  /\ None \notin Texture /\ Texture \subseteq Nat /\ None = 0
  /\ Slot = 0 .. 2 /\ Eye = 1 .. 2 /\ MaxCreates \in Nat /\ Texture = 1 .. 3 * MaxCreates
  BY SwapAssumption DEF Thread, None, Texture, Slot, Eye

(* The eyes hold a texture at most twice.                                  *)
LEMMA HoldersRange ==
  ASSUME NEW pair, NEW t
  PROVE  /\ HoldersIn(pair, t) \in 0 .. 2
         /\ HoldersIn(pair, t) = 0 <=> \A e \in Eye : pair[e] # t
  <1> DEFINE S == {e \in Eye : pair[e] = t}
  <1>1. IsFiniteSet(Eye) /\ Cardinality(Eye) = 2
    <2>1. IsFiniteSet({1}) /\ Cardinality({1}) = 1
      BY FS_Singleton
    <2>2. IsFiniteSet({1} \cup {2}) /\ Cardinality({1} \cup {2}) = 2
      BY <2>1, FS_AddElement
    <2>3. Eye = {1} \cup {2}
      BY DEF Eye
    <2> QED BY <2>2, <2>3
  <1>2. S \subseteq Eye
    OBVIOUS
  <1>3. IsFiniteSet(S) /\ Cardinality(S) <= 2
    BY <1>1, <1>2, FS_Subset
  <1>4. Cardinality(S) \in Nat /\ (Cardinality(S) = 0 <=> S = {})
    BY <1>3, FS_CardinalityType, FS_EmptySet
  <1>5. S = {} <=> \A e \in Eye : pair[e] # t
    OBVIOUS
  <1> HIDE DEF S
  <1>6. Cardinality(S) \in 0 .. 2
    BY <1>3, <1>4
  <1> QED BY <1>4, <1>5, <1>6 DEF HoldersIn, S

(* When Present holds no texture, no texture has a holder in it. *)
LEMMA NoHolders ==
  ASSUME NEW t \in Texture
  PROVE  HoldersIn(NoEyes, t) = 0
  <1>1. \A e \in Eye : NoEyes[e] # t
    BY ConstantFacts DEF NoEyes
  <1> QED BY <1>1, HoldersRange

(* No eyes and no layer are values of their types. *)
LEMMA NoTypes ==
  /\ NoEyes \in [Eye -> MaybeTexture] /\ NoLayer \in Layer
  BY DEF NoEyes, NoLayer, Layer, MaybeTexture

(* The invariant holds before the first set is created. *)
LEMMA SwapInit ==
  Init => IInv
  <1> SUFFICES ASSUME Init PROVE IInv
    OBVIOUS
  <1>1. TypeOK
    <2>1. refs \in [Texture -> 0 .. 3] /\ handleOf \in [Texture -> MaybeTexture]
      BY DEF Init, MaybeTexture
    <2>2. sets_ \in Seq(TextureSet) /\ Len(sets_) <= kMaxTextureSets
      BY SwapAssumption DEF Init
    <2>3. pc \in [Thread -> {"idle", "device", "sets", "find", "copy"}]
      BY DEF Init
    <2>4. /\ device_attempts_ \in 0 .. kMaxDeviceAttempts /\ creates \in 0 .. MaxCreates
          /\ made \in 0 .. (3 * creates) /\ shared_textures_ \subseteq SyncHandles
          /\ device_mutex_ \in Thread \cup {"free"} /\ out \in {"none", "some", "all"}
          /\ gone \subseteq Pids
      BY SwapAssumption DEF Init
    <2>5. last_layer_texture_ \in Layer /\ frame \in Layer /\ eyes \in [Eye -> MaybeTexture]
      BY NoTypes DEF Init
    <2>6. device_ \in BOOLEAN /\ submitted_layers_ \in BOOLEAN /\ shut_down_ \in BOOLEAN
      BY Zenon DEF Init
    <2> QED BY <2>1, <2>2, <2>3, <2>4, <2>5, <2>6 DEF TypeOK
  <1>2. WorkInv
    <2>1. \A t \in Thread : pc[t] = "idle"
      BY DEF Init
    <2>2. Busy = {}
      BY <2>1, ConstantFacts DEF Busy
    <2>3. IsFiniteSet(Busy) /\ Cardinality(Busy) = 0
      BY <2>2, FS_EmptySet
    <2> QED BY <2>1, <2>2, <2>3, ConstantFacts DEF WorkInv, Init
  <1>3. TableInv /\ DeadOwnsNothing /\ HeldBySets = {}
    BY DEF Init, TableInv, Distinct, DeadOwnsNothing, HeldBySets
  <1>4. EyesInv
    BY DEF Init, EyesInv, NoEyes, None
  <1>5. RefsMatchHolders
    <2>1. \A t \in Texture : refs[t] = 0 /\ HoldersIn(eyes, t) = 0
      BY NoHolders DEF Init
    <2>2. ~shut_down_
      BY DEF Init
    <2> QED BY <1>3, <2>1, <2>2 DEF RefsMatchHolders
  <1> QED BY <1>1, <1>2, <1>3, <1>4, <1>5 DEF IInv

-----------------------------------------------------------------------------
(* Calls in progress.                                                      *)

(* What a step does to them: one is called, one returns, or neither.       *)
LEMMA BusyMoves ==
  ASSUME TypeOK, WorkInv, [Next]_vars
  PROVE  \/ \E p \in Pids : /\ p \notin Busy /\ Busy' = Busy \cup {p}
                            /\ creates < MaxCreates /\ creates' = creates + 1
                            /\ made' = made /\ gone' = gone \ {p}
         \/ \E p \in Busy : /\ Busy' = Busy \ {p}
                            /\ creates' = creates /\ made' \in {made, made + 3} /\ gone' = gone
         \/ /\ Busy' = Busy /\ creates' = creates /\ made' = made
            /\ gone' = gone \/ \E p \in Pids : pc[p] = "idle" /\ gone' = gone \cup {p}
  <1>1. pc \in [Thread -> {"idle", "device", "sets", "find", "copy"}]
    BY DEF TypeOK
  <1>2. ASSUME NEW p \in Pids, CreateSwapTextureSet(p)
        PROVE  /\ p \notin Busy /\ Busy' = Busy \cup {p}
               /\ creates < MaxCreates /\ creates' = creates + 1
               /\ made' = made /\ gone' = gone \ {p}
    BY <1>1, <1>2, ConstantFacts DEF CreateSwapTextureSet, Busy, textureVars
  <1>3. ASSUME NEW p \in Pids,
               CreateRefused(p) \/ CreateFails(p) \/ CreateRolledBack(p) \/ CreateOk(p)
        PROVE  /\ p \in Busy /\ Busy' = Busy \ {p}
               /\ creates' = creates /\ made' \in {made, made + 3} /\ gone' = gone
    <2>1. pc[p] = "sets" /\ CreateFinished(p) /\ made' \in {made, made + 3}
      BY <1>3 DEF CreateRefused, CreateFails, CreateRolledBack, CreateOk, textureVars
    <2> QED BY <1>1, <2>1, ConstantFacts DEF CreateFinished, Busy
  <1>4. ASSUME NEW p \in Pids, CreateWithDevice(p)
        PROVE  /\ p \in Busy /\ Busy' \in {Busy, Busy \ {p}}
               /\ creates' = creates /\ made' = made /\ gone' = gone
    <2>1. /\ pc[p] = "device"
          /\ pc' = [pc EXCEPT ![p] = "sets"] \/ pc' = [pc EXCEPT ![p] = "idle"]
          /\ creates' = creates /\ made' = made /\ gone' = gone
      BY <1>4 DEF CreateWithDevice, textureVars
    <2> QED BY <1>1, <2>1, ConstantFacts DEF Busy
  <1>5. ASSUME NEW p \in Pids,
               \/ \E h \in SetHandles : DestroySwapTextureSet(p, h)
               \/ DestroyAllSwapTextureSets(p)
               \/ \E l, r \in SetHandles \cup {None} : GetNextSwapTextureSetIndex(p, l, r)
        PROVE  /\ pc' = pc /\ creates' = creates /\ made' = made
               /\ gone' = gone \/ (pc[p] = "idle" /\ gone' = gone \cup {p})
    BY <1>5 DEF DestroySwapTextureSet, DestroyAllSwapTextureSets, GetNextSwapTextureSetIndex,
                textureVars
  <1>6. ASSUME PresentThread \/ shutdown \/ UNCHANGED vars
        PROVE  /\ \A p \in Pids : pc'[p] = pc[p]
               /\ creates' = creates /\ made' = made /\ gone' = gone
    <2>1. /\ creates' = creates /\ made' = made /\ gone' = gone
          /\ pc' = pc \/ \E at \in {"idle", "device", "find", "copy"} :
                            pc' = [pc EXCEPT !["present"] = at]
      BY <1>6 DEF PresentThread, SubmitLayer, Present, PresentWithDevice, FindEyes, PresentReturns,
                  shutdown, vars, textureVars
    <2> QED BY <1>1, <2>1, ConstantFacts
  <1>7. CASE \E p \in Pids : ProcessCalls(p)
    <2>1. PICK p \in Pids : ProcessCalls(p)
      BY <1>7
    <2>2. pc' = pc => Busy' = Busy
      BY DEF Busy
    <2> QED BY <1>2, <1>3, <1>4, <1>5, <2>1, <2>2 DEF ProcessCalls
  <1>8. CASE PresentThread \/ shutdown \/ UNCHANGED vars
    <2>1. Busy' = Busy
      BY <1>6, <1>8 DEF Busy
    <2> QED BY <1>6, <1>8, <2>1
  <1> QED BY <1>7, <1>8 DEF Next

(* The two sums a call in progress counts in.                              *)
LEMMA WorkStep ==
  ASSUME TypeOK, WorkInv, [Next]_vars
  PROVE  /\ IsFiniteSet(Busy)' /\ (made + 3 * Cardinality(Busy) <= 3 * creates)'
         /\ \A p \in Busy' : p \notin gone'
         /\ creates' \in 0 .. MaxCreates /\ made' \in 0 .. (3 * creates') /\ gone' \subseteq Pids
  <1>1. /\ creates \in 0 .. MaxCreates /\ made \in 0 .. (3 * creates) /\ gone \subseteq Pids
        /\ MaxCreates \in Nat
    BY SwapAssumption DEF TypeOK
  <1>2. /\ IsFiniteSet(Busy) /\ made + 3 * Cardinality(Busy) <= 3 * creates
        /\ \A p \in Busy : p \notin gone
    BY DEF WorkInv
  <1>3. Cardinality(Busy) \in Nat
    BY <1>2, FS_CardinalityType
  <1>4. ASSUME NEW p \in Pids, p \notin Busy, Busy' = Busy \cup {p},
               creates < MaxCreates, creates' = creates + 1, made' = made, gone' = gone \ {p}
        PROVE  /\ IsFiniteSet(Busy') /\ made' + 3 * Cardinality(Busy') <= 3 * creates'
               /\ \A q \in Busy' : q \notin gone'
               /\ creates' \in 0 .. MaxCreates /\ made' \in 0 .. (3 * creates')
               /\ gone' \subseteq Pids
    <2>1. IsFiniteSet(Busy') /\ Cardinality(Busy') = Cardinality(Busy) + 1
      BY <1>2, <1>4, FS_AddElement
    <2>2. made' + 3 * Cardinality(Busy') <= 3 * creates'
      BY <1>1, <1>2, <1>3, <1>4, <2>1
    <2> QED BY <1>1, <1>2, <1>4, <2>1, <2>2
  <1>5. ASSUME NEW p \in Busy, Busy' = Busy \ {p},
               creates' = creates, made' \in {made, made + 3}, gone' = gone
        PROVE  /\ IsFiniteSet(Busy') /\ made' + 3 * Cardinality(Busy') <= 3 * creates'
               /\ \A q \in Busy' : q \notin gone'
               /\ creates' \in 0 .. MaxCreates /\ made' \in 0 .. (3 * creates')
               /\ gone' \subseteq Pids
    <2>1. IsFiniteSet(Busy') /\ Cardinality(Busy') = Cardinality(Busy) - 1
      BY <1>2, <1>5, FS_RemoveElement
    <2>2. Cardinality(Busy') \in Nat
      BY <2>1, FS_CardinalityType
    <2>3. made' + 3 * Cardinality(Busy') <= 3 * creates' /\ made' \in 0 .. (3 * creates')
      BY <1>1, <1>2, <1>3, <1>5, <2>1, <2>2
    <2> QED BY <1>1, <1>2, <1>5, <2>1, <2>3
  <1>6. ASSUME Busy' = Busy, creates' = creates, made' = made,
               gone' = gone \/ \E p \in Pids : pc[p] = "idle" /\ gone' = gone \cup {p}
        PROVE  /\ IsFiniteSet(Busy') /\ made' + 3 * Cardinality(Busy') <= 3 * creates'
               /\ \A q \in Busy' : q \notin gone'
               /\ creates' \in 0 .. MaxCreates /\ made' \in 0 .. (3 * creates')
               /\ gone' \subseteq Pids
    <2>1. \A q \in Busy' : q \notin gone'
      BY <1>2, <1>6 DEF Busy
    <2> HIDE DEF Busy
    <2> QED BY <1>1, <1>2, <1>6, <2>1
  <1> HIDE DEF Busy
  <1> QED BY <1>4, <1>5, <1>6, BusyMoves

(* Where the threads may be.                                               *)
LEMMA PcStep ==
  ASSUME TypeOK, WorkInv, [Next]_vars
  PROVE  /\ pc' \in [Thread -> {"idle", "device", "sets", "find", "copy"}]
         /\ \A p \in Pids : pc'[p] \in {"idle", "device", "sets"}
         /\ pc'["present"] \in {"idle", "device", "find", "copy"}
  <1>1. /\ pc \in [Thread -> {"idle", "device", "sets", "find", "copy"}]
        /\ \A p \in Pids : pc[p] \in {"idle", "device", "sets"}
        /\ pc["present"] \in {"idle", "device", "find", "copy"}
    BY DEF TypeOK, WorkInv
  <1>2. \/ pc' = pc
        \/ \E p \in Pids, at \in {"idle", "device", "sets"} : pc' = [pc EXCEPT ![p] = at]
        \/ \E at \in {"idle", "device", "find", "copy"} : pc' = [pc EXCEPT !["present"] = at]
    <2>1. ASSUME NEW p \in Pids, ProcessCalls(p)
          PROVE  pc' = pc \/ \E at \in {"idle", "device", "sets"} : pc' = [pc EXCEPT ![p] = at]
      BY <2>1 DEF ProcessCalls, CreateSwapTextureSet, CreateWithDevice, CreateRefused, CreateFails,
                  CreateRolledBack, CreateOk, CreateFinished, DestroySwapTextureSet,
                  DestroyAllSwapTextureSets, GetNextSwapTextureSetIndex
    <2>2. PresentThread \/ shutdown \/ UNCHANGED vars =>
            pc' = pc \/ \E at \in {"idle", "device", "find", "copy"} :
                           pc' = [pc EXCEPT !["present"] = at]
      BY DEF PresentThread, SubmitLayer, Present, PresentWithDevice, FindEyes, PresentReturns,
             shutdown, vars
    <2> QED BY <2>1, <2>2 DEF Next
  <1> QED BY <1>1, <1>2, ConstantFacts

-----------------------------------------------------------------------------
(* The table and the counts.                                               *)

Counts(sets, pair, count) ==
  \A t \in Texture : count[t] = (IF t \in HeldIn(sets) THEN 1 ELSE 0) + HoldersIn(pair, t)

TableOK(sets, last) ==
  sets \in Seq(TextureSet) /\ Len(sets) <= kMaxTextureSets /\ Distinct(sets, last)

(* RefsMatchHolders, with the table and Present's textures as parameters, so that it can
   be stated of a table that a call builds. *)
LEMMA CountsAre ==
  /\ HeldBySets = HeldIn(sets_)
  /\ RefsMatchHolders <=>
        /\ Counts(sets_, eyes, refs)
        /\ shut_down_ => ~device_ /\ sets_ = <<>> /\ \A t \in Texture : refs[t] = 0
  BY DEF RefsMatchHolders, HeldBySets, HeldIn, Counts

(* What the sets of a table hold.                                          *)
LEMMA TextureTypes ==
  ASSUME NEW sets \in Seq(TextureSet), NEW k \in DOMAIN sets
  PROVE  /\ sets[k] \in TextureSet /\ sets[k].pid \in Pids
         /\ \A i \in Slot : sets[k].textures[i] \in Texture /\ sets[k].textures[i] \in Nat
  <1>1. sets[k] \in TextureSet
    OBVIOUS
  <1>2. sets[k].textures \in [Slot -> Texture] /\ sets[k].pid \in Pids
    BY <1>1 DEF TextureSet
  <1> QED BY <1>1, <1>2, ConstantFacts

(* More textures made, none of them in the table.                          *)
LEMMA DistinctLater ==
  ASSUME NEW sets \in Seq(TextureSet), NEW m \in Nat, NEW n \in Nat, m <= n, Distinct(sets, m)
  PROVE  Distinct(sets, n)
  <1>1. \A k \in DOMAIN sets, i \in Slot : sets[k].textures[i] \in Nat
    BY TextureTypes
  <1> HIDE DEF TextureSet
  <1> QED BY <1>1 DEF Distinct

(* CreateSwapTextureSet, done.                                             *)
LEMMA CreateOkStep ==
  ASSUME TypeOK, WorkInv, TableInv, Counts(sets_, eyes, refs), EyesInv,
         NEW p \in Pids, CreateOk(p)
  PROVE  /\ TableOK(sets_', made') /\ Counts(sets_', eyes', refs')
         /\ DOMAIN refs' = Texture /\ handleOf' \in [Texture -> MaybeTexture]
         /\ ~ReuseHandles => \A k \in DOMAIN sets_' : sets_'[k].handles = sets_'[k].textures
                                \/ (k \in DOMAIN sets_ /\ sets_'[k] = sets_[k])
         /\ \A k \in DOMAIN sets_' : sets_'[k].pid = p \/ (k \in DOMAIN sets_ /\ sets_'[k] = sets_[k])
  <1> DEFINE set == [pid |-> p, textures |-> [i \in Slot |-> New(i)],
                     handles |-> NewHandles, index |-> 0]
             n == Len(sets_)
  <1>1. /\ sets_' = Append(sets_, set) /\ made' = made + 3 /\ eyes' = eyes
        /\ refs' = [t \in Texture |-> IF t \in TexturesOf(set) THEN 1 ELSE refs[t]]
        /\ handleOf' = [t \in Texture |-> IF t \in TexturesOf(set) THEN set.handles[t - New(0)]
                                         ELSE handleOf[t]]
        /\ pc[p] = "sets" /\ n < kMaxTextureSets
    BY DEF CreateOk, CreateFinished, presentVars
  <1>2. /\ sets_ \in Seq(TextureSet) /\ n \in Nat /\ DOMAIN sets_ = 1 .. n
        /\ made \in Nat /\ creates \in 0 .. MaxCreates /\ kMaxTextureSets \in Nat
        /\ handleOf \in [Texture -> MaybeTexture] /\ eyes \in [Eye -> MaybeTexture]
    BY SwapAssumption DEF TypeOK
  <1>3. made + 3 <= 3 * MaxCreates
    <2>1. p \in Busy /\ IsFiniteSet(Busy) /\ made + 3 * Cardinality(Busy) <= 3 * creates
      BY <1>1 DEF Busy, WorkInv
    <2>2. Cardinality(Busy) \in Nat /\ Cardinality(Busy) # 0
      BY <2>1, FS_CardinalityType, FS_EmptySet
    <2> QED BY <1>2, <2>1, <2>2, ConstantFacts
  <1>4. /\ \A i \in Slot : New(i) \in Texture /\ New(i) > made /\ New(i) <= made + 3
        /\ \A i, j \in Slot : New(i) = New(j) => i = j
    BY <1>2, <1>3, ConstantFacts DEF New
  <1>5. \A t : t \in TexturesOf(set) <=> \E i \in Slot : t = New(i)
    BY DEF TexturesOf
  <1>6. \A k \in DOMAIN sets_, i \in Slot : sets_[k].textures[i] <= made /\ sets_[k].textures[i] \in Nat
    <2>1. \A k \in DOMAIN sets_, i \in Slot : sets_[k].textures[i] \in Nat
      BY <1>2, TextureTypes
    <2> QED BY <2>1 DEF TableInv, Distinct
  <1>7. \A t \in Texture : t > made => t \notin HeldIn(sets_) /\ refs[t] = 0 /\ HoldersIn(eyes, t) = 0
    <2> SUFFICES ASSUME NEW t \in Texture, t > made
                 PROVE  t \notin HeldIn(sets_) /\ refs[t] = 0 /\ HoldersIn(eyes, t) = 0
      OBVIOUS
    <2>1. t \notin HeldIn(sets_)
      <3>1. \A k \in DOMAIN sets_, i \in Slot : sets_[k].textures[i] # t
        BY <1>2, <1>6, ConstantFacts
      <3> QED BY <3>1, Held
    <2>2. \A e \in Eye : eyes[e] # t
      BY <1>2, ConstantFacts DEF EyesInv
    <2>3. HoldersIn(eyes, t) = 0
      BY <2>2, HoldersRange
    <2> QED BY <2>1, <2>3 DEF Counts
  <1>8. NewHandles \in [Slot -> Texture]
    <2>1. CASE ~ReuseHandles
      BY <1>4, <2>1 DEF NewHandles
    <2>2. CASE ReuseHandles
      <3>1. FreeHandles \in SUBSET Nat
        BY ConstantFacts DEF FreeHandles
      <3>2. IsFiniteSet(FreeHandles) /\ Cardinality(FreeHandles) >= 3
        <4> DEFINE live == 1 .. made
                   taken == {handleOf[t] : t \in live}
                   m == 3 * MaxCreates
        <4>1. m \in Nat /\ made + 3 <= m /\ Texture = 1 .. m
          BY <1>3, ConstantFacts
        <4> HIDE DEF m
        <4>2. IsFiniteSet(Texture) /\ Cardinality(Texture) = m
          BY <4>1, UpTo
        <4>3. IsFiniteSet(live) /\ Cardinality(live) = made
          BY <1>2, UpTo
        <4>4. IsFiniteSet(taken) /\ Cardinality(taken) <= made
          <5> HIDE DEF live
          <5> DEFINE f == [t \in live |-> handleOf[t]]
          <5>1. f \in Surjection(live, taken)
            BY DEF Surjection
          <5> QED BY <4>3, <5>1, FS_Surjection
        <4>5. IsFiniteSet(Texture \cap taken) /\ Cardinality(Texture \cap taken) <= made
          <5>1. Texture \cap taken \subseteq taken
            OBVIOUS
          <5>2. Cardinality(taken) \in Nat
            BY <4>4, FS_CardinalityType
          <5>3. IsFiniteSet(Texture \cap taken) /\ Cardinality(Texture \cap taken) <= Cardinality(taken)
            BY <4>4, <5>1, FS_Subset
          <5>4. Cardinality(Texture \cap taken) \in Nat
            BY <5>3, FS_CardinalityType
          <5> HIDE DEF taken
          <5> QED BY <1>2, <4>4, <5>2, <5>3, <5>4
        <4>6. /\ IsFiniteSet(Texture \ taken)
              /\ Cardinality(Texture \ taken) = Cardinality(Texture) - Cardinality(Texture \cap taken)
          BY <4>2, FS_Difference
        <4>7. Cardinality(Texture \ taken) >= 3
          <5>1. Cardinality(Texture \cap taken) \in Nat
            BY <4>5, FS_CardinalityType
          <5> HIDE DEF taken
          <5> QED BY <1>2, <4>1, <4>2, <4>5, <4>6, <5>1
        <4>8. Texture \ taken \subseteq FreeHandles /\ FreeHandles \subseteq Texture
          <5>1. \A t \in Texture : refs[t] > 0 => t \in live
            BY <1>2, <1>7, ConstantFacts
          <5> HIDE DEF live
          <5> QED BY <5>1 DEF FreeHandles
        <4>9. IsFiniteSet(FreeHandles)
          BY <4>2, <4>8, FS_Subset
        <4>10. Cardinality(Texture \ taken) <= Cardinality(FreeHandles)
          BY <4>8, <4>9, FS_Subset
        <4>11. Cardinality(FreeHandles) \in Nat /\ Cardinality(Texture \ taken) \in Nat
          BY <4>6, <4>9, FS_CardinalityType
        <4> HIDE DEF taken
        <4> QED BY <4>7, <4>9, <4>10, <4>11
      <3>3. \A i \in Slot : i + 1 \in 1 .. Cardinality(FreeHandles)
        BY <3>2, FS_CardinalityType, ConstantFacts
      <3>4. \A i \in Slot : Nth(FreeHandles, i + 1) \in FreeHandles
        BY <3>1, <3>2, <3>3, NthExists
      <3>5. FreeHandles \subseteq Texture
        BY DEF FreeHandles
      <3> HIDE DEF FreeHandles, Nth
      <3> QED BY <2>2, <3>4, <3>5 DEF NewHandles
    <2> QED BY <2>1, <2>2
  <1>9. set \in TextureSet
    BY <1>4, <1>8 DEF TextureSet, Slot
  <1>10. set.textures = [i \in Slot |-> New(i)] /\ set.handles = NewHandles /\ set.pid = p
    OBVIOUS
  <1> HIDE DEF set, n
  <1>11. /\ sets_' \in Seq(TextureSet) /\ Len(sets_') = n + 1 /\ DOMAIN sets_' = 1 .. n + 1
         /\ sets_'[n + 1] = set /\ \A k \in DOMAIN sets_ : sets_'[k] = sets_[k]
    BY <1>1, <1>2, <1>9 DEF n
  <1>12. /\ \A i \in Slot : sets_'[n + 1].textures[i] = New(i)
         /\ \A k \in DOMAIN sets_' : k = n + 1 \/ k \in DOMAIN sets_
         /\ n + 1 \notin DOMAIN sets_
    BY <1>2, <1>10, <1>11
  <1>13. Distinct(sets_', made')
    <2> SUFFICES ASSUME NEW k \in DOMAIN sets_', NEW i \in Slot
                 PROVE  /\ sets_'[k].textures[i] <= made + 3
                        /\ \A l \in DOMAIN sets_', j \in Slot :
                              sets_'[k].textures[i] = sets_'[l].textures[j] => k = l /\ i = j
      BY <1>1 DEF Distinct
    <2>1. CASE k = n + 1
      <3>1. \A l \in DOMAIN sets_, j \in Slot : New(i) # sets_'[l].textures[j]
        BY <1>2, <1>4, <1>6, <1>11
      <3> QED BY <1>4, <1>12, <2>1, <3>1
    <2>2. CASE k \in DOMAIN sets_
      <3>1. sets_'[k].textures[i] <= made /\ sets_'[k].textures[i] \in Nat
        BY <1>6, <1>11, <2>2
      <3>2. \A j \in Slot : New(j) # sets_'[k].textures[i]
        BY <1>2, <1>4, <3>1
      <3>3. \A l \in DOMAIN sets_, j \in Slot :
               sets_'[k].textures[i] = sets_'[l].textures[j] => k = l /\ i = j
        BY <1>11, <2>2 DEF TableInv, Distinct
      <3> QED BY <1>2, <1>12, <3>1, <3>2, <3>3
    <2> QED BY <1>12, <2>1, <2>2
  <1>14. \A t : t \in HeldIn(sets_') <=> t \in HeldIn(sets_) \/ t \in TexturesOf(set)
    <2> TAKE t
    <2>1. /\ t \in HeldIn(sets_') <=> \E k \in DOMAIN sets_', i \in Slot : sets_'[k].textures[i] = t
          /\ t \in HeldIn(sets_) <=> \E k \in DOMAIN sets_, i \in Slot : sets_[k].textures[i] = t
      BY Held
    <2>2. n + 1 \in DOMAIN sets_' /\ DOMAIN sets_ \subseteq DOMAIN sets_'
      BY <1>2, <1>11
    <2> QED BY <1>5, <1>11, <1>12, <2>1, <2>2
  <1>15. Counts(sets_', eyes', refs')
    <2> SUFFICES ASSUME NEW t \in Texture
                 PROVE  refs'[t] = (IF t \in HeldIn(sets_') THEN 1 ELSE 0) + HoldersIn(eyes, t)
      BY <1>1 DEF Counts
    <2>1. refs[t] = (IF t \in HeldIn(sets_) THEN 1 ELSE 0) + HoldersIn(eyes, t)
      BY DEF Counts
    <2>2. CASE t \in TexturesOf(set)
      <3>1. t > made
        BY <1>4, <1>5, <2>2
      <3> QED BY <1>1, <1>7, <1>14, <2>2, <3>1
    <2>3. CASE t \notin TexturesOf(set)
      BY <1>1, <1>14, <2>1, <2>3
    <2> QED BY <2>2, <2>3
  <1>16. handleOf' \in [Texture -> MaybeTexture]
    <2>1. \A i \in Slot : New(i) - New(0) \in Slot
      BY <1>2, ConstantFacts DEF New
    <2>2. \A t \in TexturesOf(set) : set.handles[t - New(0)] \in Texture
      BY <1>5, <1>8, <1>10, <2>1
    <2> HIDE DEF New
    <2> QED BY <1>1, <1>2, <2>2 DEF MaybeTexture
  <1>17. ~ReuseHandles => set.handles = set.textures
    BY <1>10 DEF NewHandles
  <1>18. DOMAIN refs' = Texture
    BY <1>1
  <1> QED BY <1>1, <1>2, <1>10, <1>11, <1>12, <1>13, <1>15, <1>16, <1>17, <1>18 DEF TableOK, n

(* The sets in some places stay, the textures of the others are released.  *)
LEMMA ReleaseStep ==
  ASSUME TypeOK, TableInv, Counts(sets_, eyes, refs),
         NEW K \in SUBSET DOMAIN sets_, NEW S,
         sets_' = Remaining(K), refs' = safe_release(S), eyes' = eyes,
         \A t \in Texture : t \in S <=> t \in HeldIn(sets_) /\ t \notin HeldIn(Remaining(K))
  PROVE  TableOK(sets_', made) /\ Counts(sets_', eyes', refs') /\ DOMAIN refs' = Texture
  <1>1. sets_ \in Seq(TextureSet) /\ Len(sets_) <= kMaxTextureSets /\ Distinct(sets_, made)
    BY DEF TypeOK, TableInv
  <1>2. TableOK(sets_', made)
    <2>1. /\ Remaining(K) \in Seq(TextureSet) /\ Len(Remaining(K)) <= Len(sets_)
          /\ Distinct(Remaining(K), made)
      BY <1>1, RemainingIs, RemainingHeld
    <2>2. Len(Remaining(K)) \in Nat /\ Len(sets_) \in Nat /\ kMaxTextureSets \in Nat
      BY <1>1, <2>1, SwapAssumption
    <2>3. Len(Remaining(K)) <= kMaxTextureSets
      BY <1>1, <2>1, <2>2
    <2> QED BY <2>1, <2>3 DEF TableOK
  <1>3. \A t : t \in HeldIn(sets_') => t \in HeldIn(sets_)
    <2> TAKE t
    <2>1. t \in HeldIn(Remaining(K)) <=> \E k \in K, i \in Slot : sets_[k].textures[i] = t
      BY <1>1, RemainingHeld
    <2> QED BY <2>1, Held
  <1>4. Counts(sets_', eyes', refs')
    <2> SUFFICES ASSUME NEW t \in Texture
                 PROVE  refs'[t] = (IF t \in HeldIn(sets_') THEN 1 ELSE 0) + HoldersIn(eyes, t)
      BY DEF Counts
    <2>1. refs[t] = (IF t \in HeldIn(sets_) THEN 1 ELSE 0) + HoldersIn(eyes, t)
      BY DEF Counts
    <2>2. refs'[t] = IF t \in S THEN refs[t] - 1 ELSE refs[t]
      BY DEF safe_release
    <2>3. HoldersIn(eyes, t) \in Nat
      BY HoldersRange
    <2> QED BY <1>3, <2>1, <2>2, <2>3
  <1> QED BY <1>2, <1>4 DEF safe_release

(* DestroySwapTextureSet releases what the sets it erases held, and leaves the others as
   they were. *)
LEMMA DestroyStep ==
  ASSUME TypeOK, TableInv, Counts(sets_, eyes, refs),
         NEW p \in Pids, NEW h, DestroySwapTextureSet(p, h)
  PROVE  /\ TableOK(sets_', made) /\ Counts(sets_', eyes', refs') /\ DOMAIN refs' = Texture
         /\ \A k \in DOMAIN sets_' : \E l \in DOMAIN sets_ : sets_'[k] = sets_[l]
  <1> DEFINE k == find_set_locked(h)
             K == DOMAIN sets_ \ {k}
  <1>1. sets_ \in Seq(TextureSet) /\ Distinct(sets_, made)
    BY DEF TypeOK, TableInv
  <1>2. k \in DOMAIN sets_
    BY <1>1, FindSet DEF DestroySwapTextureSet
  <1>3. sets_' = Remaining(K) /\ refs' = safe_release(TexturesOf(sets_[k])) /\ eyes' = eyes
    BY DEF DestroySwapTextureSet, presentVars
  <1> HIDE DEF k
  <1>4. ASSUME NEW t
        PROVE  t \in TexturesOf(sets_[k]) <=> t \in HeldIn(sets_) /\ t \notin HeldIn(Remaining(K))
    <2>1. t \in HeldIn(sets_) <=> \E l \in DOMAIN sets_, i \in Slot : sets_[l].textures[i] = t
      BY Held
    <2>2. t \in HeldIn(Remaining(K)) <=> \E l \in K, i \in Slot : sets_[l].textures[i] = t
      BY <1>1, RemainingHeld
    <2>3. t \in TexturesOf(sets_[k]) <=> \E i \in Slot : sets_[k].textures[i] = t
      BY DEF TexturesOf
    <2>4. \A i, j \in Slot, l \in DOMAIN sets_ :
             sets_[k].textures[i] = sets_[l].textures[j] => k = l
      BY <1>1, <1>2 DEF Distinct
    <2> QED BY <1>2, <2>1, <2>2, <2>3, <2>4
  <1>5. TableOK(sets_', made) /\ Counts(sets_', eyes', refs') /\ DOMAIN refs' = Texture
    BY <1>3, <1>4, ReleaseStep
  <1>6. \A j \in DOMAIN sets_' : \E l \in DOMAIN sets_ : sets_'[j] = sets_[l]
    BY <1>1, <1>3, RemainingIs
  <1> QED BY <1>5, <1>6

(* DestroyAllSwapTextureSets releases everything of a process, and leaves the sets of
   the others as they were. *)
LEMMA DestroyAllStep ==
  ASSUME TypeOK, TableInv, Counts(sets_, eyes, refs),
         NEW p \in Pids, DestroyAllSwapTextureSets(p)
  PROVE  /\ TableOK(sets_', made) /\ Counts(sets_', eyes', refs') /\ DOMAIN refs' = Texture
         /\ \A k \in DOMAIN sets_' : \E l \in DOMAIN sets_ : /\ sets_'[k] = sets_[l]
                                                            /\ sets_[l].pid # p
  <1> DEFINE K == {k \in DOMAIN sets_ : sets_[k].pid # p}
  <1>1. sets_ \in Seq(TextureSet) /\ Distinct(sets_, made)
    BY DEF TypeOK, TableInv
  <1>2. sets_' = Remaining(K) /\ eyes' = eyes
    BY DEF DestroyAllSwapTextureSets, presentVars, WithoutPid
  <1>3. refs' = safe_release(HeldIn(sets_) \ HeldIn(sets_'))
    BY DEF DestroyAllSwapTextureSets, HeldBySets, HeldIn
  <1>4. TableOK(sets_', made) /\ Counts(sets_', eyes', refs') /\ DOMAIN refs' = Texture
    <2> HIDE DEF K
    <2>1. K \in SUBSET DOMAIN sets_
      BY DEF K
    <2>2. \A t \in Texture : t \in HeldIn(sets_) \ HeldIn(sets_')
             <=> t \in HeldIn(sets_) /\ t \notin HeldIn(Remaining(K))
      BY <1>2
    <2> QED BY <1>2, <1>3, <2>1, <2>2, ReleaseStep
  <1>5. \A j \in DOMAIN sets_' : Nth(K, j) \in K /\ sets_'[j] = sets_[Nth(K, j)]
    BY <1>1, <1>2, RemainingIs
  <1> QED BY <1>4, <1>5

(* shutdown leaves no set and no texture referenced. *)
LEMMA ShutdownStep ==
  ASSUME TypeOK, TableInv, EyesInv, Counts(sets_, eyes, refs), shutdown
  PROVE  /\ TableOK(sets_', made) /\ Counts(sets_', eyes', refs') /\ DOMAIN refs' = Texture
         /\ sets_' = <<>> /\ \A t \in Texture : refs'[t] = 0
  <1>1. sets_ \in Seq(TextureSet) /\ Distinct(sets_, made)
    BY DEF TypeOK, TableInv
  <1>2. sets_' = <<>> /\ refs' = safe_release(HeldIn(sets_)) /\ eyes' = eyes /\ eyes = NoEyes
    BY CountsAre, ConstantFacts DEF shutdown, presentVars, EyesInv
  <1>3. HeldIn(<<>>) = {} /\ Distinct(<<>>, made)
    BY DEF HeldIn, Distinct
  <1>4. TableOK(sets_', made)
    BY <1>2, <1>3, SwapAssumption DEF TableOK
  <1>5. \A t \in Texture : refs'[t] = 0 /\ HoldersIn(eyes, t) = 0
    <2> SUFFICES ASSUME NEW t \in Texture PROVE refs'[t] = 0 /\ HoldersIn(eyes, t) = 0
      OBVIOUS
    <2>1. HoldersIn(eyes, t) = 0
      BY <1>2, NoHolders
    <2> QED BY <1>2, <2>1 DEF Counts, safe_release
  <1>6. Counts(sets_', eyes', refs')
    BY <1>2, <1>3, <1>5 DEF Counts
  <1> QED BY <1>2, <1>4, <1>5, <1>6 DEF safe_release

(* GetNextSwapTextureSetIndex moves indices and nothing else.              *)
LEMMA AdvanceIs ==
  ASSUME NEW sets \in Seq(TextureSet), NEW k, k = 0 \/ k \in DOMAIN sets
  PROVE  /\ Advance(sets, k) \in Seq(TextureSet) /\ Len(Advance(sets, k)) = Len(sets)
         /\ DOMAIN Advance(sets, k) = DOMAIN sets
         /\ \A j \in DOMAIN sets : /\ Advance(sets, k)[j].textures = sets[j].textures
                                   /\ Advance(sets, k)[j].handles = sets[j].handles
                                   /\ Advance(sets, k)[j].pid = sets[j].pid
  <1>1. CASE k = 0
    BY <1>1 DEF Advance
  <1>2. CASE k # 0
    <2> DEFINE new == [sets[k] EXCEPT !.index = (sets[k].index + 1) % 3]
               next == [sets EXCEPT ![k] = new]
    <2>1. k \in DOMAIN sets /\ sets[k] \in TextureSet
      BY <1>2, TextureTypes
    <2>2. new \in TextureSet /\ new.textures = sets[k].textures /\ new.handles = sets[k].handles
          /\ new.pid = sets[k].pid
      <3>1. sets[k].index \in 0 .. 2
        BY <2>1 DEF TextureSet, Slot
      <3>2. (sets[k].index + 1) % 3 \in 0 .. 2
        BY <3>1
      <3> QED BY <2>1, <3>2 DEF TextureSet, Slot
    <2>3. Advance(sets, k) = next
      BY <1>2, <2>1 DEF Advance
    <2> HIDE DEF new
    <2>4. next \in Seq(TextureSet) /\ Len(next) = Len(sets) /\ DOMAIN next = DOMAIN sets
      BY <2>1, <2>2
    <2>5. \A j \in DOMAIN sets : next[j] = IF j = k THEN new ELSE sets[j]
      BY <2>1
    <2> HIDE DEF next
    <2> QED BY <2>2, <2>3, <2>4, <2>5
  <1> QED BY <1>1, <1>2

(* Sets that hold the same textures are the same to the counts.            *)
LEMMA SameTextures ==
  ASSUME NEW s, NEW r, DOMAIN r = DOMAIN s, NEW last, Distinct(s, last),
         \A j \in DOMAIN s : r[j].textures = s[j].textures
  PROVE  Distinct(r, last) /\ HeldIn(r) = HeldIn(s)
  <1>1. Distinct(r, last)
    BY DEF Distinct
  <1>2. \A t : t \in HeldIn(r) <=> t \in HeldIn(s)
    BY Held
  <1> QED BY <1>1, <1>2

(* GetNextSwapTextureSetIndex moves the index of two sets and nothing else. *)
LEMMA GetNextStep ==
  ASSUME TypeOK, TableInv, Counts(sets_, eyes, refs),
         NEW p \in Pids, NEW l, NEW r, GetNextSwapTextureSetIndex(p, l, r)
  PROVE  /\ TableOK(sets_', made) /\ Counts(sets_', eyes', refs')
         /\ DOMAIN sets_' = DOMAIN sets_
         /\ \A j \in DOMAIN sets_ : /\ sets_'[j].textures = sets_[j].textures
                                    /\ sets_'[j].handles = sets_[j].handles
                                    /\ sets_'[j].pid = sets_[j].pid
  <1> DEFINE a == find_set_locked(l)
             b == find_set_locked(r)
             mid == Advance(sets_, a)
  <1>1. sets_ \in Seq(TextureSet) /\ Len(sets_) <= kMaxTextureSets /\ Distinct(sets_, made)
    BY DEF TypeOK, TableInv
  <1>2. (a = 0 \/ a \in DOMAIN sets_) /\ (b = 0 \/ b \in DOMAIN sets_)
    BY <1>1, FindSet
  <1>3. sets_' = Advance(mid, b) /\ eyes' = eyes /\ refs' = refs
    BY DEF GetNextSwapTextureSetIndex, presentVars, textureVars
  <1>4. /\ mid \in Seq(TextureSet) /\ Len(mid) = Len(sets_) /\ DOMAIN mid = DOMAIN sets_
        /\ \A j \in DOMAIN sets_ : /\ mid[j].textures = sets_[j].textures
                                   /\ mid[j].handles = sets_[j].handles
                                   /\ mid[j].pid = sets_[j].pid
    BY <1>1, <1>2, AdvanceIs
  <1> HIDE DEF a, b, mid
  <1>5. /\ sets_' \in Seq(TextureSet) /\ Len(sets_') = Len(mid) /\ DOMAIN sets_' = DOMAIN mid
        /\ \A j \in DOMAIN mid : /\ sets_'[j].textures = mid[j].textures
                                 /\ sets_'[j].handles = mid[j].handles
                                 /\ sets_'[j].pid = mid[j].pid
    BY <1>2, <1>3, <1>4, AdvanceIs
  <1>6. Distinct(sets_', made) /\ HeldIn(sets_') = HeldIn(sets_)
    <2>1. \A j \in DOMAIN sets_ : sets_'[j].textures = sets_[j].textures
      BY <1>4, <1>5
    <2> QED BY <1>1, <1>4, <1>5, <2>1, SameTextures
  <1>7. Counts(sets_', eyes', refs')
    BY <1>3, <1>6 DEF Counts
  <1> QED BY <1>1, <1>4, <1>5, <1>6, <1>7 DEF TableOK

(* find_texture_locked looks a texture up that was made.                   *)
LEMMA FoundTexture ==
  ASSUME TypeOK, TableInv, NEW h
  PROVE  /\ find_texture_locked(h) \in MaybeTexture /\ find_texture_locked(h) <= made
  <1>1. sets_ \in Seq(TextureSet) /\ made \in Nat
    BY DEF TypeOK
  <1>2. \A k \in DOMAIN sets_, i \in Slot :
           sets_[k].textures[i] \in Texture /\ sets_[k].textures[i] <= made
    BY <1>1, TextureTypes DEF TableInv, Distinct
  <1>3. CASE find_texture_locked(h) = None
    BY <1>1, <1>3, ConstantFacts DEF MaybeTexture
  <1>4. CASE \E k \in DOMAIN sets_, i \in Slot : find_texture_locked(h) = sets_[k].textures[i]
    BY <1>2, <1>4 DEF MaybeTexture
  <1> QED BY <1>1, <1>3, <1>4, FindTexture

(* Present takes one reference of each texture it finds for a handle, under the mutex
   that destroying takes too. *)
LEMMA FindEyesStep ==
  ASSUME TypeOK, TableInv, EyesInv, Counts(sets_, eyes, refs), FindEyes
  PROVE  /\ eyes' \in [Eye -> MaybeTexture] /\ \A e \in Eye : eyes'[e] <= made
         /\ pc'["present"] = "copy"
         /\ Counts(sets_, eyes', refs') /\ DOMAIN refs' = Texture
  <1>1. /\ eyes' = [e \in Eye |-> find_texture_locked(frame.handle[e])]
        /\ refs' = AddRef(eyes') /\ eyes = NoEyes /\ pc' = [pc EXCEPT !["present"] = "copy"]
    BY DEF FindEyes, EyesInv
  <1>2. \A e \in Eye : eyes'[e] \in MaybeTexture /\ eyes'[e] <= made
    BY <1>1, FoundTexture
  <1>3. ASSUME NEW t \in Texture
        PROVE  refs'[t] = (IF t \in HeldIn(sets_) THEN 1 ELSE 0) + HoldersIn(eyes', t)
    <2>1. refs[t] = (IF t \in HeldIn(sets_) THEN 1 ELSE 0) + HoldersIn(eyes, t)
      BY DEF Counts
    <2>2. HoldersIn(eyes, t) = 0
      BY <1>1, NoHolders
    <2>3. refs'[t] = refs[t] + HoldersIn(eyes', t)
      BY <1>1 DEF AddRef
    <2> QED BY <2>1, <2>2, <2>3
  <1>4. pc'["present"] = "copy"
    BY <1>1, ConstantFacts DEF TypeOK
  <1>5. DOMAIN refs' = Texture
    BY <1>1 DEF AddRef
  <1> QED BY <1>1, <1>2, <1>3, <1>4, <1>5 DEF Counts

(* Present gives back the references it took, whether or not their sets still exist. *)
LEMMA PresentReturnsStep ==
  ASSUME TypeOK, TableInv, Counts(sets_, eyes, refs), PresentReturns
  PROVE  eyes' = NoEyes /\ Counts(sets_, eyes', refs') /\ DOMAIN refs' = Texture
  <1>1. eyes' = NoEyes /\ refs' = ReleaseEyes
    BY DEF PresentReturns
  <1>2. ASSUME NEW t \in Texture
        PROVE  refs'[t] = (IF t \in HeldIn(sets_) THEN 1 ELSE 0) + HoldersIn(eyes', t)
    <2>1. refs[t] = (IF t \in HeldIn(sets_) THEN 1 ELSE 0) + HoldersIn(eyes, t)
      BY DEF Counts
    <2>2. HoldersIn(eyes', t) = 0 /\ HoldersIn(eyes, t) \in Nat
      BY <1>1, NoHolders, HoldersRange
    <2>3. refs'[t] = refs[t] - HoldersIn(eyes, t)
      BY <1>1 DEF ReleaseEyes
    <2> QED BY <2>1, <2>2, <2>3
  <1> QED BY <1>1, <1>2 DEF Counts, ReleaseEyes

(* The other steps leave the table and the counts alone.                   *)
Quiet ==
  \/ \E p \in Pids : \/ CreateSwapTextureSet(p) \/ CreateWithDevice(p) \/ CreateRefused(p)
                     \/ CreateFails(p) \/ CreateRolledBack(p)
  \/ \E l, r \in CurrentHandles \cup {None} : SubmitLayer(l, r)
  \/ Present \/ PresentWithDevice
  \/ UNCHANGED vars

(* The steps that touch neither the table nor a reference count. *)
LEMMA QuietIs ==
  ASSUME TypeOK, Quiet
  PROVE  /\ sets_' = sets_ /\ eyes' = eyes /\ refs' = refs /\ handleOf' = handleOf
         /\ shut_down_' = shut_down_ /\ made' \in {made, made + 3}
         /\ pc'["present"] = "copy" <=> pc["present"] = "copy"
  <1>1. /\ sets_' = sets_ /\ eyes' = eyes /\ refs' = refs /\ handleOf' = handleOf
        /\ shut_down_' = shut_down_ /\ made' \in {made, made + 3}
    BY DEF Quiet, CreateSwapTextureSet, CreateWithDevice, CreateRefused, CreateFails,
           CreateRolledBack, CreateFinished, UndoCreate, SubmitLayer, Present, PresentWithDevice,
           vars, textureVars, presentVars
  <1>2. \/ pc' = pc
        \/ \E p \in Pids, at \in {"idle", "device", "sets"} : pc' = [pc EXCEPT ![p] = at]
        \/ \E at \in {"idle", "device", "find"} :
              pc["present"] # "copy" /\ pc' = [pc EXCEPT !["present"] = at]
    BY DEF Quiet, CreateSwapTextureSet, CreateWithDevice, CreateRefused, CreateFails,
           CreateRolledBack, CreateFinished, SubmitLayer, Present, PresentWithDevice, vars
  <1>3. pc \in [Thread -> {"idle", "device", "sets", "find", "copy"}]
    BY DEF TypeOK
  <1> QED BY <1>1, <1>2, <1>3, ConstantFacts

(* Every step keeps the table, the counts and what the eyes hold.          *)
TableAfter == TableOK(sets_', made') /\ Counts(sets_', eyes', refs') /\ DOMAIN refs' = Texture

EyesAfter ==
  /\ eyes' \in [Eye -> MaybeTexture] /\ \A e \in Eye : eyes'[e] <= made'
  /\ pc'["present"] # "copy" => eyes' = NoEyes

(* Every step keeps the table well formed and the references of every texture equal to
   its holders. *)
LEMMA TableStep ==
  ASSUME TypeOK, WorkInv, TableInv, EyesInv, Counts(sets_, eyes, refs), [Next]_vars
  PROVE  TableAfter /\ EyesAfter /\ handleOf' \in [Texture -> MaybeTexture]
  <1>1. /\ sets_ \in Seq(TextureSet) /\ Len(sets_) <= kMaxTextureSets /\ Distinct(sets_, made)
        /\ made \in Nat /\ refs \in [Texture -> 0 .. 3] /\ eyes \in [Eye -> MaybeTexture]
        /\ handleOf \in [Texture -> MaybeTexture]
        /\ pc \in [Thread -> {"idle", "device", "sets", "find", "copy"}]
    BY DEF TypeOK, TableInv
  <1>2. \A e \in Eye : eyes[e] \in Nat
    BY <1>1, ConstantFacts DEF MaybeTexture
  <1>3. ASSUME eyes' = eyes, made' \in {made, made + 3},
               pc'["present"] = "copy" <=> pc["present"] = "copy"
        PROVE  EyesAfter
    BY <1>1, <1>2, <1>3 DEF EyesInv, EyesAfter
  <1>4. CASE Quiet
    <2>1. Distinct(sets_, made')
      BY <1>1, <1>4, QuietIs, DistinctLater
    <2> QED BY <1>1, <1>3, <1>4, <2>1, QuietIs DEF TableAfter, TableOK
  <1>5. ASSUME NEW p \in Pids, CreateOk(p)
        PROVE  TableAfter /\ EyesAfter /\ handleOf' \in [Texture -> MaybeTexture]
    <2>1. eyes' = eyes /\ made' = made + 3 /\ pc' = [pc EXCEPT ![p] = "idle"]
      BY <1>5 DEF CreateOk, CreateFinished, presentVars
    <2>2. pc'["present"] = pc["present"]
      BY <1>1, <2>1, ConstantFacts
    <2> QED BY <1>3, <1>5, <2>1, <2>2, CreateOkStep DEF TableAfter
  <1>6. ASSUME NEW p \in Pids,
               \/ \E h \in SetHandles : DestroySwapTextureSet(p, h)
               \/ DestroyAllSwapTextureSets(p)
               \/ \E l, r \in SetHandles \cup {None} : GetNextSwapTextureSetIndex(p, l, r)
        PROVE  TableAfter /\ EyesAfter /\ handleOf' \in [Texture -> MaybeTexture]
    <2>1. eyes' = eyes /\ made' = made /\ pc' = pc /\ handleOf' = handleOf
      BY <1>6 DEF DestroySwapTextureSet, DestroyAllSwapTextureSets, GetNextSwapTextureSetIndex,
                  presentVars, textureVars
    <2>2. EyesAfter
      BY <1>3, <2>1
    <2>3. TableOK(sets_', made) /\ Counts(sets_', eyes', refs') /\ DOMAIN refs' = Texture
      <3>1. CASE \E h \in SetHandles : DestroySwapTextureSet(p, h)
        BY <3>1, DestroyStep
      <3>2. CASE DestroyAllSwapTextureSets(p)
        BY <3>2, DestroyAllStep
      <3>3. CASE \E l, r \in SetHandles \cup {None} : GetNextSwapTextureSetIndex(p, l, r)
        <4>1. refs' = refs
          BY <3>3 DEF GetNextSwapTextureSetIndex, textureVars
        <4> QED BY <1>1, <3>3, <4>1, GetNextStep
      <3> QED BY <1>6, <3>1, <3>2, <3>3
    <2> QED BY <1>1, <2>1, <2>2, <2>3 DEF TableAfter
  <1>7. CASE FindEyes
    <2>1. sets_' = sets_ /\ made' = made /\ handleOf' = handleOf
      BY <1>7 DEF FindEyes
    <2> QED BY <1>1, <1>7, <2>1, FindEyesStep DEF TableAfter, EyesAfter, TableOK
  <1>8. CASE PresentReturns
    <2>1. sets_' = sets_ /\ made' = made /\ handleOf' = handleOf
      BY <1>8 DEF PresentReturns
    <2>2. \A e \in Eye : NoEyes[e] <= made
      BY <1>1 DEF NoEyes, None
    <2> QED BY <1>1, <1>8, <2>1, <2>2, NoTypes, PresentReturnsStep DEF TableAfter, EyesAfter, TableOK
  <1>9. CASE shutdown
    <2>1. made' = made /\ eyes' = eyes /\ pc' = pc /\ handleOf' = handleOf
      BY <1>9 DEF shutdown, presentVars
    <2>2. EyesAfter
      BY <1>3, <2>1
    <2> QED BY <1>1, <1>9, <2>1, <2>2, ShutdownStep DEF TableAfter
  <1> QED BY <1>4, <1>5, <1>6, <1>7, <1>8, <1>9 DEF Next, ProcessCalls, PresentThread, Quiet

-----------------------------------------------------------------------------
(* Type correctness of the rest: the device, the layers, who holds what.   *)

DeviceTypeOK ==
  /\ device_ \in BOOLEAN /\ device_attempts_ \in 0..kMaxDeviceAttempts
  /\ shared_textures_ \subseteq SyncHandles

LayerTypeOK ==
  last_layer_texture_ \in Layer /\ frame \in Layer

(* Every step keeps the types of the device, its attempts and the sync textures it
   opened. *)
LEMMA DeviceStep ==
  ASSUME DeviceTypeOK, [Next]_vars
  PROVE  DeviceTypeOK'
  <1>1. \/ device_' = device_ \/ device_' \in BOOLEAN
    BY DEF Next, ProcessCalls, PresentThread, CreateSwapTextureSet, CreateWithDevice, CreateRefused,
           CreateFails, CreateRolledBack, CreateOk, CreateFinished, DestroySwapTextureSet,
           DestroyAllSwapTextureSets, GetNextSwapTextureSetIndex, SubmitLayer, Present,
           PresentWithDevice, FindEyes, PresentReturns, shutdown, ensure_device_locked,
           vars, deviceVars
  <1>2. \/ device_attempts_' = device_attempts_
        \/ device_attempts_ < kMaxDeviceAttempts /\ device_attempts_' = device_attempts_ + 1
    BY DEF Next, ProcessCalls, PresentThread, CreateSwapTextureSet, CreateWithDevice, CreateRefused,
           CreateFails, CreateRolledBack, CreateOk, CreateFinished, DestroySwapTextureSet,
           DestroyAllSwapTextureSets, GetNextSwapTextureSetIndex, SubmitLayer, Present,
           PresentWithDevice, FindEyes, PresentReturns, shutdown, ensure_device_locked,
           vars, deviceVars
  <1>3. \/ shared_textures_' \in {shared_textures_, {}}
        \/ \E h \in SyncHandles : shared_textures_' = shared_textures_ \cup {h}
    BY DEF Next, ProcessCalls, PresentThread, CreateSwapTextureSet, CreateWithDevice, CreateRefused,
           CreateFails, CreateRolledBack, CreateOk, CreateFinished, DestroySwapTextureSet,
           DestroyAllSwapTextureSets, GetNextSwapTextureSetIndex, SubmitLayer, Present,
           PresentWithDevice, FindEyes, PresentReturns, shutdown, shared_texture_locked,
           vars, deviceVars
  <1>4. device_' \in BOOLEAN
    BY <1>1, Zenon DEF DeviceTypeOK
  <1>5. device_attempts_' \in 0..kMaxDeviceAttempts /\ shared_textures_' \subseteq SyncHandles
    BY <1>2, <1>3, SwapAssumption DEF DeviceTypeOK
  <1> QED BY <1>4, <1>5 DEF DeviceTypeOK

(* A layer names textures there are, or none.                              *)
LEMMA CurrentTypes ==
  ASSUME TypeOK, NEW l \in CurrentHandles \cup {None}
  PROVE  l \in MaybeTexture
  <1>1. CASE l = None
    BY <1>1 DEF MaybeTexture
  <1>2. CASE l \in CurrentHandles
    <2>1. PICK k \in DOMAIN sets_ : l = sets_[k].handles[sets_[k].index]
      BY <1>2 DEF CurrentHandles
    <2>2. sets_[k] \in TextureSet
      BY TextureTypes DEF TypeOK
    <2> QED BY <2>1, <2>2 DEF TextureSet, MaybeTexture
  <1> QED BY <1>1, <1>2

(* Every step keeps the types of the submitted layer and of what Present copies. *)
LEMMA LayerStep ==
  ASSUME TypeOK, TableInv, [Next]_vars
  PROVE  LayerTypeOK'
  <1>1. last_layer_texture_ \in Layer /\ frame \in Layer
    BY DEF TypeOK
  <1>2. ASSUME NEW l \in CurrentHandles \cup {None}, NEW r \in CurrentHandles \cup {None},
               SubmitLayer(l, r)
        PROVE  LayerTypeOK'
    <2>1. /\ frame' = frame
          /\ last_layer_texture_' =
                [handle |-> <<l, r>>, texture |-> [e \in Eye |-> find_texture_locked(<<l, r>>[e])]]
      BY <1>2 DEF SubmitLayer, presentVars
    <2>2. <<l, r>> \in [Eye -> MaybeTexture]
      BY CurrentTypes DEF Eye
    <2>3. [e \in Eye |-> find_texture_locked(<<l, r>>[e])] \in [Eye -> MaybeTexture]
      BY FoundTexture
    <2> QED BY <1>1, <2>1, <2>2, <2>3 DEF Layer, LayerTypeOK
  <1>3. CASE /\ last_layer_texture_' \in {last_layer_texture_, NoLayer}
             /\ frame' \in {frame, last_layer_texture_, NoLayer}
    BY <1>1, <1>3, NoTypes DEF LayerTypeOK
  <1>4. \/ \E l, r \in CurrentHandles \cup {None} : SubmitLayer(l, r)
        \/ /\ last_layer_texture_' \in {last_layer_texture_, NoLayer}
           /\ frame' \in {frame, last_layer_texture_, NoLayer}
    BY DEF Next, ProcessCalls, PresentThread, CreateSwapTextureSet, CreateWithDevice, CreateRefused,
           CreateFails, CreateRolledBack, CreateOk, CreateFinished, DestroySwapTextureSet,
           DestroyAllSwapTextureSets, GetNextSwapTextureSetIndex, Present,
           PresentWithDevice, FindEyes, PresentReturns, shutdown, vars, layerVars, presentVars
  <1> QED BY <1>2, <1>3, <1>4

(* Every step keeps the type invariant. *)
LEMMA TypeStep ==
  ASSUME TypeOK, WorkInv, TableInv, EyesInv, RefsMatchHolders, [Next]_vars
  PROVE  TypeOK'
  <1>1. TableAfter /\ EyesAfter /\ handleOf' \in [Texture -> MaybeTexture]
    BY TableStep, CountsAre
  <1>2. refs' \in [Texture -> 0 .. 3]
    <2>1. refs' = [t \in Texture |-> refs'[t]]
      <3>1. refs' = refs \/ \E f : refs' = [t \in Texture |-> f[t]]
        <4>1. ASSUME NEW p \in Pids, ProcessCalls(p)
              PROVE  refs' = refs \/ \E f : refs' = [t \in Texture |-> f[t]]
          BY <4>1 DEF ProcessCalls, CreateSwapTextureSet, CreateWithDevice, CreateRefused, CreateFails,
                    CreateRolledBack, CreateOk, DestroySwapTextureSet, DestroyAllSwapTextureSets,
                    GetNextSwapTextureSetIndex, UndoCreate, safe_release, textureVars
        <4>2. PresentThread \/ shutdown \/ UNCHANGED vars
                 => refs' = refs \/ \E f : refs' = [t \in Texture |-> f[t]]
          BY DEF PresentThread, SubmitLayer, Present, PresentWithDevice, FindEyes, PresentReturns,
                 shutdown, AddRef, ReleaseEyes, safe_release, vars, textureVars
        <4> QED BY <4>1, <4>2 DEF Next
      <3>2. refs \in [Texture -> 0 .. 3]
        BY DEF TypeOK
      <3> QED BY <3>1, <3>2
    <2>2. \A t \in Texture : refs'[t] \in 0 .. 3
      <3> TAKE t \in Texture
      <3>1. refs'[t] = (IF t \in HeldIn(sets_') THEN 1 ELSE 0) + HoldersIn(eyes', t)
        BY <1>1 DEF TableAfter, Counts
      <3>2. HoldersIn(eyes', t) \in 0 .. 2
        BY HoldersRange
      <3> QED BY <3>1, <3>2
    <2> QED BY <2>1, <2>2
  <1>3. DeviceTypeOK' /\ LayerTypeOK'
    BY DeviceStep, LayerStep DEF TypeOK, DeviceTypeOK
  <1>4. submitted_layers_' \in BOOLEAN /\ shut_down_' \in BOOLEAN
    <2>1. /\ submitted_layers_' = submitted_layers_ \/ submitted_layers_' \in BOOLEAN
          /\ shut_down_' = shut_down_ \/ shut_down_' \in BOOLEAN
      BY DEF Next, ProcessCalls, PresentThread, CreateSwapTextureSet, CreateWithDevice, CreateRefused,
             CreateFails, CreateRolledBack, CreateOk, CreateFinished, DestroySwapTextureSet,
             DestroyAllSwapTextureSets, GetNextSwapTextureSetIndex, SubmitLayer, Present,
             PresentWithDevice, FindEyes, PresentReturns, shutdown, vars, layerVars
    <2> QED BY <2>1, Zenon DEF TypeOK
  <1>5. device_mutex_' \in Thread \cup {"free"} /\ out' \in {"none", "some", "all"}
    <2>1. /\ device_mutex_' = device_mutex_ \/ device_mutex_' \in Thread \cup {"free"}
          /\ out' = out \/ out' \in {"none", "some", "all"}
      BY ConstantFacts DEF Next, ProcessCalls, PresentThread, CreateSwapTextureSet, CreateWithDevice,
             CreateRefused, CreateFails, CreateRolledBack, CreateOk, CreateFinished,
             DestroySwapTextureSet, DestroyAllSwapTextureSets, GetNextSwapTextureSetIndex, SubmitLayer,
             Present, PresentWithDevice, FindEyes, PresentReturns, shutdown, vars
    <2> QED BY <2>1 DEF TypeOK
  <1>6. /\ pc' \in [Thread -> {"idle", "device", "sets", "find", "copy"}]
        /\ creates' \in 0 .. MaxCreates /\ made' \in 0 .. (3 * creates') /\ gone' \subseteq Pids
    BY PcStep, WorkStep
  <1> QED BY <1>1, <1>2, <1>3, <1>4, <1>5, <1>6
        DEF TypeOK, TableAfter, TableOK, EyesAfter, DeviceTypeOK, LayerTypeOK

-----------------------------------------------------------------------------
(* The safety invariants.                                                  *)

LEMMA RefsStep ==
  ASSUME TypeOK, WorkInv, TableInv, EyesInv, RefsMatchHolders, [Next]_vars
  PROVE  RefsMatchHolders'
  <1>1. Counts(sets_', eyes', refs')
    BY TableStep, CountsAre DEF TableAfter
  <1>2. CASE shutdown
    <2>1. sets_' = <<>> /\ (\A t \in Texture : refs'[t] = 0) /\ device_' = FALSE
      BY <1>2, ShutdownStep, CountsAre DEF shutdown
    <2> QED BY <1>1, <2>1 DEF RefsMatchHolders, Counts, HeldIn, HeldBySets
  <1>3. CASE shut_down_' = shut_down_ /\ ~shut_down_
    BY <1>1, <1>3 DEF RefsMatchHolders, Counts, HeldIn, HeldBySets
  <1>4. CASE UNCHANGED vars
    <2>1. /\ sets_' = sets_ /\ eyes' = eyes /\ refs' = refs /\ shut_down_' = shut_down_
          /\ device_' = device_
      BY <1>4 DEF vars, presentVars, textureVars, deviceVars
    <2> QED BY <2>1 DEF RefsMatchHolders, HeldBySets
  <1>5. shutdown \/ UNCHANGED vars \/ (shut_down_' = shut_down_ /\ ~shut_down_)
    BY DEF Next, ProcessCalls, PresentThread, CreateSwapTextureSet, CreateWithDevice, CreateRefused,
           CreateFails, CreateRolledBack, CreateOk, CreateFinished, DestroySwapTextureSet,
           DestroyAllSwapTextureSets, GetNextSwapTextureSetIndex, SubmitLayer, Present,
           PresentWithDevice, FindEyes, PresentReturns
  <1> QED BY <1>2, <1>3, <1>4, <1>5

(* Every step keeps the table free of sets of a process whose sets were all destroyed,
   until it creates one again. *)
LEMMA DeadStep ==
  ASSUME TypeOK, WorkInv, TableInv, EyesInv, RefsMatchHolders, DeadOwnsNothing, [Next]_vars
  PROVE  DeadOwnsNothing'
  <1>1. Counts(sets_, eyes, refs) /\ sets_ \in Seq(TextureSet)
    BY CountsAre DEF TypeOK
  <1>2. CASE sets_' = sets_ /\ gone' \subseteq gone
    BY <1>2 DEF DeadOwnsNothing
  <1>3. ASSUME NEW p \in Pids, CreateOk(p)
        PROVE  DeadOwnsNothing'
    <2>1. p \in Busy /\ gone' = gone
      BY <1>3 DEF CreateOk, CreateFinished, Busy
    <2>2. p \notin gone
      BY <2>1 DEF WorkInv
    <2>3. \A k \in DOMAIN sets_' : sets_'[k].pid = p \/ (k \in DOMAIN sets_ /\ sets_'[k] = sets_[k])
      BY <1>1, <1>3, CreateOkStep
    <2> QED BY <2>1, <2>2, <2>3 DEF DeadOwnsNothing
  <1>4. ASSUME NEW p \in Pids, NEW h \in SetHandles, DestroySwapTextureSet(p, h)
        PROVE  DeadOwnsNothing'
    <2>1. gone' = gone
      BY <1>4 DEF DestroySwapTextureSet
    <2>2. \A k \in DOMAIN sets_' : \E l \in DOMAIN sets_ : sets_'[k] = sets_[l]
      BY <1>1, <1>4, DestroyStep
    <2> QED BY <2>1, <2>2 DEF DeadOwnsNothing
  <1>5. ASSUME NEW p \in Pids, DestroyAllSwapTextureSets(p)
        PROVE  DeadOwnsNothing'
    <2>1. gone' = gone \cup {p}
      BY <1>5 DEF DestroyAllSwapTextureSets
    <2>2. \A k \in DOMAIN sets_' : \E l \in DOMAIN sets_ : sets_'[k] = sets_[l] /\ sets_[l].pid # p
      BY <1>1, <1>5, DestroyAllStep
    <2> QED BY <2>1, <2>2 DEF DeadOwnsNothing
  <1>6. ASSUME NEW p \in Pids, NEW l, NEW r, GetNextSwapTextureSetIndex(p, l, r)
        PROVE  DeadOwnsNothing'
    <2>1. gone' = gone
      BY <1>6 DEF GetNextSwapTextureSetIndex
    <2>2. DOMAIN sets_' = DOMAIN sets_ /\ \A j \in DOMAIN sets_ : sets_'[j].pid = sets_[j].pid
      BY <1>1, <1>6, GetNextStep
    <2> QED BY <2>1, <2>2 DEF DeadOwnsNothing
  <1>7. CASE shutdown
    <2>1. sets_' = <<>>
      BY <1>7 DEF shutdown
    <2> QED BY <2>1 DEF DeadOwnsNothing
  <1>8. Quiet \/ FindEyes \/ PresentReturns => sets_' = sets_ /\ gone' \subseteq gone
    BY DEF Quiet, CreateSwapTextureSet, CreateWithDevice, CreateRefused, CreateFails,
           CreateRolledBack, CreateFinished, SubmitLayer, Present, PresentWithDevice, FindEyes,
           PresentReturns, vars
  <1> QED BY <1>2, <1>3, <1>4, <1>5, <1>6, <1>7, <1>8
        DEF Next, ProcessCalls, PresentThread, Quiet

(* Every step keeps the invariant. *)
LEMMA SwapStep ==
  IInv /\ [Next]_vars => IInv'
  <1> SUFFICES ASSUME IInv, [Next]_vars PROVE IInv'
    OBVIOUS
  <1>1. TypeOK /\ WorkInv /\ TableInv /\ EyesInv /\ RefsMatchHolders /\ DeadOwnsNothing
    BY DEF IInv
  <1>2. TypeOK' /\ RefsMatchHolders' /\ DeadOwnsNothing'
    BY <1>1, TypeStep, RefsStep, DeadStep
  <1>3. TableAfter /\ EyesAfter
    BY <1>1, TableStep, CountsAre
  <1>4. TableInv'
    BY <1>3 DEF TableAfter, TableOK, TableInv
  <1>5. EyesInv'
    BY <1>3 DEF EyesAfter, EyesInv
  <1>6. WorkInv'
    BY <1>1, WorkStep, PcStep DEF WorkInv
  <1> QED BY <1>2, <1>4, <1>5, <1>6 DEF IInv

-----------------------------------------------------------------------------
(* Which texture is copied, when no handle is given twice.                 *)

(* Handles name their texture for good, so a layer names what it meant.    *)
HandleInv ==
  /\ \A k \in DOMAIN sets_ : sets_[k].handles = sets_[k].textures
  /\ last_layer_texture_.handle = last_layer_texture_.texture
  /\ frame.handle = frame.texture
  /\ CopiesSubmitted

(* Where a handle names its own texture for good, find_texture_locked returns that
   texture or none, and finds every handle a set still has. *)
LEMMA FindItself ==
  ASSUME TypeOK, \A k \in DOMAIN sets_ : sets_[k].handles = sets_[k].textures, NEW h
  PROVE  /\ find_texture_locked(h) \in {None, h}
         /\ h \in CurrentHandles \cup {None} => find_texture_locked(h) = h
  <1>1. sets_ \in Seq(TextureSet)
    BY DEF TypeOK
  <1>2. find_texture_locked(h) \in {None, h}
    BY <1>1, FindTexture
  <1>3. ASSUME h = None PROVE find_texture_locked(h) = h
    <2>1. find_set_locked(h) = 0
      BY <1>3 DEF find_set_locked
    <2> QED BY <1>3, <2>1 DEF find_texture_locked
  <1>4. ASSUME h \in CurrentHandles PROVE find_texture_locked(h) = h
    <2>1. PICK k \in DOMAIN sets_ : h = sets_[k].handles[sets_[k].index]
      BY <1>4 DEF CurrentHandles
    <2>2. sets_[k].index \in Slot /\ sets_[k].handles \in [Slot -> Texture]
      BY <1>1, TextureTypes DEF TextureSet
    <2>3. h \in Texture /\ h # None /\ HasHandle(sets_[k], h)
      BY <2>1, <2>2, ConstantFacts DEF HasHandle
    <2> DEFINE f == find_set_locked(h)
               c == CHOOSE i \in Slot : sets_[f].handles[i] = h
    <2>4. f \in DOMAIN sets_ /\ HasHandle(sets_[f], h)
      <3> DEFINE found == {j \in DOMAIN sets_ : h # None /\ HasHandle(sets_[j], h)}
      <3>1. found \in SUBSET Nat /\ found # {}
        BY <1>1, <2>1, <2>3
      <3>2. f = CHOOSE j \in found : \A i \in found : j <= i
        BY <3>1 DEF find_set_locked
      <3>3. \E j \in found : \A i \in found : j <= i
        BY <3>1, Least
      <3>4. f \in found
        <4> HIDE DEF found, f
        <4> QED BY <3>2, <3>3
      <3> QED BY <3>4
    <2>5. f # 0
      BY <1>1, <2>4
    <2>6. find_texture_locked(h) = sets_[f].textures[c]
      BY <2>5 DEF find_texture_locked
    <2>7. c \in Slot /\ sets_[f].handles[c] = h
      BY <2>4 DEF HasHandle
    <2>8. sets_[f].handles = sets_[f].textures
      BY <2>4
    <2> HIDE DEF f, c
    <2> QED BY <2>6, <2>7, <2>8
  <1> QED BY <1>2, <1>3, <1>4

(* While D3D never hands out the handle of a freed texture again, handles go on naming
   the textures they were created for. *)
LEMMA HandleStep ==
  ASSUME ReuseHandles = FALSE, IInv, HandleInv, [Next]_vars
  PROVE  HandleInv'
  <1>1. /\ TypeOK /\ WorkInv /\ TableInv /\ EyesInv /\ Counts(sets_, eyes, refs)
        /\ sets_ \in Seq(TextureSet)
    BY CountsAre DEF IInv, TypeOK
  <1>2. /\ \A k \in DOMAIN sets_ : sets_[k].handles = sets_[k].textures
        /\ last_layer_texture_.handle = last_layer_texture_.texture
        /\ frame.handle = frame.texture
        /\ pc["present"] = "copy" => \A e \in Eye : eyes[e] \in {None, frame.texture[e]}
    BY DEF HandleInv, CopiesSubmitted
  <1>3. \A k \in DOMAIN sets_' : sets_'[k].handles = sets_'[k].textures
    <2>1. ASSUME NEW p \in Pids, CreateOk(p)
          PROVE  \A k \in DOMAIN sets_' : sets_'[k].handles = sets_'[k].textures
      <3>1. \A k \in DOMAIN sets_' : sets_'[k].handles = sets_'[k].textures
                                       \/ (k \in DOMAIN sets_ /\ sets_'[k] = sets_[k])
        BY <1>1, <2>1, CreateOkStep
      <3> QED BY <1>2, <3>1
    <2>2. ASSUME NEW p \in Pids, NEW h \in SetHandles, DestroySwapTextureSet(p, h)
          PROVE  \A k \in DOMAIN sets_' : sets_'[k].handles = sets_'[k].textures
      BY <1>1, <1>2, <2>2, DestroyStep
    <2>3. ASSUME NEW p \in Pids, DestroyAllSwapTextureSets(p)
          PROVE  \A k \in DOMAIN sets_' : sets_'[k].handles = sets_'[k].textures
      BY <1>1, <1>2, <2>3, DestroyAllStep
    <2>4. ASSUME NEW p \in Pids, NEW l, NEW r, GetNextSwapTextureSetIndex(p, l, r)
          PROVE  \A k \in DOMAIN sets_' : sets_'[k].handles = sets_'[k].textures
      BY <1>1, <1>2, <2>4, GetNextStep
    <2>5. CASE shutdown
      BY <2>5 DEF shutdown
    <2>6. Quiet \/ FindEyes \/ PresentReturns => sets_' = sets_
      BY <1>1, QuietIs DEF FindEyes, PresentReturns
    <2> QED BY <1>2, <2>1, <2>2, <2>3, <2>4, <2>5, <2>6
          DEF Next, ProcessCalls, PresentThread, Quiet
  <1>4. ASSUME NEW l \in CurrentHandles \cup {None}, NEW r \in CurrentHandles \cup {None},
               SubmitLayer(l, r)
        PROVE  last_layer_texture_'.handle = last_layer_texture_'.texture
    <2> DEFINE handle == <<l, r>>
               texture == [e \in Eye |-> find_texture_locked(handle[e])]
    <2>1. last_layer_texture_' = [handle |-> handle, texture |-> texture]
      BY <1>4 DEF SubmitLayer
    <2>2. \A e \in Eye : handle[e] \in CurrentHandles \cup {None}
      BY DEF Eye
    <2>3. \A e \in Eye : find_texture_locked(handle[e]) = handle[e]
      BY <1>1, <1>2, <2>2, FindItself
    <2>4. handle = [e \in Eye |-> handle[e]]
      BY DEF Eye
    <2>5. texture = handle
      <3> HIDE DEF handle
      <3> QED BY <2>3, <2>4
    <2> HIDE DEF handle, texture
    <2> QED BY <2>1, <2>5
  <1>5. /\ last_layer_texture_'.handle = last_layer_texture_'.texture
        /\ frame'.handle = frame'.texture
    <2>1. NoLayer.handle = NoLayer.texture
      BY DEF NoLayer
    <2>2. /\ \/ \E l, r \in CurrentHandles \cup {None} : SubmitLayer(l, r)
             \/ last_layer_texture_' \in {last_layer_texture_, NoLayer}
          /\ frame' \in {frame, last_layer_texture_, NoLayer}
      BY DEF Next, ProcessCalls, PresentThread, CreateSwapTextureSet, CreateWithDevice, CreateRefused,
             CreateFails, CreateRolledBack, CreateOk, CreateFinished, DestroySwapTextureSet,
             DestroyAllSwapTextureSets, GetNextSwapTextureSetIndex, SubmitLayer, Present,
             PresentWithDevice, FindEyes, PresentReturns, shutdown, vars, layerVars, presentVars
    <2> QED BY <1>2, <1>4, <2>1, <2>2
  <1>6. CopiesSubmitted'
    <2>1. CASE FindEyes
      <3>1. /\ eyes' = [e \in Eye |-> find_texture_locked(frame.handle[e])] /\ frame' = frame
        BY <2>1 DEF FindEyes
      <3>2. \A e \in Eye : eyes'[e] \in {None, frame.handle[e]}
        BY <1>1, <1>2, <3>1, FindItself
      <3> QED BY <1>2, <3>1, <3>2 DEF CopiesSubmitted
    <2>2. ASSUME pc'["present"] = "copy", ~FindEyes
          PROVE  pc["present"] = "copy" /\ eyes' = eyes /\ frame' = frame
      <3>1. pc \in [Thread -> {"idle", "device", "sets", "find", "copy"}]
        BY <1>1 DEF TypeOK
      <3>2. ASSUME NEW p \in Pids, ProcessCalls(p)
            PROVE  /\ eyes' = eyes /\ frame' = frame
                   /\ pc' = pc \/ \E at : pc' = [pc EXCEPT ![p] = at]
        BY <3>2 DEF ProcessCalls, CreateSwapTextureSet, CreateWithDevice, CreateRefused, CreateFails,
                    CreateRolledBack, CreateOk, CreateFinished, DestroySwapTextureSet,
                    DestroyAllSwapTextureSets, GetNextSwapTextureSetIndex, presentVars
      <3>3. ~Present /\ ~PresentWithDevice /\ ~PresentReturns
        <4>1. ~PresentReturns
          BY <2>2, <3>1, ConstantFacts DEF PresentReturns
        <4>2. ~PresentWithDevice
          BY <2>2, <3>1, ConstantFacts DEF PresentWithDevice
        <4>3. ~Present
          BY <2>2, <3>1, ConstantFacts DEF Present
        <4> QED BY <4>1, <4>2, <4>3
      <3>4. (\E l, r \in CurrentHandles \cup {None} : SubmitLayer(l, r)) \/ shutdown \/ UNCHANGED vars
               => eyes' = eyes /\ frame' = frame /\ pc' = pc
        BY DEF SubmitLayer, shutdown, vars, presentVars
      <3> QED BY <2>2, <3>1, <3>2, <3>3, <3>4, ConstantFacts DEF Next, PresentThread
    <2> QED BY <1>2, <2>1, <2>2 DEF CopiesSubmitted
  <1> QED BY <1>3, <1>5, <1>6 DEF HandleInv

-----------------------------------------------------------------------------
(* The results.                                                            *)

(* The inductive invariant of the texture sets holds always.               *)
THEOREM SwapInvariant == Spec => []IInv
  BY SwapInit, SwapStep, PTL DEF Spec

(* Type correctness of the table, the layers and the counts.               *)
THEOREM SwapTypeOK == Spec => []TypeOK
  <1>1. IInv => TypeOK
    BY DEF IInv
  <1> QED BY <1>1, SwapInvariant, PTL

(* A texture has one reference for its set and one for each eye that        *)
(* Present copies, whatever calls come meanwhile, and none is left after    *)
(* shutdown (CreateSwapTextureSet, DestroySwapTextureSet,                   *)
(* transport_frame_locked, shutdown).                                      *)
THEOREM SwapRefsMatchHolders == Spec => []RefsMatchHolders
  <1>1. IInv => RefsMatchHolders
    BY DEF IInv
  <1> QED BY <1>1, SwapInvariant, PTL

(* DestroyAllSwapTextureSets leaves no set of the process in the table,     *)
(* for any table size and any mix of owners.                               *)
THEOREM SwapDeadOwnsNothing == Spec => []DeadOwnsNothing
  <1>1. IInv => DeadOwnsNothing
    BY DEF IInv
  <1> QED BY <1>1, SwapInvariant, PTL

(* Where D3D does not give the handle of a freed texture again, Present     *)
(* copies the textures the compositor submitted, or nothing                *)
(* (SubmitLayer, find_texture_locked).                                     *)
THEOREM SwapCopiesSubmitted ==
  ASSUME ReuseHandles = FALSE
  PROVE  Spec => []CopiesSubmitted
  <1>1. Init => HandleInv
    <2> SUFFICES ASSUME Init PROVE HandleInv
      OBVIOUS
    <2>1. sets_ = <<>> /\ last_layer_texture_ = NoLayer /\ frame = NoLayer /\ eyes = NoEyes
      BY DEF Init
    <2> QED BY <2>1 DEF HandleInv, CopiesSubmitted, NoLayer, NoEyes
  <1>2. IInv /\ HandleInv /\ [Next]_vars => HandleInv'
    BY HandleStep
  <1>3. HandleInv => CopiesSubmitted
    BY DEF HandleInv
  <1> QED BY <1>1, <1>2, <1>3, SwapInvariant, PTL DEF Spec

=============================================================================
