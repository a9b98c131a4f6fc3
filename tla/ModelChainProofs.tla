-------------------------- MODULE ModelChainProofs --------------------------
(***************************************************************************)
(* Theorems about ModelChain, for any turns, presses and deployments: the  *)
(* order on record holds each model once, and what is chosen in the menu   *)
(* takes effect.                                                           *)
(*                                                                         *)
(* The object a turn walks may be shared, replaced and put back by slower  *)
(* turns.  Agree follows one turn from the order it read to the object it  *)
(* holds: while the row stands as the turn read it, both are that order.   *)
(***************************************************************************)
EXTENDS ModelChain, TLAPS, FiniteSetTheorems

ChainShape ==
  /\ held \in [Handlers -> Objects \cup {None}]
  /\ current \in Objects \cup {None}
  /\ latest \in [Handlers -> BOOLEAN]
  /\ DOMAIN wanted = Handlers /\ DOMAIN chain = Objects

Agree ==
  \A h \in Handlers :
    latest[h] => /\ wanted[h] # <<>> => wanted[h] = ProviderChain
                 /\ held[h] # None => chain[held[h]] = ProviderChain

ChainInv == ChainShape /\ Agree

-----------------------------------------------------------------------------
\* The order to walk is a matter of the row and the deployment alone.
LEMMA SameSetting ==
  ASSUME UNCHANGED <<offered, stored>>
  PROVE  ProviderChain' = ProviderChain
BY DEF ProviderChain, Selection

LEMMA ChainInvInit == ChainInit => ChainInv
<1>1. None \notin Objects
  BY ModelChainAssumption DEF Objects
<1> QED
  BY <1>1 DEF ChainInit, ChainInv, ChainShape, Agree

\* Objects that somebody holds keep their order when the others go.
LEMMA CollectedKeeps ==
  ASSUME NEW cur, NEW holders, Collected(cur, holders),
         NEW h \in Handlers, holders[h] \in Objects
  PROVE  chain'[holders[h]] = chain[holders[h]] /\ DOMAIN chain' = Objects
BY DEF Collected

\* The row changes only under turns that are told so.
LEMMA StoredKeeps ==
  ASSUME ChainInv, NEW order, Stored(order), UNCHANGED <<offered, chain, current, wanted, held>>
  PROVE  ChainInv'
<1>1. /\ latest' \in [Handlers -> BOOLEAN]
      /\ \A h \in Handlers : latest'[h] => latest[h] /\ stored' = stored
  BY DEF Stored, ChainInv, ChainShape
<1>2. stored' = stored => ProviderChain' = ProviderChain
  BY SameSetting
<1> QED
  BY <1>1, <1>2 DEF ChainInv, ChainShape, Agree

LEMMA PressStep ==
  ASSUME ChainInv, NEW t \in Taps,
         PressRead(t) \/ PressWrite(t) \/ PressReset(t) \/ PressForget(t)
  PROVE  ChainInv'
<1>1. CASE PressRead(t)
  <2>1. UNCHANGED <<offered, stored, chain, current, wanted, held, latest>>
    BY <1>1 DEF PressRead, setting, objects
  <2> QED
    BY <2>1, SameSetting DEF ChainInv, ChainShape, Agree
<1>2. CASE PressWrite(t)
  <2>1. UNCHANGED <<offered, chain, current, wanted, held>>
    BY <1>2 DEF PressWrite, objects
  <2>2. UNCHANGED <<stored, latest>> \/ \E order : Stored(order)
    BY <1>2 DEF PressWrite
  <2>3. CASE UNCHANGED <<stored, latest>>
    BY <2>1, <2>3, SameSetting DEF ChainInv, ChainShape, Agree
  <2> QED
    BY <2>1, <2>2, <2>3, StoredKeeps
<1>3. CASE PressReset(t)
  <2>1. Stored(None) /\ UNCHANGED <<offered, chain, current, wanted, held>>
    BY <1>3 DEF PressReset, objects
  <2> QED
    BY <2>1, StoredKeeps
<1>4. CASE PressForget(t)
  <2>1. /\ Collected(None, held) /\ current' = None
        /\ UNCHANGED <<offered, stored, wanted, held, latest>>
    BY <1>4 DEF PressForget, setting
  <2>2. DOMAIN chain' = Objects
    BY <2>1 DEF Collected
  <2>3. \A h \in Handlers : held[h] # None => chain'[held[h]] = chain[held[h]]
    BY <2>1, CollectedKeeps DEF ChainInv, ChainShape
  <2> QED
    BY <2>1, <2>2, <2>3, SameSetting DEF ChainInv, ChainShape, Agree
<1> QED
  BY <1>1, <1>2, <1>3, <1>4

\* A turn reads the row, takes an object, and lets it go.
LEMMA ReadStep ==
  ASSUME ChainInv, NEW h \in Handlers, ReadChain(h)
  PROVE  ChainInv'
<1>1. /\ held[h] = None /\ UNCHANGED <<offered, stored, chain, current, held>>
      /\ wanted' = [wanted EXCEPT ![h] = ProviderChain]
      /\ latest' = [latest EXCEPT ![h] = TRUE]
  BY DEF ReadChain, setting, objects
<1>2. ProviderChain' = ProviderChain
  BY <1>1, SameSetting
<1>3. /\ wanted'[h] = ProviderChain
      /\ \A g \in Handlers \ {h} : wanted'[g] = wanted[g] /\ latest'[g] = latest[g]
  BY <1>1 DEF ChainInv, ChainShape
<1>4. ChainShape'
  BY <1>1 DEF ChainInv, ChainShape
<1>5. Agree'
  BY <1>1, <1>2, <1>3 DEF ChainInv, Agree
<1> QED
  BY <1>4, <1>5 DEF ChainInv

LEMMA TakeStep ==
  ASSUME ChainInv, NEW h \in Handlers, FallbackFor(h)
  PROVE  ChainInv'
<1>1. PICK o \in Objects :
        /\ IF Fits(h) THEN o = current ELSE IsLeast(o, Unused)
        /\ held' = [held EXCEPT ![h] = o]
        /\ current' = o
        /\ LET live == {o} \cup {held[g] : g \in Handlers} IN
           chain' = [x \in Objects |->
               IF x = o THEN wanted[h] ELSE IF x \in live THEN chain[x] ELSE <<>>]
  BY DEF FallbackFor
<1>2. /\ wanted[h] # <<>> /\ wanted' = [wanted EXCEPT ![h] = <<>>]
      /\ UNCHANGED <<offered, stored, latest>>
  BY DEF FallbackFor, setting
<1>3. ProviderChain' = ProviderChain
  BY <1>2, SameSetting
<1>4. ChainShape'
  BY <1>1, <1>2 DEF ChainInv, ChainShape
<1>5. chain'[o] = wanted[h] /\ held'[h] = o
  BY <1>1 DEF ChainInv, ChainShape
<1>6. ASSUME NEW g \in Handlers \ {h}, held[g] # None
      PROVE  chain'[held[g]] = chain[held[g]]
  <2>1. held[g] \in Objects
    BY <1>6 DEF ChainInv, ChainShape
  <2>2. CASE held[g] = o
    <3>1. Fits(h)
      BY <1>1, <2>2 DEF IsLeast, Unused
    <3>2. chain[o] = wanted[h]
      BY <1>1, <3>1 DEF Fits
    <3> QED
      BY <1>5, <2>2, <3>2
  <2>3. CASE held[g] # o
    BY <1>1, <2>1, <2>3
  <2> QED
    BY <2>2, <2>3
<1>7. \A g \in Handlers \ {h} : held'[g] = held[g] /\ wanted'[g] = wanted[g]
  BY <1>1, <1>2 DEF ChainInv, ChainShape
<1>8. wanted'[h] = <<>>
  BY <1>2 DEF ChainInv, ChainShape
<1>9. Agree'
  BY <1>2, <1>3, <1>5, <1>6, <1>7, <1>8 DEF ChainInv, Agree
<1> QED
  BY <1>4, <1>9 DEF ChainInv

LEMMA LetGoStep ==
  ASSUME ChainInv, NEW h \in Handlers, LetGo(h)
  PROVE  ChainInv'
<1> DEFINE holders == [held EXCEPT ![h] = None]
<1>1. /\ held' = holders /\ latest' = [latest EXCEPT ![h] = FALSE]
      /\ Collected(current, holders)
      /\ UNCHANGED <<offered, stored, current, wanted>>
  BY DEF LetGo, setting
<1>2. ChainShape'
  BY <1>1 DEF ChainInv, ChainShape, Collected
<1>3. \A g \in Handlers \ {h} :
        /\ held'[g] = held[g] /\ latest'[g] = latest[g]
        /\ held[g] # None => chain'[held[g]] = chain[held[g]]
  <2> SUFFICES ASSUME NEW g \in Handlers \ {h}
               PROVE  /\ holders[g] = held[g] /\ latest'[g] = latest[g]
                      /\ held[g] # None => chain'[held[g]] = chain[held[g]]
    BY <1>1
  <2>1. holders[g] = held[g] /\ held[g] \in Objects \cup {None} /\ latest'[g] = latest[g]
    BY <1>1 DEF ChainInv, ChainShape
  <2> HIDE DEF holders
  <2> QED
    BY <1>1, <2>1, CollectedKeeps
<1>4. ~latest'[h]
  BY <1>1 DEF ChainInv, ChainShape
<1>5. Agree'
  BY <1>1, <1>3, <1>4, SameSetting DEF ChainInv, Agree
<1> QED
  BY <1>2, <1>5 DEF ChainInv

LEMMA ChainStep ==
  ASSUME ChainInv, [ChainNext]_cvars
  PROVE  ChainInv'
<1>1. CASE Press
  BY <1>1, PressStep DEF Press
<1>2. ASSUME NEW h \in Handlers, Refusal(h) PROVE ChainInv'
  <2>1. UNCHANGED <<offered, stored, chain, current, wanted, held, latest>>
    BY <1>2 DEF Refusal, Advance, setting
  <2> QED
    BY <2>1, SameSetting DEF ChainInv, ChainShape, Agree
<1>3. CASE Restarted
  BY <1>3 DEF Restarted, ChainInv, ChainShape, Agree
<1>4. CASE UNCHANGED cvars
  <2>1. UNCHANGED <<offered, stored, chain, current, wanted, held, latest>>
    BY <1>4 DEF cvars, setting, objects
  <2> QED
    BY <2>1, SameSetting DEF ChainInv, ChainShape, Agree
<1> QED
  BY <1>1, <1>2, <1>3, <1>4, ReadStep, TakeStep, LetGoStep DEF ChainNext

-----------------------------------------------------------------------------
(* What is dropped from an order leaves the rest as it stood. *)

\* The entries that stay are counted from 1, and each has a number of its own.
LEMMA RankIsANumbering ==
  ASSUME NEW n \in Nat, NEW kept \in SUBSET (1 .. n)
  PROVE  /\ IsFiniteSet(kept) /\ Cardinality(kept) \in Nat
         /\ \A i \in kept : Rank(kept, i) \in 1 .. Cardinality(kept)
         /\ \A i, j \in kept : Rank(kept, i) = Rank(kept, j) => i = j
<1>0. IsFiniteSet(1 .. n)
  <2>1. 1 \in Int /\ n \in Int
    OBVIOUS
  <2> QED
    BY <2>1, FS_Interval
<1>1. IsFiniteSet(kept) /\ Cardinality(kept) \in Nat
  BY <1>0, FS_Subset, FS_CardinalityType
<1> DEFINE upTo(i) == {j \in kept : j <= i}
<1>2. \A i \in kept : /\ IsFiniteSet(upTo(i)) /\ Cardinality(upTo(i)) \in Nat
                      /\ Cardinality(upTo(i)) <= Cardinality(kept)
  BY <1>1, FS_Subset, FS_CardinalityType
<1>3. \A i \in kept : i \in upTo(i)
  OBVIOUS
<1>4. \A i \in kept : Cardinality(upTo(i)) # 0
  BY <1>2, <1>3, FS_EmptySet
<1>5. ASSUME NEW i \in kept, NEW j \in kept, i < j
      PROVE  Cardinality(upTo(i)) # Cardinality(upTo(j))
  <2>1. upTo(i) \in SUBSET upTo(j)
    <3>1. i \in Nat /\ j \in Nat /\ \A x \in kept : x \in Nat
      OBVIOUS
    <3>2. \A x \in kept : x <= i => x <= j
      BY <1>5, <3>1
    <3> QED
      BY <3>2
  <2>2. j \in upTo(j) /\ j \notin upTo(i)
    BY <1>5
  <2> QED
    BY <1>2, <2>1, <2>2, FS_Subset
<1>6. \A i \in kept : Rank(kept, i) = Cardinality(upTo(i))
  BY DEF Rank
<1>7. \A i \in kept : Rank(kept, i) \in 1 .. Cardinality(kept)
  <2> HIDE DEF upTo
  <2> QED
    BY <1>1, <1>2, <1>4, <1>6
<1>8. \A i, j \in kept : Rank(kept, i) = Rank(kept, j) => i = j
  <2> HIDE DEF upTo
  <2>1. \A i, j \in kept : i < j \/ j < i \/ i = j
    OBVIOUS
  <2> QED
    BY <1>5, <1>6, <2>1
<1> QED
  BY <1>1, <1>7, <1>8

LEMMA EveryRankIsTaken ==
  ASSUME NEW n \in Nat, NEW kept \in SUBSET (1 .. n)
  PROVE  \A k \in 1 .. Cardinality(kept) : \E i \in kept : Rank(kept, i) = k
<1> DEFINE numbers == 1 .. Cardinality(kept)
           rank == [i \in kept |-> Rank(kept, i)]
<1>1. rank \in Injection(kept, numbers)
  BY RankIsANumbering DEF Injection, IsInjective
<1>2. IsFiniteSet(numbers) /\ Cardinality(numbers) = Cardinality(kept)
  <2>1. Cardinality(kept) \in Nat
    BY RankIsANumbering
  <2>2. /\ IsFiniteSet(1 .. Cardinality(kept))
        /\ Cardinality(1 .. Cardinality(kept))
             = IF 1 > Cardinality(kept) THEN 0 ELSE Cardinality(kept) - 1 + 1
    BY <2>1, FS_Interval
  <2> QED
    BY <2>1, <2>2
<1>3. rank \in Surjection(kept, numbers)
  <2> HIDE DEF numbers, rank
  <2> QED
    BY <1>1, <1>2, FS_Injection
<1> QED
  BY <1>3 DEF Surjection

LEMMA KnownIsAnOrder ==
  ASSUME NEW order \in Orders, NEW models
  PROVE  /\ Known(order, models) \in Orders
         /\ IsInjective(order) => IsInjective(Known(order, models))
<1> DEFINE kept == {i \in DOMAIN order : order[i] \in models}
           place(k) == CHOOSE i \in kept : Rank(kept, i) = k
<1>1. Len(order) \in Nat /\ kept \in SUBSET (1 .. Len(order))
  BY DEF Orders
<1>2. \A k \in 1 .. Cardinality(kept) : place(k) \in kept /\ Rank(kept, place(k)) = k
  <2>1. \A k \in 1 .. Cardinality(kept) : \E i \in kept : Rank(kept, i) = k
    <3> HIDE DEF kept
    <3> QED
      BY <1>1, EveryRankIsTaken
  <2> HIDE DEF kept
  <2> QED
    BY <2>1
<1>3. Cardinality(kept) \in Nat
  <2> HIDE DEF kept
  <2> QED
    BY <1>1, RankIsANumbering
<1>4. \A i \in kept : order[i] \in Models
  BY DEF Orders
<1>5. Known(order, models) = [k \in 1 .. Cardinality(kept) |-> order[place(k)]]
  BY DEF Known
<1> HIDE DEF kept, place
<1>6. Known(order, models) \in Orders
  BY <1>2, <1>3, <1>4, <1>5 DEF Orders
<1>7. ASSUME IsInjective(order) PROVE IsInjective(Known(order, models))
  <2>1. DOMAIN Known(order, models) = 1 .. Cardinality(kept)
    BY <1>5
  <2>2. SUFFICES ASSUME NEW k \in 1 .. Cardinality(kept), NEW m \in 1 .. Cardinality(kept),
                        order[place(k)] = order[place(m)]
                 PROVE  k = m
    BY <1>5, <2>1 DEF IsInjective
  <2>3. place(k) \in DOMAIN order /\ place(m) \in DOMAIN order
    BY <1>2 DEF kept
  <2>4. place(k) = place(m)
    BY <1>7, <2>2, <2>3 DEF IsInjective
  <2> QED
    BY <1>2, <2>4
<1> QED
  BY <1>6, <1>7

\* What the menu and a turn make of the row.
LEMMA SettingTypes ==
  ASSUME ChainTypeOK
  PROVE  /\ offered \in Orders
         /\ Selection \in Orders /\ ProviderChain \in Orders
<1>1. offered \in Orders
  BY ModelChainAssumption DEF ChainTypeOK, Orders
<1>2. <<>> \in Orders
  BY DEF Orders
<1>3. Selection \in Orders
  BY <1>2, KnownIsAnOrder DEF Selection, ChainTypeOK
<1> QED
  BY <1>1, <1>3 DEF ProviderChain

\* A press takes a model out, or puts one in that is not there.
LEMMA PickIsASelection ==
  ASSUME ChainTypeOK, NEW sel \in Orders, NEW position \in Nat
  PROVE  /\ Pick(sel, position) \in Orders
         /\ IsInjective(sel) => IsInjective(Pick(sel, position))
<1> DEFINE order == ShownOrder(sel)
           model == order[position + 1]
<1>1. order \in Orders
  <2>1. /\ Known(sel, ToSet(offered)) \in Orders
        /\ Known(offered, ToSet(offered) \ ToSet(sel)) \in Orders
    BY SettingTypes, KnownIsAnOrder
  <2> QED
    BY <2>1 DEF ShownOrder, Orders
<1>2. CASE position >= Len(order)
  BY <1>2 DEF Pick
<1>3. CASE position < Len(order) /\ model \in ToSet(sel)
  <2>1. Len(order) \in Nat
    BY <1>1 DEF Orders
  <2>2. Pick(sel, position) = Known(sel, ToSet(sel) \ {model})
    BY <1>3, <2>1 DEF Pick
  <2> HIDE DEF model
  <2> QED
    BY <2>2, KnownIsAnOrder
<1>4. CASE position < Len(order) /\ model \notin ToSet(sel)
  <2>1. Len(order) \in Nat /\ position + 1 \in 1 .. Len(order)
    BY <1>1, <1>4 DEF Orders
  <2>2. model \in Models
    <3> HIDE DEF order
    <3> QED
      BY <1>1, <2>1 DEF Orders
  <2>3. Pick(sel, position) = Append(sel, model)
    BY <1>4, <2>1 DEF Pick
  <2>4. \A i \in 1 .. Len(sel) : sel[i] # model
    BY <1>4 DEF ToSet, Orders
  <2> HIDE DEF model, order
  <2>5. /\ Len(sel) \in Nat /\ DOMAIN sel = 1 .. Len(sel)
        /\ DOMAIN Append(sel, model) = 1 .. (Len(sel) + 1)
        /\ Append(sel, model)[Len(sel) + 1] = model
        /\ \A i \in 1 .. Len(sel) : Append(sel, model)[i] = sel[i]
    BY <2>2 DEF Orders
  <2>6. IsInjective(sel) => IsInjective(Append(sel, model))
    BY <2>4, <2>5 DEF IsInjective
  <2> QED
    BY <2>2, <2>3, <2>6 DEF Orders
<1> QED
  <2>1. Len(order) \in Nat
    BY <1>1 DEF Orders
  <2> QED
    BY <1>2, <1>3, <1>4, <2>1

-----------------------------------------------------------------------------
(* Typing. *)

LEMMA CollectedType ==
  ASSUME ChainTypeOK, NEW cur, NEW holders, Collected(cur, holders)
  PROVE  chain' \in [Objects -> Orders] /\ index' \in [Objects -> Nat]
<1>1. <<>> \in Orders
  BY DEF Orders
<1> QED
  BY <1>1 DEF Collected, ChainTypeOK

LEMMA PressType ==
  ASSUME ChainTypeOK, NEW t \in Taps,
         PressRead(t) \/ PressWrite(t) \/ PressReset(t) \/ PressForget(t)
  PROVE  ChainTypeOK'
<1>1. CASE PressRead(t)
  BY <1>1, SettingTypes DEF PressRead, ChainTypeOK, setting, objects
<1>2. CASE PressWrite(t)
  <2>1. PICK position \in 0 .. Len(offered) :
          LET updated == Pick(chosen[t], position)
          IN IF updated = chosen[t]
             THEN /\ tap' = [tap EXCEPT ![t] = "idle"]
                  /\ UNCHANGED <<stored, latest>>
             ELSE /\ Stored(updated)
                  /\ tap' = [tap EXCEPT ![t] = "written"]
    BY <1>2 DEF PressWrite
  <2>2. position \in Nat /\ chosen[t] \in Orders
    BY SettingTypes DEF ChainTypeOK
  <2>3. Pick(chosen[t], position) \in Orders
    BY <2>2, PickIsASelection
  <2>4. /\ stored' \in Orders \cup {None}
        /\ latest' \in [Handlers -> BOOLEAN]
        /\ tap' \in [Taps -> {"idle", "read", "written"}]
    BY <2>1, <2>3 DEF Stored, ChainTypeOK
  <2>5. <<>> \in Orders
    BY DEF Orders
  <2> QED
    BY <1>2, <2>4, <2>5 DEF PressWrite, ChainTypeOK, objects
<1>3. CASE PressReset(t)
  BY <1>3 DEF PressReset, Stored, ChainTypeOK, objects
<1>4. CASE PressForget(t)
  <2>1. chain' \in [Objects -> Orders] /\ index' \in [Objects -> Nat]
    BY <1>4, CollectedType DEF PressForget
  <2> QED
    BY <1>4, <2>1 DEF PressForget, ChainTypeOK, setting
<1> QED
  BY <1>1, <1>2, <1>3, <1>4

LEMMA ReadType ==
  ASSUME ChainTypeOK, NEW h \in Handlers, ReadChain(h)
  PROVE  ChainTypeOK'
BY SettingTypes DEF ReadChain, ChainTypeOK, setting, objects, taps

LEMMA TakeType ==
  ASSUME ChainTypeOK, NEW h \in Handlers, FallbackFor(h)
  PROVE  ChainTypeOK'
<1>1. PICK o \in Objects :
        /\ held' = [held EXCEPT ![h] = o]
        /\ current' = o
        /\ LET live == {o} \cup {held[g] : g \in Handlers} IN
           /\ chain' = [x \in Objects |->
                IF x = o THEN wanted[h] ELSE IF x \in live THEN chain[x] ELSE <<>>]
           /\ index' = [x \in Objects |->
                IF x \in live /\ (x # o \/ Fits(h)) THEN index[x] ELSE 0]
  BY DEF FallbackFor
<1>2. <<>> \in Orders /\ wanted[h] \in Orders
  BY DEF Orders, ChainTypeOK
<1>3. chain' \in [Objects -> Orders] /\ index' \in [Objects -> Nat]
  BY <1>1, <1>2 DEF ChainTypeOK
<1>4. wanted' = [wanted EXCEPT ![h] = <<>>] /\ UNCHANGED <<setting, latest, taps>>
  BY DEF FallbackFor
<1> QED
  BY <1>1, <1>2, <1>3, <1>4 DEF ChainTypeOK, setting, taps

LEMMA AdvanceType ==
  ASSUME ChainTypeOK, NEW h \in Handlers, Advance(h)
  PROVE  ChainTypeOK'
<1>1. PICK o : o = held[h]
  OBVIOUS
<1>2. index' = [index EXCEPT ![o] = @ + 1] /\ index \in [Objects -> Nat]
  BY <1>1 DEF Advance, ChainTypeOK
<1>3. index' \in [Objects -> Nat]
  <2>1. index' = [x \in Objects |-> IF x = o THEN index[x] + 1 ELSE index[x]]
    BY <1>2
  <2>2. \A x \in Objects : index[x] \in Nat /\ index[x] + 1 \in Nat
    BY <1>2
  <2> QED
    BY <2>1, <2>2
<1> QED
  BY <1>3 DEF Advance, ChainTypeOK, setting, taps

LEMMA LetGoType ==
  ASSUME ChainTypeOK, NEW h \in Handlers, LetGo(h)
  PROVE  ChainTypeOK'
<1>1. chain' \in [Objects -> Orders] /\ index' \in [Objects -> Nat]
  BY CollectedType DEF LetGo
<1> QED
  BY <1>1 DEF LetGo, ChainTypeOK, setting, taps

LEMMA RestartType ==
  ASSUME ChainTypeOK, Restarted
  PROVE  ChainTypeOK'
<1>1. <<>> \in Orders
  BY DEF Orders
<1> QED
  BY <1>1 DEF Restarted, ChainTypeOK

LEMMA ChainTypeInit == ChainInit => ChainTypeOK
<1>1. <<>> \in Orders
  BY DEF Orders
<1> QED
  BY <1>1 DEF ChainInit, ChainTypeOK

LEMMA ChainTypeStep ==
  ASSUME ChainTypeOK, [ChainNext]_cvars
  PROVE  ChainTypeOK'
<1>1. CASE UNCHANGED cvars
  BY <1>1 DEF cvars, setting, objects, taps, ChainTypeOK
<1> QED
  BY <1>1, PressType, ReadType, TakeType, AdvanceType, LetGoType, RestartType
     DEF ChainNext, Press, Refusal

-----------------------------------------------------------------------------
(* What is stored, and what a press has read, holds each model once. *)

Once ==
  /\ ChainIsASelection
  /\ \A t \in Taps : IsInjective(chosen[t])

LEMMA OnceStep ==
  ASSUME ChainTypeOK, Once, [ChainNext]_cvars
  PROVE  Once'
<1>0. IsInjective(<<>>)
  BY DEF IsInjective
<1>1. ASSUME NEW t \in Taps, PressRead(t) PROVE Once'
  <2>1. IsInjective(Selection)
    BY <1>0, KnownIsAnOrder DEF Once, ChainIsASelection, ChainTypeOK, Selection
  <2> QED
    BY <1>1, <2>1 DEF PressRead, Once, ChainIsASelection, ChainTypeOK, setting
<1>2. ASSUME NEW t \in Taps, PressWrite(t) PROVE Once'
  <2>1. PICK position \in 0 .. Len(offered) :
          stored' = stored \/ stored' = Pick(chosen[t], position)
    BY <1>2 DEF PressWrite, Stored
  <2>2. position \in Nat /\ chosen[t] \in Orders
    BY SettingTypes DEF ChainTypeOK
  <2>3. IsInjective(Pick(chosen[t], position))
    BY <2>2, PickIsASelection DEF Once
  <2>4. chosen' = [chosen EXCEPT ![t] = <<>>]
    BY <1>2 DEF PressWrite
  <2> QED
    BY <1>0, <2>1, <2>3, <2>4 DEF Once, ChainIsASelection, ChainTypeOK
<1>3. ASSUME NEW t \in Taps, PressReset(t) PROVE Once'
  BY <1>3 DEF PressReset, Stored, Once, ChainIsASelection
<1>4. CASE Restarted
  BY <1>0, <1>4 DEF Restarted, Once, ChainIsASelection
<1>5. CASE UNCHANGED <<stored, chosen>>
  BY <1>5 DEF Once, ChainIsASelection
<1>6. ASSUME NEW t \in Taps, PressForget(t) PROVE UNCHANGED <<stored, chosen>>
  BY <1>6 DEF PressForget, setting
<1>7. ASSUME NEW h \in Handlers, ReadChain(h) \/ FallbackFor(h) \/ Refusal(h) \/ LetGo(h)
      PROVE  UNCHANGED <<stored, chosen>>
  BY <1>7 DEF ReadChain, FallbackFor, Refusal, Advance, LetGo, setting, taps
<1>8. UNCHANGED cvars => UNCHANGED <<stored, chosen>>
  BY DEF cvars, setting, taps
<1> QED
  BY <1>1, <1>2, <1>3, <1>4, <1>5, <1>6, <1>7, <1>8 DEF ChainNext, Press

\* The chain a chat has stored names no model twice, whatever presses overlap
\* and whatever the deployment offers.
THEOREM StoredOnce == ChainSpec => []ChainIsASelection
<1>1. ChainInit => ChainTypeOK /\ Once
  <2>1. ChainInit => Once
    BY DEF ChainInit, Once, ChainIsASelection, IsInjective
  <2> QED
    BY <2>1, ChainTypeInit
<1>2. ChainTypeOK /\ Once /\ [ChainNext]_cvars => (ChainTypeOK /\ Once)'
  BY ChainTypeStep, OnceStep
<1>3. Once => ChainIsASelection
  BY DEF Once
<1> QED
  BY <1>1, <1>2, <1>3, PTL DEF ChainSpec

-----------------------------------------------------------------------------
\* A turn that has read the row as it stands walks the order it holds.
THEOREM MenuTakesEffect == ChainSpec => []SettingsTakeEffect
<1>1. ChainInv => SettingsTakeEffect
  BY DEF ChainInv, Agree, SettingsTakeEffect
<1> QED
  BY <1>1, ChainInvInit, ChainStep, PTL DEF ChainSpec
=============================================================================
