-------------------------- MODULE ApicTimerProofs ---------------------------
(***************************************************************************)
(* Proofs about the interrupt system, from the MADT to the sleeps          *)
(* (LegacyIrqs, Madt, LocalApic, RtcCalibration, ApicTimer), for every     *)
(* table and whatever the I/O APICs hold in their registers, every set of  *)
(* IRQs, every size of a group of the vector map, every period of the      *)
(* clock and every speed of the kernel.                                    *)
(*                                                                         *)
(* The first part is about the IRQs alone.  Its inductive invariant adds   *)
(* to the properties that an IRQ is mapped exactly if it has a vector,     *)
(* that the redirection entry which the kernel finds for it and the IDT    *)
(* agree on that vector, and that no other entries are in use.             *)
(*                                                                         *)
(* The second part is about the kernel from init_stage_2 on.  Its          *)
(* inductive invariant TimerInv says what has been read of the MADT, which *)
(* interrupts may be pending at each statement, how the timer's count is   *)
(* related to the phase of the clock during the calibration, and that the  *)
(* time slept and the count add up to the ticks of a sleep.                *)
(***************************************************************************)
EXTENDS ApicTimer, FiniteSetTheorems, NaturalsFacts, TLAPS

\* The entry that the kernel programs for an IRQ, and the one its device drives.
SlotOf(irq) == Slot(Wire(irq))
InputOf(irq) == Input(Wire(irq))

\* The vector of a mapped IRQ is in its redirection entry, and its handler is
\* in the IDT.
Routed(irq) ==
  /\ Registers(irq)
  /\ SlotOf(irq) \in DOMAIN redirect /\ redirect[SlotOf(irq)] = legacy_irqs[irq]
  /\ idt[legacy_irqs[irq]] = wanted[irq]

RoutesAgree ==
  ~panicked =>
    \A irq \in Irq :
      /\ wanted[irq] = None <=> legacy_irqs[irq] = None
      /\ legacy_irqs[irq] # None => Routed(irq)

\* An entry that is not masked is that of an IRQ which is mapped, or which is
\* moved, so that unregister_legacy_irq masks another one.
EntriesUsed ==
  \A slot \in DOMAIN redirect : \E irq \in Irq :
    Registers(irq) /\ slot = SlotOf(irq) /\ (wanted[irq] # None \/ Wire(irq) # irq)

IInv == WellWired /\ IrqTypeOK /\ VectorsUnique /\ RoutesAgree /\ EntriesUsed

\* No group is full: each IRQ and the timer have one vector at most.
LEMMA VectorLeft ==
  ASSUME IrqTypeOK, VectorsUnique, ~panicked
  PROVE  \E i \in Index : <<0, i>> \notin vector_map
  <1> DEFINE V == {legacy_irqs[irq] : irq \in Irq}
             W == (V \cup {timer}) \cup {0}
  <1>1. legacy_irqs \in Surjection(Irq, V)
    BY DEF IrqTypeOK, Surjection
  <1>2. IsFiniteSet(V) /\ Cardinality(V) <= Cardinality(Irq)
    BY <1>1, GroupSizeAssumption, FS_Surjection
  <1>3. Cardinality(V) \in Nat /\ Cardinality(Irq) \in Nat
    BY <1>2, GroupSizeAssumption, FS_CardinalityType
  <1>4. IsFiniteSet(V \cup {timer}) /\ Cardinality(V \cup {timer}) <= Cardinality(Irq) + 1
    <2> HIDE DEF V
    <2>1. /\ IsFiniteSet(V \cup {timer})
          /\ Cardinality(V \cup {timer}) = IF timer \in V THEN Cardinality(V) ELSE Cardinality(V) + 1
      BY <1>2, FS_AddElement
    <2> QED
      BY <2>1, <1>2, <1>3
  <1>5. Cardinality(V \cup {timer}) \in Nat
    BY <1>4, FS_CardinalityType
  <1>6. IsFiniteSet(W) /\ Cardinality(W) <= Cardinality(Irq) + 2
    <2> DEFINE U == V \cup {timer}
    <2> HIDE DEF U
    <2>1. IsFiniteSet(U) /\ Cardinality(U) \in Nat /\ Cardinality(U) <= Cardinality(Irq) + 1
      BY <1>4, <1>5 DEF U
    <2>2. /\ IsFiniteSet(U \cup {0})
          /\ Cardinality(U \cup {0}) = IF 0 \in U THEN Cardinality(U) ELSE Cardinality(U) + 1
      BY <2>1, FS_AddElement
    <2>3. W = U \cup {0}
      BY DEF U
    <2> QED
      BY <2>1, <2>2, <2>3, <1>3
  <1>7. Cardinality(Index) = GroupSize
    BY GroupSizeAssumption, <1>3, FS_Interval DEF Index
  <1>8. ~(Index \subseteq W)
    <2> HIDE DEF W
    <2>1. Index \subseteq W => Cardinality(Index) <= Cardinality(W)
      BY <1>6, FS_Subset
    <2>2. Cardinality(W) \in Nat
      BY <1>6, FS_CardinalityType
    <2> QED
      BY <2>1, <2>2, <1>3, <1>6, <1>7, GroupSizeAssumption
  <1>9. PICK i \in Index : i \notin W
    BY <1>8
  <1>10. <<0, i>> \notin vector_map
    BY <1>9 DEF VectorsUnique, VectorsInUse
  <1> QED
    BY <1>10

\* try_find_and_reserve_entry returns a vector that nobody uses.
LEMMA VectorIsNew ==
  ASSUME IrqTypeOK, VectorsUnique, ~panicked
  PROVE  \E i \in Index :
           /\ FirstClear = <<0, i>> /\ EntryIndex(FirstClear) = i
           /\ i \notin VectorsInUse /\ i # 0 /\ i # None
  <1> DEFINE T == {i \in Index : <<0, i>> \notin vector_map}
  <1>1. T \in SUBSET Nat /\ T # {}
    BY VectorLeft, GroupSizeAssumption DEF Index
  <1>2. PICK i \in T : \A j \in T : i <= j
    BY <1>1, LeastNatural, Zenon
  <1>3. <<0, i>> \in Clear
    BY <1>2 DEF Clear, Groups
  <1>4. \A c \in Clear : 0 < c[1] \/ (0 = c[1] /\ i <= c[2])
    BY <1>2 DEF Clear, Groups
  <1>5. FirstClear \in Clear /\ \A c \in Clear : FirstClear[1] < c[1] \/ (FirstClear[1] = c[1] /\ FirstClear[2] <= c[2])
    <2>1. \E b \in Clear : \A c \in Clear : b[1] < c[1] \/ (b[1] = c[1] /\ b[2] <= c[2])
      <3>1. \A c \in Clear : <<0, i>>[1] < c[1] \/ (<<0, i>>[1] = c[1] /\ <<0, i>>[2] <= c[2])
        BY <1>4
      <3> QED
        BY <1>3, <3>1
    <2> QED
      BY <2>1 DEF FirstClear
  <1>6. FirstClear[1] \in Groups /\ FirstClear[2] \in Index /\ FirstClear = <<FirstClear[1], FirstClear[2]>>
    BY <1>5 DEF Clear
  <1>7. FirstClear[1] = 0 /\ FirstClear[2] = i
    <2>1. FirstClear[1] < 0 \/ (FirstClear[1] = 0 /\ FirstClear[2] <= i)
      BY <1>5, <1>3
    <2>2. 0 < FirstClear[1] \/ (0 = FirstClear[1] /\ i <= FirstClear[2])
      BY <1>4, <1>5
    <2> QED
      BY <2>1, <2>2, <1>1, <1>6, GroupSizeAssumption DEF Groups, Index
  <1>8. EntryIndex(FirstClear) = i
    BY <1>7, <1>1 DEF EntryIndex
  <1>9. i \in Index /\ i \in Nat /\ <<0, i>> \notin vector_map
    BY <1>1
  <1>10. i # None
    BY <1>9, NoneAssumption
  <1>11. i \notin VectorsInUse /\ i # 0
    BY <1>9, <1>10 DEF VectorsUnique
  <1> QED
    BY <1>6, <1>7, <1>8, <1>9, <1>10, <1>11, Zenon

\* An entry is in one of the I/O APICs it was looked for in.
LEMMA EntryInOne ==
  ASSUME WellWired, NEW ks, ks \subseteq DOMAIN io_apics, ks # {}, NEW g
  PROVE  \E k \in ks : EntryIn(ks, g) = <<k, g - io_apics[k].base>>
  <1>1. ks \in SUBSET Nat
    BY Zenon DEF WellWired
  <1>2. PICK k \in ks : \A l \in ks : k <= l
    BY <1>1, LeastNatural, Zenon
  <1>3. (CHOOSE i \in ks : \A j \in ks : i <= j) = k
    BY <1>1, <1>2, LeastChosen, Zenon
  <1> QED
    BY <1>3, Zenon DEF EntryIn

\* So it is the entry of one interrupt only.
LEMMA EntryOfOne ==
  ASSUME WellWired, NEW ks, ks \subseteq DOMAIN io_apics, ks # {}, NEW g \in Nat,
         NEW ls, ls \subseteq DOMAIN io_apics, ls # {}, NEW h \in Nat,
         EntryIn(ks, g) = EntryIn(ls, h)
  PROVE  g = h
  <1>1. PICK k \in ks : EntryIn(ks, g) = <<k, g - io_apics[k].base>>
    BY EntryInOne, Zenon
  <1>2. PICK l \in ls : EntryIn(ls, h) = <<l, h - io_apics[l].base>>
    BY EntryInOne, Zenon
  <1>3. \A a, b, c, d : <<a, b>> = <<c, d>> => a = c /\ b = d
    OBVIOUS
  <1>4. <<k, g - io_apics[k].base>> = <<l, h - io_apics[l].base>>
    BY <1>1, <1>2, Zenon
  <1>5. k = l /\ g - io_apics[k].base = h - io_apics[l].base
    BY <1>3, <1>4, Zenon
  <1>6. io_apics[k].base \in Nat
    BY Zenon DEF WellWired
  <1> QED
    BY <1>5, <1>6

\* Different IRQs have different entries, also where the kernel looks for the
\* number of the IRQ to unregister it, and where the device is connected.
LEMMA EntriesDiffer ==
  ASSUME WellWired, NEW i \in Irq, NEW j \in Irq, Registers(i)
  PROVE  /\ Registers(j) /\ SlotOf(i) = SlotOf(j) => i = j
         /\ Found(j) # {} /\ SlotOf(i) = Slot(j) => i = j
         /\ SlotOf(i) = InputOf(j) => i = j
  <1>1. /\ \A g : Found(g) \subseteq DOMAIN io_apics /\ Wired(g) \subseteq DOMAIN io_apics
        /\ Found(Wire(i)) # {} /\ Wired(Wire(j)) # {} /\ (Registers(j) => Found(Wire(j)) # {})
        /\ Wire(i) \in Nat /\ Wire(j) \in Nat /\ j \in Nat
        /\ Wire(i) \in {j, Wire(j)} => i = j
    BY Zenon DEF WellWired, Registers, Found, Wired
  <1>2. ASSUME Registers(j), SlotOf(i) = SlotOf(j) PROVE i = j
    <2>1. EntryIn(Found(Wire(i)), Wire(i)) = EntryIn(Found(Wire(j)), Wire(j))
      BY <1>2, Zenon DEF SlotOf, Slot
    <2> QED
      BY <1>1, <1>2, <2>1, EntryOfOne, Zenon
  <1>3. ASSUME Found(j) # {}, SlotOf(i) = Slot(j) PROVE i = j
    <2>1. EntryIn(Found(Wire(i)), Wire(i)) = EntryIn(Found(j), j)
      BY <1>3, Zenon DEF SlotOf, Slot
    <2> QED
      BY <1>1, <1>3, <2>1, EntryOfOne, Zenon
  <1>4. ASSUME SlotOf(i) = InputOf(j) PROVE i = j
    <2>1. EntryIn(Found(Wire(i)), Wire(i)) = EntryIn(Wired(Wire(j)), Wire(j))
      BY <1>4, Zenon DEF SlotOf, Slot, InputOf, Input
    <2> QED
      BY <1>1, <2>1, EntryOfOne, Zenon
  <1> QED
    BY <1>2, <1>3, <1>4, Zenon

\* The calls leave the wiring alone.
LEMMA WiresKept ==
  ASSUME UNCHANGED tables
  PROVE  /\ WellWired' <=> WellWired
         /\ \A irq : /\ Wire(irq)' = Wire(irq) /\ Found(irq)' = Found(irq)
                     /\ SlotOf(irq)' = SlotOf(irq) /\ InputOf(irq)' = InputOf(irq)
                     /\ (Registers(irq)' <=> Registers(irq)) /\ (Reached(irq)' <=> Reached(irq))
  <1> DEFINE First(O) == CHOOSE i \in O : \A j \in O : i <= j
             FoundFor(irq) == Found(Wire(irq))
             WiredFor(irq) == Wired(Wire(irq))
  <1>0. io_apics' = io_apics /\ interrupt_source_overrides' = interrupt_source_overrides
    BY DEF tables
  <1>1. \A irq : OverridesOf(irq)' = OverridesOf(irq)
    BY <1>0 DEF OverridesOf
  <1>2. \A irq : Wire(irq)' = Wire(irq)
    <2> TAKE irq
    <2>1. Wire(irq) = IF OverridesOf(irq) = {} THEN irq
                      ELSE interrupt_source_overrides[First(OverridesOf(irq))].gsi
      BY Zenon DEF Wire
    <2>2. Wire(irq)' = IF OverridesOf(irq)' = {} THEN irq
                       ELSE interrupt_source_overrides'[First(OverridesOf(irq)')].gsi
      BY Zenon DEF Wire
    <2> HIDE DEF First
    <2> QED
      BY <1>0, <1>1, <2>1, <2>2
  <1>3. \A irq : Found(irq)' = Found(irq)
    BY <1>0 DEF Found
  <1>4. \A irq : FoundFor(irq)' = FoundFor(irq) /\ WiredFor(irq)' = WiredFor(irq)
    BY <1>0, <1>2 DEF Found, Wired
  <1>5. \A irq : SlotOf(irq)' = SlotOf(irq)
    <2> TAKE irq
    <2>1. SlotOf(irq) = <<First(FoundFor(irq)), Wire(irq) - io_apics[First(FoundFor(irq))].base>>
      BY Zenon DEF SlotOf, Slot, EntryIn
    <2>2. SlotOf(irq)' =
            <<First(FoundFor(irq)'), Wire(irq)' - io_apics'[First(FoundFor(irq)')].base>>
      BY Zenon DEF SlotOf, Slot, EntryIn
    <2> HIDE DEF First, FoundFor
    <2> QED
      BY <1>0, <1>2, <1>4, <2>1, <2>2
  <1>6. \A irq : InputOf(irq)' = InputOf(irq)
    <2> TAKE irq
    <2>1. InputOf(irq) = <<First(WiredFor(irq)), Wire(irq) - io_apics[First(WiredFor(irq))].base>>
      BY Zenon DEF InputOf, Input, EntryIn
    <2>2. InputOf(irq)' =
            <<First(WiredFor(irq)'), Wire(irq)' - io_apics'[First(WiredFor(irq)')].base>>
      BY Zenon DEF InputOf, Input, EntryIn
    <2> HIDE DEF First, WiredFor
    <2> QED
      BY <1>0, <1>2, <1>4, <2>1, <2>2
  <1>7. \A irq : Registers(irq)' <=> Registers(irq)
    BY <1>2, <1>4, Zenon DEF Registers
  <1>8. \A irq : Reached(irq)' <=> Reached(irq)
    <2> TAKE irq
    <2>1. Reached(irq) <=> Registers(irq) /\ SlotOf(irq) = InputOf(irq)
      BY Zenon DEF Reached, SlotOf, InputOf
    <2>2. Reached(irq)' <=> Registers(irq)' /\ SlotOf(irq)' = InputOf(irq)'
      BY Zenon DEF Reached, SlotOf, InputOf
    <2> QED
      BY <1>5, <1>6, <1>7, <2>1, <2>2, Zenon
  <1>9. WellWired' <=> WellWired
    BY <1>0, <1>2, <1>4, Zenon DEF WellWired
  <1> QED
    BY <1>2, <1>3, <1>5, <1>6, <1>7, <1>8, <1>9, Zenon

LEMMA RoutesInitIInv == WellWired /\ RoutesInit => IInv
  <1> SUFFICES ASSUME WellWired, RoutesInit PROVE IInv
    OBVIOUS
  <1>1. 0 \in Index /\ None \notin Nat
    <2>1. Cardinality(Irq) \in Nat
      BY GroupSizeAssumption, FS_CardinalityType
    <2> QED
      BY <2>1, GroupSizeAssumption, NoneAssumption DEF Index
  <1>2. IrqTypeOK
    <2>1. vector_map \subseteq Groups \X Index
      BY <1>1 DEF RoutesInit, Groups
    <2>2. redirect \in [DOMAIN redirect -> Index]
      BY <1>1 DEF RoutesInit
    <2>3. /\ idt \in [Index -> Handler \cup {None}]
          /\ legacy_irqs \in [Irq -> Index \cup {None}]
          /\ wanted \in [Irq -> Handler \cup {None}]
      BY DEF RoutesInit
    <2>4. timer \in Index \cup {None} /\ panicked \in BOOLEAN
      BY Zenon DEF RoutesInit
    <2> QED
      BY <2>1, <2>2, <2>3, <2>4 DEF IrqTypeOK
  <1>3. VectorsInUse \subseteq {None}
    BY DEF RoutesInit, VectorsInUse
  <1>4. VectorsUnique
    BY <1>1, <1>3 DEF RoutesInit, VectorsUnique
  <1>5. RoutesAgree
    BY Zenon DEF RoutesInit, RoutesAgree
  <1>6. EntriesUsed
    BY DEF RoutesInit, EntriesUsed
  <1> QED
    BY <1>2, <1>4, <1>5, <1>6 DEF IInv

\* Mapping an IRQ that is not mapped gives it a new vector; mapping one again
\* panics, and so does mapping one for which no I/O APIC is found.
LEMMA MapKeeps ==
  ASSUME IInv, NEW irq \in Irq, NEW handler \in Handler, MapLegacyIrq(irq, handler)
  PROVE  IInv'
  <1> USE DEF IInv
  <1>1. ~panicked
    BY DEF MapLegacyIrq
  <1>2. PICK v \in Index :
          /\ FirstClear = <<0, v>> /\ EntryIndex(FirstClear) = v
          /\ v \notin VectorsInUse /\ v # 0 /\ v # None
    BY <1>1, VectorIsNew
  <1>3. /\ vector_map' = vector_map \cup {<<0, v>>}
        /\ idt' = [idt EXCEPT ![v] = handler]
        /\ redirect' = IF Registers(irq) THEN Unmasked(SlotOf(irq), v) ELSE redirect
        /\ panicked' = (~Registers(irq) \/ legacy_irqs[irq] # None)
        /\ legacy_irqs' = [legacy_irqs EXCEPT ![irq] = IF panicked' THEN @ ELSE v]
        /\ wanted' = [wanted EXCEPT ![irq] = handler]
        /\ timer' = timer
        /\ UNCHANGED tables
    BY <1>2, Zenon DEF MapLegacyIrq, ReserveEntry, RegisterLegacyIrq, SlotOf
  <1>4. /\ WellWired'
        /\ \A i : /\ Wire(i)' = Wire(i) /\ SlotOf(i)' = SlotOf(i)
                  /\ (Registers(i)' <=> Registers(i))
    BY <1>3, WiresKept, Zenon
  <1>5. /\ redirect' \in [DOMAIN redirect' -> Index]
        /\ DOMAIN redirect' = IF Registers(irq) THEN DOMAIN redirect \cup {SlotOf(irq)}
                             ELSE DOMAIN redirect
        /\ Registers(irq) => redirect'[SlotOf(irq)] = v
        /\ \A s \in DOMAIN redirect : s # SlotOf(irq) => redirect'[s] = redirect[s]
    <2>1. redirect \in [DOMAIN redirect -> Index]
      BY Zenon DEF IrqTypeOK
    <2>2. CASE Registers(irq)
      <3>1. redirect' = [s \in DOMAIN redirect \cup {SlotOf(irq)} |->
                           IF s = SlotOf(irq) THEN v ELSE redirect[s]]
        BY <2>2, <1>3, Zenon DEF Unmasked
      <3> QED
        BY <2>1, <2>2, <3>1
    <2>3. CASE ~Registers(irq)
      BY <2>1, <2>3, <1>3, Zenon
    <2> QED
      BY <2>2, <2>3, Zenon
  <1>6. IrqTypeOK'
    <2>3. vector_map' \subseteq Groups \X Index
      BY <1>3 DEF IrqTypeOK, Groups
    <2>4. /\ idt' \in [Index -> Handler \cup {None}] /\ legacy_irqs' \in [Irq -> Index \cup {None}]
          /\ wanted' \in [Irq -> Handler \cup {None}] /\ panicked' \in BOOLEAN
      BY <1>3, Zenon DEF IrqTypeOK
    <2> QED
      BY <1>3, <1>5, <2>3, <2>4, Zenon DEF IrqTypeOK
  <1>7. handler # None
    BY NoneAssumption
  <1>8. EntriesUsed'
    <2> SUFFICES ASSUME NEW slot \in DOMAIN redirect'
                 PROVE  \E i \in Irq : /\ Registers(i) /\ slot = SlotOf(i)
                                       /\ wanted'[i] # None \/ Wire(i) # i
      BY <1>4, Zenon DEF EntriesUsed
    <2>1. wanted'[irq] # None /\ \A i \in Irq : wanted[i] # None => wanted'[i] # None
      BY <1>3, <1>7, Zenon DEF IrqTypeOK
    <2>2. CASE Registers(irq) /\ slot = SlotOf(irq)
      BY <2>1, <2>2, Zenon
    <2>3. CASE slot \in DOMAIN redirect
      BY <2>1, <2>3, Zenon DEF EntriesUsed
    <2> QED
      BY <1>5, <2>2, <2>3, Zenon
  <1> SUFFICES ASSUME ~panicked'
               PROVE  VectorsUnique' /\ RoutesAgree'
    BY <1>4, <1>6, <1>8, Zenon DEF VectorsUnique, RoutesAgree
  <1>9. /\ legacy_irqs[irq] = None /\ Registers(irq)
        /\ legacy_irqs'[irq] = v
        /\ \A i \in Irq : i # irq => legacy_irqs'[i] = legacy_irqs[i]
    BY <1>3, Zenon DEF IrqTypeOK
  <1>10. VectorsUnique'
    <2>1. VectorsInUse' \ {None} = (VectorsInUse \ {None}) \cup {v}
      BY <1>2, <1>3, <1>9 DEF VectorsInUse
    <2>2. 0 \notin VectorsInUse'
      BY <1>1, <1>2, <1>3, <1>9 DEF VectorsInUse, VectorsUnique
    <2>3. vector_map' = {<<0, 0>>} \cup {<<0, i>> : i \in VectorsInUse' \ {None}}
      BY <1>1, <1>3, <2>1, Zenon DEF VectorsUnique
    <2>4. \A i \in Irq : legacy_irqs[i] # v /\ timer # v
      BY <1>2, Zenon DEF VectorsInUse
    <2>5. \A i, j \in Irq : legacy_irqs'[i] = legacy_irqs'[j] /\ i # j => legacy_irqs'[i] = None
      BY <1>1, <1>9, <2>4, SMTT(30) DEF VectorsUnique
    <2>6. \A i \in Irq : timer' # None => legacy_irqs'[i] # timer'
      BY <1>1, <1>3, <1>9, <2>4, Zenon DEF VectorsUnique
    <2> QED
      BY <2>2, <2>3, <2>5, <2>6 DEF VectorsUnique
  <1>11. RoutesAgree'
    <2> SUFFICES ASSUME NEW i \in Irq
                 PROVE  /\ wanted'[i] = None <=> legacy_irqs'[i] = None
                        /\ legacy_irqs'[i] # None => Routed(i)'
      BY Zenon DEF RoutesAgree
    <2>1. CASE i = irq
      <3>1. wanted'[irq] = handler /\ idt'[v] = handler
        BY <1>3, Zenon DEF IrqTypeOK
      <3>2. SlotOf(irq) \in DOMAIN redirect' /\ redirect'[SlotOf(irq)] = v
        BY <1>5, <1>9, Zenon
      <3> QED
        BY <2>1, <3>1, <3>2, <1>2, <1>4, <1>9, <1>7, Zenon DEF Routed
    <2>2. CASE i # irq
      <3>1. wanted'[i] = wanted[i] /\ legacy_irqs'[i] = legacy_irqs[i]
        BY <2>2, <1>3, <1>9, Zenon DEF IrqTypeOK
      <3>2. legacy_irqs[i] # v
        BY <1>2, Zenon DEF VectorsInUse
      <3>3. Registers(i) /\ SlotOf(i) \in DOMAIN redirect =>
              SlotOf(i) \in DOMAIN redirect' /\ redirect'[SlotOf(i)] = redirect[SlotOf(i)]
        BY <2>2, <1>5, <1>9, EntriesDiffer, Zenon
      <3>4. legacy_irqs[i] # None => idt'[legacy_irqs[i]] = idt[legacy_irqs[i]]
        BY <3>2, <1>3, Zenon DEF IrqTypeOK
      <3> QED
        BY <3>1, <3>3, <3>4, <1>1, <1>4, Zenon DEF RoutesAgree, Routed
    <2> QED
      BY <2>1, <2>2, Zenon
  <1> QED
    BY <1>10, <1>11, Zenon

\* A vector of the first group is freed in the first group.
LEMMA FirstGroup ==
  ASSUME NEW v \in Index
  PROVE  v \div GroupSize = 0 /\ v % GroupSize = v
  <1>1. v \in Nat /\ GroupSize \in Nat /\ v < GroupSize
    BY GroupSizeAssumption DEF Index
  <1> QED
    BY <1>1

\* Unmapping an IRQ gives its vector back, and masks the interrupt of its own
\* number.
LEMMA UnmapKeeps ==
  ASSUME IInv, NEW irq \in Irq, UnmapLegacyId(irq)
  PROVE  IInv'
  <1> USE DEF IInv
  <1> DEFINE v == legacy_irqs[irq]
  <1>1. ~panicked /\ v \in Index /\ v # None
    BY Zenon DEF UnmapLegacyId, IrqTypeOK
  <1>2. /\ vector_map' = vector_map \ {<<0, v>>}
        /\ idt' = [idt EXCEPT ![v] = None]
        /\ redirect' = [s \in DOMAIN redirect \ {Slot(irq)} |-> redirect[s]] /\ Found(irq) # {}
        /\ legacy_irqs' = [legacy_irqs EXCEPT ![irq] = None]
        /\ wanted' = [wanted EXCEPT ![irq] = None]
        /\ timer' = timer /\ panicked' = panicked
        /\ UNCHANGED tables
    BY <1>1, FirstGroup, Zenon DEF UnmapLegacyId, UnregisterLegacyIrq, FreeEntry
  <1>3. /\ WellWired'
        /\ \A i : /\ Wire(i)' = Wire(i) /\ SlotOf(i)' = SlotOf(i)
                  /\ (Registers(i)' <=> Registers(i))
    BY <1>2, WiresKept, Zenon
  <1>4. /\ legacy_irqs'[irq] = None /\ wanted'[irq] = None
        /\ \A i \in Irq : i # irq => legacy_irqs'[i] = legacy_irqs[i] /\ wanted'[i] = wanted[i]
    BY <1>2 DEF IrqTypeOK
  <1>5. /\ \A i \in Irq : i # irq => legacy_irqs[i] # v
        /\ timer # v /\ v # 0 /\ 0 \notin VectorsInUse
    BY <1>1, Zenon DEF VectorsUnique, VectorsInUse
  <1>6. IrqTypeOK'
    <2>2. redirect' \in [DOMAIN redirect' -> Index]
      BY <1>2 DEF IrqTypeOK
    <2>3. vector_map' \subseteq Groups \X Index
      BY <1>2, Zenon DEF IrqTypeOK
    <2>4. /\ idt' \in [Index -> Handler \cup {None}]
          /\ legacy_irqs' \in [Irq -> Index \cup {None}]
          /\ wanted' \in [Irq -> Handler \cup {None}]
      BY <1>2, Zenon DEF IrqTypeOK
    <2> QED
      BY <1>2, <2>2, <2>3, <2>4 DEF IrqTypeOK
  <1>7. VectorsUnique'
    <2>1. VectorsInUse' \ {None} = (VectorsInUse \ {None}) \ {v}
      <3> HIDE DEF v
      <3>1. VectorsInUse = {legacy_irqs[i] : i \in Irq} \cup {timer}
        BY DEF VectorsInUse
      <3>2. VectorsInUse' = {legacy_irqs'[i] : i \in Irq} \cup {timer}
        BY <1>2 DEF VectorsInUse
      <3>3. legacy_irqs[irq] = v
        BY DEF v
      <3> QED
        BY <3>1, <3>2, <3>3, <1>4, <1>5
    <2>2. 0 # None
      BY NoneAssumption
    <2>3. 0 \notin VectorsInUse'
      BY <1>5, <2>1, <2>2, Zenon
    <2>4. vector_map' = {<<0, 0>>} \cup {<<0, i>> : i \in VectorsInUse' \ {None}}
      <3> HIDE DEF v
      <3>1. vector_map = {<<0, 0>>} \cup {<<0, i>> : i \in VectorsInUse \ {None}}
        BY <1>1, Zenon DEF VectorsUnique
      <3> QED
        BY <3>1, <1>2, <1>5, <2>1
    <2>5. \A i, j \in Irq : legacy_irqs'[i] = legacy_irqs'[j] /\ i # j => legacy_irqs'[i] = None
      BY <1>1, <1>4, SMTT(30) DEF VectorsUnique
    <2>6. \A i \in Irq : timer' # None => legacy_irqs'[i] # timer'
      BY <1>1, <1>2, <1>4, Zenon DEF VectorsUnique
    <2> QED
      BY <2>3, <2>4, <2>5, <2>6 DEF VectorsUnique
  <1>8. RoutesAgree'
    <2> SUFFICES ASSUME NEW i \in Irq
                 PROVE  /\ wanted'[i] = None <=> legacy_irqs'[i] = None
                        /\ legacy_irqs'[i] # None => Routed(i)'
      BY DEF RoutesAgree
    <2>1. CASE i = irq
      BY <2>1, <1>4, Zenon
    <2>2. CASE i # irq
      <3>1. Registers(i) /\ SlotOf(i) \in DOMAIN redirect =>
              SlotOf(i) \in DOMAIN redirect' /\ redirect'[SlotOf(i)] = redirect[SlotOf(i)]
        <4>1. Registers(i) => SlotOf(i) # Slot(irq)
          BY <2>2, <1>2, EntriesDiffer, Zenon
        <4> QED
          BY <4>1, <1>2
      <3>2. legacy_irqs[i] # None => idt'[legacy_irqs[i]] = idt[legacy_irqs[i]]
        BY <2>2, <1>2, <1>5, Zenon DEF IrqTypeOK
      <3> QED
        BY <2>2, <3>1, <3>2, <1>1, <1>3, <1>4, Zenon DEF RoutesAgree, Routed
    <2> QED
      BY <2>1, <2>2, Zenon
  <1>9. EntriesUsed'
    <2> SUFFICES ASSUME NEW slot \in DOMAIN redirect'
                 PROVE  \E i \in Irq : /\ Registers(i) /\ slot = SlotOf(i)
                                       /\ wanted'[i] # None \/ Wire(i) # i
      BY <1>3, Zenon DEF EntriesUsed
    <2>1. slot \in DOMAIN redirect /\ slot # Slot(irq)
      BY <1>2
    <2>2. PICK i \in Irq : Registers(i) /\ slot = SlotOf(i) /\ (wanted[i] # None \/ Wire(i) # i)
      BY <2>1, Zenon DEF EntriesUsed
    <2>3. i = irq => Wire(i) # i
      BY <2>1, <2>2, Zenon DEF SlotOf
    <2> QED
      BY <2>2, <2>3, <1>4, Zenon
  <1> QED
    BY <1>3, <1>6, <1>7, <1>8, <1>9

LEMMA UnmapPanicsKeeps ==
  ASSUME IInv, NEW irq \in Irq, UnmapPanics(irq)
  PROVE  IInv'
  <1>1. /\ panicked' = TRUE /\ legacy_irqs' = [legacy_irqs EXCEPT ![irq] = None]
        /\ UNCHANGED <<tables, vector_map, idt, redirect, timer, wanted>>
    BY DEF UnmapPanics
  <1>2. WellWired' /\ EntriesUsed'
    BY <1>1, WiresKept, Zenon DEF IInv, EntriesUsed
  <1>3. IrqTypeOK'
    BY <1>1 DEF IInv, IrqTypeOK
  <1> QED
    BY <1>1, <1>2, <1>3 DEF IInv, VectorsUnique, RoutesAgree

\* The timer gets a vector that no IRQ has.
LEMMA TimerSetupKeeps ==
  ASSUME IInv, TimerSetup
  PROVE  IInv'
  <1> USE DEF IInv
  <1>1. ~panicked /\ timer = None
    BY DEF TimerSetup
  <1>2. PICK v \in Index :
          /\ FirstClear = <<0, v>> /\ EntryIndex(FirstClear) = v
          /\ v \notin VectorsInUse /\ v # 0 /\ v # None
    BY <1>1, VectorIsNew
  <1>3. /\ vector_map' = vector_map \cup {<<0, v>>} /\ timer' = v
        /\ UNCHANGED <<tables, idt, redirect, legacy_irqs, wanted, panicked>>
    BY <1>2 DEF TimerSetup, ReserveEntry
  <1>4. /\ WellWired'
        /\ \A i : /\ Wire(i)' = Wire(i) /\ SlotOf(i)' = SlotOf(i)
                  /\ (Registers(i)' <=> Registers(i))
    BY <1>3, WiresKept, Zenon
  <1>5. IrqTypeOK'
    <2>1. vector_map' \subseteq Groups \X Index
      BY <1>3 DEF IrqTypeOK, Groups
    <2> QED
      BY <1>3, <2>1 DEF IrqTypeOK
  <1>6. VectorsUnique'
    <2>1. VectorsInUse' \ {None} = (VectorsInUse \ {None}) \cup {v}
      BY <1>1, <1>2, <1>3, Zenon DEF VectorsInUse
    <2>2. 0 \notin VectorsInUse'
      BY <1>1, <1>2, <1>3, Zenon DEF VectorsInUse, VectorsUnique
    <2>3. \A i \in Irq : legacy_irqs[i] # v
      BY <1>2, Zenon DEF VectorsInUse
    <2> QED
      BY <1>1, <1>3, <2>1, <2>2, <2>3, Zenon DEF VectorsUnique
  <1>7. RoutesAgree' /\ EntriesUsed'
    BY <1>3, <1>4, Zenon DEF RoutesAgree, Routed, EntriesUsed
  <1> QED
    BY <1>4, <1>5, <1>6, <1>7

\* The timer's handler replaces none of an IRQ.
LEMMA SetInterruptTypeKeeps ==
  ASSUME IInv, NEW handler \in Handler, SetInterruptType(handler)
  PROVE  IInv'
  <1> USE DEF IInv
  <1>1. /\ ~panicked /\ timer # None
        /\ idt' = [idt EXCEPT ![timer] = handler]
        /\ UNCHANGED <<tables, vector_map, redirect, legacy_irqs, timer, wanted, panicked>>
    BY DEF SetInterruptType
  <1>2. /\ WellWired'
        /\ \A i : /\ Wire(i)' = Wire(i) /\ SlotOf(i)' = SlotOf(i)
                  /\ (Registers(i)' <=> Registers(i))
    BY <1>1, WiresKept, Zenon
  <1>3. IrqTypeOK'
    BY <1>1, Zenon DEF IrqTypeOK
  <1>4. VectorsUnique'
    BY <1>1, Zenon DEF VectorsUnique, VectorsInUse
  <1>5. EntriesUsed'
    BY <1>1, <1>2, Zenon DEF EntriesUsed
  <1>6. \A i \in Irq : legacy_irqs[i] # None => idt'[legacy_irqs[i]] = idt[legacy_irqs[i]]
    BY <1>1, Zenon DEF IrqTypeOK, VectorsUnique
  <1>7. RoutesAgree'
    BY <1>1, <1>2, <1>6, Zenon DEF RoutesAgree, Routed
  <1> QED
    BY <1>2, <1>3, <1>4, <1>5, <1>7, Zenon

LEMMA IrqStep == IInv /\ [IrqNext]_irqVars => IInv'
  <1> SUFFICES ASSUME IInv, [IrqNext]_irqVars PROVE IInv'
    BY Zenon
  <1>1. CASE IrqNext
    BY <1>1, MapKeeps, UnmapKeeps, UnmapPanicsKeeps, TimerSetupKeeps, SetInterruptTypeKeeps,
       Zenon DEF IrqNext
  <1>2. CASE UNCHANGED irqVars
    <2>1. /\ UNCHANGED tables
          /\ UNCHANGED <<vector_map, idt, redirect, legacy_irqs, timer, wanted, panicked>>
      BY <1>2, Zenon DEF irqVars, routes
    <2>2. /\ WellWired'
          /\ \A i : /\ Wire(i)' = Wire(i) /\ SlotOf(i)' = SlotOf(i)
                    /\ (Registers(i)' <=> Registers(i))
      BY <2>1, WiresKept, Zenon DEF IInv
    <2>3. IrqTypeOK' /\ VectorsUnique'
      BY <2>1 DEF IInv, IrqTypeOK, VectorsUnique, VectorsInUse
    <2>4. RoutesAgree' /\ EntriesUsed'
      BY <2>1, <2>2, Zenon DEF IInv, RoutesAgree, Routed, EntriesUsed
    <2> QED
      BY <2>2, <2>3, <2>4, Zenon DEF IInv
  <1> QED
    BY <1>1, <1>2

LEMMA IrqInvariant == IrqSpec => []IInv
  BY RoutesInitIInv, IrqStep, PTL DEF IrqSpec

\* However often IRQs are mapped and unmapped, the vectors in use are different,
\* and interrupt_vector_map has a bit set for each of them and for no other but
\* the first.
THEOREM VectorsStayUnique == IrqSpec => []VectorsUnique
  BY IrqInvariant, PTL DEF IInv

\* The entry that a device drives is not masked only if the kernel has found it
\* for the device's IRQ.
LEMMA InputUsed ==
  ASSUME IInv, NEW irq \in Irq, InputOf(irq) \in DOMAIN redirect
  PROVE  /\ Reached(irq) /\ SlotOf(irq) = InputOf(irq)
         /\ wanted[irq] # None \/ Wire(irq) # irq
  <1>1. PICK i \in Irq : /\ Registers(i) /\ InputOf(irq) = SlotOf(i)
                         /\ wanted[i] # None \/ Wire(i) # i
    BY Zenon DEF IInv, EntriesUsed
  <1>2. i = irq
    BY <1>1, EntriesDiffer, Zenon DEF IInv
  <1> QED
    BY <1>1, <1>2, Zenon DEF Reached, SlotOf, InputOf

LEMMA AgreeIsRouted == IInv => RoutedToHandler
  <1> SUFFICES ASSUME IInv, ~panicked, NEW irq \in Irq, wanted[irq] # None, Reached(irq)
               PROVE  InputOf(irq) \in DOMAIN redirect /\ idt[redirect[InputOf(irq)]] = wanted[irq]
    BY Zenon DEF RoutedToHandler, InputOf
  <1>1. Routed(irq)
    BY Zenon DEF IInv, RoutesAgree
  <1>2. InputOf(irq) = SlotOf(irq)
    BY Zenon DEF Reached, SlotOf, InputOf
  <1> QED
    BY <1>1, <1>2, Zenon DEF Routed

LEMMA UsedIsMasked == IInv => UnmappedIsMasked
  <1> SUFFICES ASSUME IInv, NEW irq \in Irq, wanted[irq] = None, Wire(irq) = irq,
                      Input(irq) \in DOMAIN redirect
               PROVE  FALSE
    BY Zenon DEF UnmappedIsMasked
  <1>1. InputOf(irq) = Input(irq)
    BY Zenon DEF InputOf
  <1> QED
    BY <1>1, InputUsed, Zenon

\* The interrupt of a device whose IRQ is mapped reaches the handler that was
\* mapped for it, whatever is mapped and unmapped besides: through the override
\* of the MADT, the redirection entry and the IDT.  It does so if the entry that
\* register_legacy_irq finds is the one of the device, for whatever the I/O APICs
\* hold in place of their number of redirection entries.
THEOREM MappedIsRouted == IrqSpec => []RoutedToHandler
  BY AgreeIsRouted, IrqInvariant, PTL

\* The interrupt of an IRQ that is not mapped is masked, if it is not moved to
\* another input, and also if the kernel looks for it at the wrong I/O APIC.
THEOREM UnmappedStaysMasked == IrqSpec => []UnmappedIsMasked
  BY UsedIsMasked, IrqInvariant, PTL

-----------------------------------------------------------------------------
\* The tables of the kernel list the entries that the iterator has passed, in
\* their order.

Passed(type) == {o \in EntriesOf(type) : o < current_header}

\* f numbers the offsets of a set in their order.
Numbers(f, n, P) ==
  /\ f \in [1 .. n -> P]
  /\ \A i, j \in 1 .. n : i < j => f[i] < f[j]
  /\ \A o \in P : \E i \in 1 .. n : f[i] = o

\* A list has the items of the offsets of a set, in the order of the offsets.
Listed(list, P, item) ==
  /\ \E S : list \in Seq(S)
  /\ \E f : Numbers(f, Len(list), P) /\ \A i \in 1 .. Len(list) : list[i] = item[f[i]]

\* What init_from_madt takes from an entry.
IoApicItem ==
  [o \in DOMAIN madt.at |-> IoApic(madt.at[o])]
OverrideItem ==
  [o \in DOMAIN madt.at |-> [irq_source |-> madt.at[o].irq_source, gsi |-> madt.at[o].gsi]]

TablesRead ==
  /\ madt \in Madts
  /\ current_header \in DOMAIN madt.at \cup {madt.length}
  /\ Listed(io_apics, Passed("io_apic"), IoApicItem)
  /\ Listed(interrupt_source_overrides, Passed("override"), OverrideItem)
  /\ pc # "madt" => current_header = madt.length

\* The next entry is appended to the list.
LEMMA ListedAppend ==
  ASSUME NEW list, NEW P, NEW item, Listed(list, P, item),
         P \subseteq Nat, NEW h \in Nat, \A p \in P : p < h
  PROVE  Listed(Append(list, item[h]), P \cup {h}, item)
  <1> DEFINE n == Len(list)
             x == item[h]
             longer == Append(list, x)
  <1>1. PICK S : list \in Seq(S)
    BY Zenon DEF Listed
  <1>2. PICK f : Numbers(f, n, P) /\ \A i \in 1 .. n : list[i] = item[f[i]]
    BY DEF Listed
  <1>3. list \in Seq(S \cup {x}) /\ n \in Nat
    BY <1>1
  <1>4. /\ longer \in Seq(S \cup {x}) /\ Len(longer) = n + 1
        /\ \A i \in 1 .. n : longer[i] = list[i]
        /\ longer[n + 1] = x
    <2> HIDE DEF x
    <2> QED
      BY <1>3
  <1> DEFINE g == [i \in 1 .. n + 1 |-> IF i = n + 1 THEN h ELSE f[i]]
  <1> HIDE DEF n, x, longer
  <1>5. g[n + 1] = h /\ \A i \in 1 .. n : g[i] = f[i] /\ f[i] \in P
    BY <1>2, <1>3 DEF Numbers
  <1>6. g \in [1 .. n + 1 -> P \cup {h}]
    BY <1>2, <1>3 DEF Numbers
  <1>7. \A i \in 1 .. n + 1 : i = n + 1 \/ i \in 1 .. n
    BY <1>3
  <1> HIDE DEF g
  <1>8. ASSUME NEW i \in 1 .. n + 1, NEW j \in 1 .. n + 1, i < j
        PROVE  g[i] < g[j]
    <2>1. i \in 1 .. n
      BY <1>3, <1>8
    <2>2. CASE j = n + 1
      BY <2>1, <2>2, <1>5, Zenon
    <2>3. CASE j \in 1 .. n
      BY <2>1, <2>3, <1>2, <1>5, <1>8 DEF Numbers
    <2> QED
      BY <2>2, <2>3, <1>7, Zenon
  <1>9. ASSUME NEW o \in P \cup {h}
        PROVE  \E i \in 1 .. n + 1 : g[i] = o
    <2>1. CASE o = h
      <3>1. n + 1 \in 1 .. n + 1
        BY <1>3
      <3> QED
        BY <2>1, <3>1, <1>5, Zenon
    <2>2. CASE o \in P
      <3>1. PICK i \in 1 .. n : f[i] = o
        BY <2>2, <1>2, Zenon DEF Numbers
      <3>2. i \in 1 .. n + 1
        BY <1>3
      <3> QED
        BY <3>1, <3>2, <1>5, Zenon
    <2> QED
      BY <2>1, <2>2
  <1>10. Numbers(g, n + 1, P \cup {h})
    BY <1>6, <1>8, <1>9, Zenon DEF Numbers
  <1>11. \A i \in 1 .. n + 1 : longer[i] = item[g[i]]
    BY <1>2, <1>4, <1>5, <1>7, Zenon DEF x
  <1>12. Listed(longer, P \cup {h}, item)
    BY <1>4, <1>10, <1>11 DEF Listed
  <1> QED
    BY <1>12, Zenon DEF longer, x

\* A list has as many items as there are offsets.
LEMMA ListedCount ==
  ASSUME NEW list, NEW P, NEW item, Listed(list, P, item), P \subseteq Nat
  PROVE  Len(list) = Cardinality(P)
  <1> DEFINE n == Len(list)
  <1>1. n \in Nat
    BY DEF Listed
  <1>2. PICK f : Numbers(f, n, P)
    BY Zenon DEF Listed
  <1> HIDE DEF n
  <1>3. f \in Surjection(1 .. n, P)
    BY <1>2, Zenon DEF Numbers, Surjection
  <1>4. f \in Injection(1 .. n, P)
    <2> SUFFICES ASSUME NEW i \in 1 .. n, NEW j \in 1 .. n, f[i] = f[j] PROVE i = j
      BY <1>2, Zenon DEF Numbers, Injection, IsInjective
    <2>1. f[i] \in P /\ i \in Nat /\ j \in Nat
      BY <1>1, <1>2 DEF Numbers
    <2>2. ~(i < j) /\ ~(j < i)
      <3>1. f[i] \in Nat
        BY <2>1, Zenon
      <3> QED
        BY <3>1, <1>2 DEF Numbers
    <2> QED
      BY <2>1, <2>2, SMTT(30)
  <1>5. ExistsBijection(1 .. n, P)
    BY <1>3, <1>4, SMTT(30) DEF ExistsBijection, Bijection
  <1> QED
    BY <1>1, <1>5, FS_CountingElements, Zenon DEF n

\* Every entry starts before the end of the table.
LEMMA EntriesInside ==
  ASSUME madt \in Madts
  PROVE  /\ madt.length \in Nat /\ DOMAIN madt.at \subseteq Nat
         /\ \A o \in DOMAIN madt.at : o < madt.length - 1
  <1>1. WellFormed(madt)
    BY MadtAssumption, Zenon
  <1>2. ASSUME NEW o \in DOMAIN madt.at
        PROVE  o < madt.length - 1
    <2>1. /\ o \in Nat /\ madt.length \in Nat
          /\ madt.at[o].length \in Nat /\ madt.at[o].length >= 2
          /\ o + madt.at[o].length <= madt.length
      BY <1>1, Zenon DEF WellFormed
    <2> QED
      BY <2>1, SMTT(30)
  <1> QED
    BY <1>1, <1>2 DEF WellFormed

LEMMA TablesInit == Init => TablesRead
  <1> SUFFICES ASSUME Init PROVE TablesRead
    OBVIOUS
  <1>1. /\ madt \in Madts /\ pc = "madt" /\ current_header = MadtSize
        /\ io_apics = <<>> /\ interrupt_source_overrides = <<>>
    BY SMTT(30) DEF Init, MadtInit
  <1>2. /\ current_header \in DOMAIN madt.at \cup {madt.length}
        /\ \A o \in DOMAIN madt.at : o \in Nat /\ o >= MadtSize
    BY <1>1, MadtAssumption DEF WellFormed
  <1>3. \A type : Passed(type) = {}
    BY <1>1, <1>2 DEF Passed, EntriesOf, MadtSize
  <1>4. \A item : Listed(<<>>, {}, item)
    <2> TAKE item
    <2>1. <<>> \in Seq({}) /\ Len(<<>>) = 0
      OBVIOUS
    <2>2. Numbers(<<>>, 0, {})
      BY SMTT(30) DEF Numbers
    <2> QED
      BY <2>1, <2>2 DEF Listed
  <1> QED
    BY <1>1, <1>2, <1>3, <1>4, Zenon DEF TablesRead

\* An iteration of the loop of init_from_madt: the iterator goes on to the next
\* entry, and what it takes is appended.
LEMMA EntryRead ==
  ASSUME TablesRead, NextEntry
  PROVE  TablesRead'
  <1> DEFINE h == current_header
             e == madt.at[h]
  <1>1. /\ madt \in Madts /\ madt' = madt /\ pc' = pc /\ pc = "madt"
        /\ h < madt.length - 1
        /\ current_header' = h + e.length
    BY Zenon DEF TablesRead, NextEntry, MoreEntries, EndAddress, EntryAt
  <1>2. h \in DOMAIN madt.at /\ h \in Nat
    BY <1>1, EntriesInside, SMTT(30) DEF TablesRead
  <1>3. /\ e.length \in Nat /\ e.length >= 2
        /\ h + e.length \in DOMAIN madt.at \cup {madt.length}
        /\ \A p \in DOMAIN madt.at : p \in Nat /\ (p > h => p >= h + e.length)
    <2>1. WellFormed(madt)
      BY <1>1, MadtAssumption, Zenon
    <2> QED
      BY <2>1, <1>2, Zenon DEF WellFormed
  <1>4. ASSUME NEW type
        PROVE  /\ e.type = type => Passed(type)' = Passed(type) \cup {h}
               /\ e.type # type => Passed(type)' = Passed(type)
               /\ Passed(type) \subseteq Nat /\ \A p \in Passed(type) : p < h
    <2>1. Passed(type) = {o \in DOMAIN madt.at : madt.at[o].type = type /\ o < h}
      BY Zenon DEF Passed, EntriesOf
    <2>2. Passed(type)' = {o \in DOMAIN madt.at : madt.at[o].type = type /\ o < h + e.length}
      BY <1>1, Zenon DEF Passed, EntriesOf
    <2>3. \A o \in DOMAIN madt.at : o < h + e.length <=> (o < h \/ o = h)
      BY <1>2, <1>3
    <2> HIDE DEF h, e
    <2>4. e = madt.at[h]
      BY Zenon DEF e
    <2> QED
      BY <1>2, <1>3, <2>1, <2>2, <2>3, <2>4, Zenon
  <1>5. IoApicItem' = IoApicItem /\ OverrideItem' = OverrideItem
    BY <1>1, Zenon DEF IoApicItem, OverrideItem
  <1>6. Listed(io_apics, Passed("io_apic"), IoApicItem)'
    <2>1. CASE e.type = "io_apic"
      <3>1. io_apics' = Append(io_apics, IoApic(e))
        BY <2>1 DEF NextEntry, EntryAt
      <3>2. IoApicItem[h] = IoApic(e)
        BY <1>2 DEF IoApicItem
      <3>3. Listed(io_apics, Passed("io_apic"), IoApicItem)
        BY Zenon DEF TablesRead
      <3>4. Passed("io_apic") \subseteq Nat /\ \A p \in Passed("io_apic") : p < h
        BY <1>4, Zenon
      <3>5. Passed("io_apic")' = Passed("io_apic") \cup {h}
        BY <1>4, <2>1, Zenon
      <3> HIDE DEF h, e
      <3>6. Listed(Append(io_apics, IoApicItem[h]), Passed("io_apic") \cup {h}, IoApicItem)
        BY <3>3, <3>4, <1>2, ListedAppend, Zenon
      <3> QED
        BY <3>1, <3>2, <3>5, <3>6, <1>5, Zenon
    <2>2. CASE e.type # "io_apic"
      <3>1. io_apics' = io_apics
        BY <2>2, Zenon DEF NextEntry, EntryAt
      <3> QED
        BY <3>1, <2>2, <1>4, <1>5, Zenon DEF TablesRead
    <2> QED
      BY <2>1, <2>2, Zenon
  <1>7. Listed(interrupt_source_overrides, Passed("override"), OverrideItem)'
    <2>1. CASE e.type = "override"
      <3>1. interrupt_source_overrides' =
              Append(interrupt_source_overrides, [irq_source |-> e.irq_source, gsi |-> e.gsi])
        BY <2>1 DEF NextEntry, EntryAt
      <3>2. OverrideItem[h] = [irq_source |-> e.irq_source, gsi |-> e.gsi]
        BY <1>2 DEF OverrideItem
      <3>3. Listed(interrupt_source_overrides, Passed("override"), OverrideItem)
        BY Zenon DEF TablesRead
      <3>4. Passed("override") \subseteq Nat /\ \A p \in Passed("override") : p < h
        BY <1>4, Zenon
      <3>5. Passed("override")' = Passed("override") \cup {h}
        BY <1>4, <2>1, Zenon
      <3> HIDE DEF h, e
      <3>6. Listed(Append(interrupt_source_overrides, OverrideItem[h]),
                   Passed("override") \cup {h}, OverrideItem)
        BY <3>3, <3>4, <1>2, ListedAppend, Zenon
      <3> QED
        BY <3>1, <3>2, <3>5, <3>6, <1>5, Zenon
    <2>2. CASE e.type # "override"
      <3>1. interrupt_source_overrides' = interrupt_source_overrides
        BY <2>2, Zenon DEF NextEntry, EntryAt
      <3> QED
        BY <3>1, <2>2, <1>4, <1>5, Zenon DEF TablesRead
    <2> QED
      BY <2>1, <2>2, Zenon
  <1> QED
    BY <1>1, <1>3, <1>6, <1>7, Zenon DEF TablesRead

\* Steps that leave the tables and the iterator alone.
LEMMA TablesLeft ==
  ASSUME TablesRead, UNCHANGED <<madtVars, tables>>,
         pc' # "madt" => current_header = madt.length
  PROVE  TablesRead'
  <1>1. /\ madt' = madt /\ current_header' = current_header /\ io_apics' = io_apics
        /\ interrupt_source_overrides' = interrupt_source_overrides
    BY Zenon DEF madtVars, tables
  <1>2. /\ Passed("io_apic")' = Passed("io_apic") /\ Passed("override")' = Passed("override")
        /\ IoApicItem' = IoApicItem /\ OverrideItem' = OverrideItem
    BY <1>1, Zenon DEF Passed, EntriesOf, IoApicItem, OverrideItem
  <1> QED
    BY <1>1, <1>2 DEF TablesRead

\* The iterator stops at the end of the table.
LEMMA EntriesDoneAtEnd ==
  ASSUME TablesRead, EntriesDone
  PROVE  current_header = madt.length
  <1>1. ~(current_header < madt.length - 1)
    BY Zenon DEF EntriesDone, MoreEntries, EndAddress
  <1> QED
    BY <1>1, EntriesInside, Zenon DEF TablesRead

\* When the iterator is done, every entry has been passed.
LEMMA AllPassed ==
  ASSUME madt \in Madts, current_header = madt.length, NEW type
  PROVE  Passed(type) = EntriesOf(type) /\ EntriesOf(type) \subseteq Nat
  <1>1. \A o \in DOMAIN madt.at : o \in Nat /\ o < madt.length
    BY EntriesInside
  <1> QED
    BY <1>1, Zenon DEF Passed, EntriesOf

\* Then the kernel finds for an IRQ the interrupt that the table tells.
LEMMA WireFollows ==
  ASSUME TablesRead, current_header = madt.length, NEW irq
  PROVE  Wire(irq) = FirmwareWire(madt, irq)
  <1> DEFINE list == interrupt_source_overrides
             n == Len(list)
             P == EntriesOf("override")
             I == OverridesOf(irq)
             O == Overriding(madt, irq)
             First(S) == CHOOSE i \in S : \A j \in S : i <= j
  <1>1. madt \in Madts
    BY Zenon DEF TablesRead
  <1>2. Passed("override") = P /\ P \subseteq Nat
    BY <1>1, AllPassed, Zenon
  <1>3. Listed(list, P, OverrideItem)
    BY <1>2, Zenon DEF TablesRead
  <1>4. n \in Nat /\ DOMAIN list = 1 .. n
    BY <1>3 DEF Listed
  <1>5. PICK f : Numbers(f, n, P) /\ \A i \in 1 .. n : list[i] = OverrideItem[f[i]]
    BY <1>3, Zenon DEF Listed
  <1>6. \A i \in 1 .. n :
          /\ f[i] \in P /\ f[i] \in Nat
          /\ list[i].irq_source = madt.at[f[i]].irq_source
          /\ list[i].gsi = madt.at[f[i]].gsi
    <2> TAKE i \in 1 .. n
    <2>1. f[i] \in P /\ f[i] \in DOMAIN madt.at
      BY <1>5, Zenon DEF Numbers, EntriesOf
    <2>2. list[i] = [irq_source |-> madt.at[f[i]].irq_source, gsi |-> madt.at[f[i]].gsi]
      BY <1>5, <2>1, Zenon DEF OverrideItem
    <2> QED
      BY <2>1, <2>2, <1>2, SMTT(30)
  <1>7. I = {i \in 1 .. n : madt.at[f[i]].irq_source = irq}
    BY <1>4, <1>6 DEF OverridesOf
  <1>8. O = {o \in P : madt.at[o].irq_source = irq}
    BY DEF Overriding, EntriesOf
  <1>9. /\ \A i \in I : f[i] \in O
        /\ \A o \in O : \E i \in I : f[i] = o
    BY <1>5, <1>6, <1>7, <1>8, Zenon DEF Numbers
  <1>10. /\ Wire(irq) = IF I = {} THEN irq ELSE list[First(I)].gsi
         /\ FirmwareWire(madt, irq) = IF O = {} THEN irq ELSE madt.at[First(O)].gsi
    BY Zenon DEF Wire, FirmwareWire
  <1>11. CASE I = {}
    BY <1>9, <1>10, <1>11, Zenon
  <1>12. CASE I # {}
    <2>1. I \subseteq Nat /\ I \subseteq 1 .. n
      BY <1>4, <1>7, SMTT(30)
    <2>2. PICK first \in I : \A j \in I : first <= j
      BY <1>12, <2>1, LeastNatural, Zenon
    <2>3. First(I) = first
      <3> HIDE DEF I
      <3> QED
        BY <2>1, <2>2, LeastChosen, Zenon
    <2>4. O \subseteq Nat /\ f[first] \in O
      BY <1>2, <1>8, <1>9, Zenon
    <2>5. \A o \in O : f[first] <= o
      <3> TAKE o \in O
      <3>1. PICK j \in I : f[j] = o
        BY <1>9, Zenon
      <3>2. first \in 1 .. n /\ j \in 1 .. n /\ (first = j \/ first < j)
        BY <2>1, <2>2, SMTT(30)
      <3>3. f[first] \in Nat /\ f[j] \in Nat
        BY <3>2, <1>6, Zenon
      <3>4. first < j => f[first] < f[j]
        BY <3>2, <1>5, Zenon DEF Numbers
      <3> QED
        BY <3>1, <3>2, <3>3, <3>4, SMTT(30)
    <2>6. First(O) = f[first]
      <3> HIDE DEF O
      <3> QED
        BY <2>4, <2>5, LeastChosen, Zenon
    <2>7. O # {}
      BY <2>4
    <2>8. list[first].gsi = madt.at[f[first]].gsi
      BY <2>1, <1>6
    <2> HIDE DEF First, I, O, list
    <2> QED
      BY <1>10, <1>12, <2>3, <2>6, <2>7, <2>8, Zenon
  <1> QED
    BY <1>11, <1>12, Zenon

\* So the wiring which the kernel knows is the one that the firmware guarantees.
LEMMA TablesWellWired ==
  ASSUME TablesRead, current_header = madt.length
  PROVE  WellWired
  <1>1. madt \in Madts
    BY DEF TablesRead
  <1>2. \A irq : Wire(irq) = FirmwareWire(madt, irq)
    BY WireFollows, Zenon
  <1>3. Listed(io_apics, EntriesOf("io_apic"), IoApicItem)
    BY <1>1, AllPassed, Zenon DEF TablesRead
  <1>4. DOMAIN io_apics = 1 .. Len(io_apics) /\ Len(io_apics) \in Nat
    BY <1>3 DEF Listed
  <1>5. PICK f : /\ Numbers(f, Len(io_apics), EntriesOf("io_apic"))
                 /\ \A i \in 1 .. Len(io_apics) : io_apics[i] = IoApicItem[f[i]]
    BY <1>3, Zenon DEF Listed
  <1>6. ASSUME NEW k \in DOMAIN io_apics
        PROVE  k \in Nat /\ io_apics[k].base \in Nat
    <2>1. f[k] \in DOMAIN madt.at
      BY <1>4, <1>5, Zenon DEF Numbers, EntriesOf
    <2>2. madt.at[f[k]].base \in Nat
      BY <1>1, <2>1, MadtAssumption, Zenon DEF WellFormed
    <2>3. io_apics[k] = IoApic(madt.at[f[k]])
      BY <1>4, <1>5, <2>1, Zenon DEF IoApicItem
    <2>4. io_apics[k].base = madt.at[f[k]].base
      BY <2>3 DEF IoApic
    <2> QED
      BY <1>4, <2>2, <2>4
  <1>7. ASSUME NEW g, IsInput(madt, g)
        PROVE  Wired(g) # {}
    <2>1. PICK o \in DOMAIN madt.at :
            /\ madt.at[o].type = "io_apic"
            /\ madt.at[o].base <= g /\ g < madt.at[o].base + Inputs(madt.at[o].register)
      BY <1>7, Zenon DEF IsInput
    <2>2. PICK i \in 1 .. Len(io_apics) : f[i] = o
      BY <2>1, <1>5, Zenon DEF Numbers, EntriesOf
    <2>3. io_apics[i] = IoApic(madt.at[o])
      BY <2>1, <2>2, <1>5, Zenon DEF IoApicItem
    <2>4. /\ io_apics[i].base = madt.at[o].base
          /\ io_apics[i].inputs = Inputs(madt.at[o].register)
      BY <2>3 DEF IoApic
    <2> QED
      BY <1>4, <2>1, <2>4, Zenon DEF Wired
  <1>8. \A irq \in Irq : irq \in Nat /\ Wire(irq) \in Nat /\ Wired(Wire(irq)) # {}
    <2> TAKE irq \in Irq
    <2>1. FirmwareWire(madt, irq) \in Nat /\ IsInput(madt, FirmwareWire(madt, irq)) /\ irq \in Nat
      BY <1>1, MadtAssumption, Zenon
    <2>2. Wired(FirmwareWire(madt, irq)) # {}
      BY <1>7, <2>1, Zenon
    <2> QED
      BY <1>2, <2>1, <2>2, Zenon
  <1>9. \A i, j \in Irq : Wire(i) \in {j, Wire(j)} => i = j
    BY <1>1, <1>2, MadtAssumption, Zenon
  <1> QED
    BY <1>6, <1>8, <1>9, Zenon DEF WellWired

LEMMA TablesFollow == TablesRead => MadtFollowed
  <1> SUFFICES ASSUME TablesRead, pc # "madt"
               PROVE  /\ Len(io_apics) = Cardinality(EntriesOf("io_apic"))
                      /\ \A o \in EntriesOf("io_apic") : \E k \in DOMAIN io_apics :
                           io_apics[k] = IoApic(madt.at[o])
                      /\ Len(interrupt_source_overrides) = Cardinality(EntriesOf("override"))
                      /\ \A o \in EntriesOf("override") :
                           (\A p \in EntriesOf("override") :
                              p < o => madt.at[p].irq_source # madt.at[o].irq_source)
                           => Wire(madt.at[o].irq_source) = madt.at[o].gsi
    BY Zenon DEF MadtFollowed
  <1>1. madt \in Madts /\ current_header = madt.length
    BY Zenon DEF TablesRead
  <1>2. /\ Passed("io_apic") = EntriesOf("io_apic") /\ EntriesOf("io_apic") \subseteq Nat
        /\ Passed("override") = EntriesOf("override") /\ EntriesOf("override") \subseteq Nat
    BY <1>1, AllPassed, Zenon
  <1>3. /\ Len(io_apics) = Cardinality(EntriesOf("io_apic"))
        /\ Len(interrupt_source_overrides) = Cardinality(EntriesOf("override"))
    BY <1>2, ListedCount, Zenon DEF TablesRead
  <1>4. ASSUME NEW o \in EntriesOf("io_apic")
        PROVE  \E k \in DOMAIN io_apics : io_apics[k] = IoApic(madt.at[o])
    <2>1. Listed(io_apics, EntriesOf("io_apic"), IoApicItem)
      BY <1>2, Zenon DEF TablesRead
    <2>2. DOMAIN io_apics = 1 .. Len(io_apics)
      BY <2>1 DEF Listed
    <2>3. \E k \in 1 .. Len(io_apics) : io_apics[k] = IoApicItem[o]
      BY <2>1, Zenon DEF Listed, Numbers
    <2>4. IoApicItem[o] = IoApic(madt.at[o])
      BY Zenon DEF IoApicItem, EntriesOf
    <2> QED
      BY <2>2, <2>3, <2>4, Zenon
  <1>5. ASSUME NEW o \in EntriesOf("override"),
               \A p \in EntriesOf("override") :
                 p < o => madt.at[p].irq_source # madt.at[o].irq_source
        PROVE  Wire(madt.at[o].irq_source) = madt.at[o].gsi
    <2> DEFINE irq == madt.at[o].irq_source
               O == Overriding(madt, irq)
               First(S) == CHOOSE i \in S : \A j \in S : i <= j
    <2>1. o \in O /\ O \subseteq EntriesOf("override") /\ \A p \in O : madt.at[p].irq_source = irq
      BY Zenon DEF Overriding, EntriesOf
    <2>2. O \subseteq Nat /\ \A p \in O : o <= p
      BY <1>2, <1>5, <2>1, SMTT(30)
    <2>3. First(O) = o
      <3> HIDE DEF O
      <3> QED
        BY <2>1, <2>2, LeastChosen
    <2>4. FirmwareWire(madt, irq) = IF O = {} THEN irq ELSE madt.at[First(O)].gsi
      BY Zenon DEF FirmwareWire
    <2>5. Wire(irq) = FirmwareWire(madt, irq)
      BY <1>1, WireFollows, Zenon
    <2>6. O # {}
      BY <2>1, Zenon
    <2> HIDE DEF irq, O, First
    <2>7. Wire(irq) = madt.at[o].gsi
      BY <2>3, <2>4, <2>5, <2>6, Zenon
    <2> QED
      BY <2>7, Zenon DEF irq
  <1> QED
    BY <1>3, <1>4, <1>5, Zenon
-----------------------------------------------------------------------------
Before == {"madt", "clocks1", "map"}
Measuring == {"test2", "halt2", "wake2", "disable", "flush3", "reset3", "unmap", "measure"}
Sleeping == {"test3", "halt3", "wake3"}
After == {"setup", "clocks2", "idle", "unmask", "clear", "count", "awake"} \cup Sleeping

\* The handlers in the IDT are those of vectors in use.
IdtUnused == ~panicked => \A i \in Index : i \notin VectorsInUse => idt[i] = None

Routes ==
  /\ pc \in Before /\ ~panicked => RoutesInit
  /\ pc # "madt" => IInv /\ IdtUnused

\* What may be pending, and the handlers that are called for it.
RtcVector == legacy_irqs[RtcIrq]
RtcPending == <<RtcVector, "rtc">> \in irr

Pending ==
  /\ lvt \in [vector : Index \cup {None}, masked : BOOLEAN]
  /\ pc \in Before => irr = {}
  /\ Calibrating /\ pc # "measure" /\ ~panicked =>
       /\ RtcVector # None /\ wanted[RtcIrq] = RtcHandler
       /\ irr \subseteq {<<RtcVector, "rtc">>}
  /\ pc \in {"measure", "setup"} => irr = {}
  /\ pc \notin After \ {"setup"} => timer = None /\ lvt.masked
  /\ pc \in After \ {"setup"} =>
       /\ timer # None /\ lvt.vector = timer
       /\ irr \subseteq {<<timer, "timer">>}
       /\ ~panicked => idt[timer] \in {None, SleepHandler}
  /\ stray \subseteq {<<"timer", None>>}

Elapsed == MaxCount - count

ClockTypes ==
  /\ phase \in 0 .. Period - 1 /\ lag \in 0 .. MaxLag
  /\ count \in 0 .. MaxCount
  /\ flag \in BOOLEAN /\ enabled \in BOOLEAN /\ received \in BOOLEAN

\* The first wait of the calibration.
FirstWait ==
  /\ pc \in {"enable", "flush1", "halt1"} => ~received
  /\ pc \in {"wake1", "start_timer", "flush2"} => received
  /\ pc \in {"test1", "halt1"} /\ ~received /\ flag => RtcPending
  /\ pc \in {"test1", "halt1", "wake1", "start_timer", "flush2"} /\ flag => phase <= lag
  /\ pc \in {"test1", "wake1", "start_timer", "flush2"} /\ received /\ RtcPending => flag
  /\ pc = "flush2" => Elapsed <= lag /\ (RtcPending \/ Elapsed <= phase)

\* The second one, which is measured.
SecondWait ==
  /\ pc = "halt2" => ~received
  /\ pc \in {"wake2", "disable"} => received
  /\ pc = "reset2" \/ (pc \in {"test2", "halt2"} /\ ~received) =>
       /\ RtcPending => flag \/ phase <= lag
       /\ ~RtcPending => ~flag /\ Elapsed <= phase
  /\ pc \in {"test2", "wake2", "disable"} /\ received => ~RtcPending /\ (flag \/ phase <= lag)
  /\ pc \in {"flush3", "reset3", "unmap", "measure"} => irr = {}
  /\ pc \in {"reset2"} \cup Measuring => Elapsed <= Period + lag

Waits ==
  /\ enabled <=> pc \in {"flush1", "test1", "halt1", "wake1", "start_timer", "flush2", "reset2",
                         "test2", "halt2", "wake2", "disable"}
  /\ FirstWait /\ SecondWait
  /\ numerator \in Nat /\ numerator <= Period + MaxLag

\* If the kernel has not found the entry that the clock drives, it waits for the
\* first interrupt forever.
Unheard ==
  /\ pc \in {"reset1", "enable", "flush1", "test1", "halt1"}
  /\ pc # "reset1" => ~received
  /\ irr = {}
  /\ numerator \in Nat /\ numerator <= Period + MaxLag

Calibration == IF Calibrating /\ ~Reached(RtcIrq) THEN Unheard ELSE Waits

\* What is left of a sleep is what the timer has to count.
Slept ==
  /\ ticks \in 0 .. MaxCount /\ slept \in 0 .. MaxCount
  /\ pc = "count" => ~interrupt_received
  /\ pc \in Sleeping \cup {"awake"} => call = "sleep"
  /\ pc \in Sleeping /\ clean =>
       /\ slept + count = ticks
       /\ interrupt_received \/ <<timer, "timer">> \in irr => count = 0
  /\ pc = "awake" /\ clean => count = 0 /\ slept = ticks

TimerInv == TablesRead /\ Routes /\ Pending /\ ClockTypes /\ Calibration /\ Slept
-----------------------------------------------------------------------------
\* Only the loop of init_from_madt moves the iterator and fills the tables.
LEMMA StepsAfterMadt ==
  ASSUME [Next]_vars, ~NextEntry, ~EntriesDone
  PROVE  UNCHANGED <<madtVars, tables>> /\ (pc # "madt" \/ pc' = pc)
  <1>1. CASE Boot
    <2>1. CASE UpdateClocks("clocks1", "map") \/ UpdateClocks("clocks2", "idle")
      BY <2>1, Zenon DEF UpdateClocks, Goto, irqVars
    <2>2. CASE Map \/ Unmap
      BY <2>2, Zenon DEF Map, Unmap, Goto, MapLegacyIrq, UnmapLegacyId, UnmapPanics
    <2>3. CASE \E from, to : from # "madt" /\ (Reset(from, to) \/ Flush(from, to) \/ Cli(from, to))
      BY <2>3, Zenon DEF Reset, Flush, Cli, Goto, irqVars
    <2>4. CASE Test("test1", "halt1", "start_timer") \/ Test("test2", "halt2", "disable")
      BY <2>4 DEF Test, Goto, irqVars
    <2>5. CASE Enable \/ StartTimer \/ Disable \/ Measure
      BY <2>5, Zenon DEF Enable, StartTimer, Disable, Measure, Goto, irqVars
    <2> QED
      BY <1>1, <2>1, <2>2, <2>3, <2>4, <2>5, Zenon DEF Boot, Calibrate
  <1>2. CASE Setup
    BY <1>2 DEF Setup, Goto, TimerSetup
  <1>3. CASE Sleep
    BY <1>3 DEF Sleep, Unmask, ClearReceived, WriteCount, TestReceived, Awake, Cli, Goto, irqVars
  <1>4. CASE Calls
    <2>1. CASE \E ms \in MsRange, what \in {"sleep", "countdown"} : Begin(what, ms)
      BY <2>1 DEF Begin, Available, irqVars
    <2>2. CASE StopCountdown
      BY <2>2, Zenon DEF StopCountdown, irqVars
    <2>3. CASE IrqCall
      BY <2>3, Zenon DEF IrqCall, Available, MapLegacyIrq, UnmapLegacyId, UnmapPanics,
         SetInterruptType
    <2> QED
      BY <1>4, <2>1, <2>2, <2>3 DEF Calls
  <1>5. CASE Deliver
    BY <1>5, Zenon DEF Deliver, Halted
  <1>6. CASE Tick
    BY <1>6, Zenon DEF Tick, CalibrationTick, TimerTick, irqVars
  <1>7. CASE UNCHANGED vars
    BY <1>7 DEF vars, irqVars
  <1> QED
    BY <1>1, <1>2, <1>3, <1>4, <1>5, <1>6, <1>7, Zenon DEF Next, Kernel

LEMMA TablesKept ==
  ASSUME TablesRead, [Next]_vars
  PROVE  TablesRead'
  <1>1. CASE NextEntry
    BY <1>1, EntryRead
  <1>2. CASE EntriesDone
    <2>1. UNCHANGED <<madtVars, tables>>
      BY <1>2 DEF EntriesDone, irqVars
    <2> QED
      BY <1>2, <2>1, EntriesDoneAtEnd, TablesLeft, Zenon
  <1>3. CASE ~NextEntry /\ ~EntriesDone
    <2>1. UNCHANGED <<madtVars, tables>> /\ (pc # "madt" \/ pc' = pc)
      BY <1>3, StepsAfterMadt, Zenon
    <2>2. pc' # "madt" => current_header = madt.length
      BY <2>1, Zenon DEF TablesRead
    <2> QED
      BY <2>1, <2>2, TablesLeft, Zenon
  <1> QED
    BY <1>1, <1>2, <1>3

\* A handler is put into the IDT for the vector that is reserved for it, and it
\* is taken out when the vector is freed.
LEMMA IdtKept ==
  ASSUME IInv, IdtUnused, IrqNext
  PROVE  IdtUnused'
  <1> SUFFICES ASSUME ~panicked', NEW i \in Index, i \notin VectorsInUse'
               PROVE  idt'[i] = None
    BY Zenon DEF IdtUnused
  <1> USE DEF IInv, IrqTypeOK
  <1>1. i # None /\ i \in Nat
    BY NoneAssumption, GroupSizeAssumption, SMTT(30) DEF Index
  <1>2. ~panicked
    BY Zenon DEF IrqNext, MapLegacyIrq, UnmapLegacyId, UnmapPanics, TimerSetup, SetInterruptType
  <1>3. i \notin VectorsInUse => idt[i] = None
    BY <1>2, Zenon DEF IdtUnused
  <1>4. ASSUME NEW irq \in Irq, NEW handler \in Handler, MapLegacyIrq(irq, handler)
        PROVE  idt'[i] = None
    <2>1. PICK v \in Index :
            /\ idt' = [idt EXCEPT ![v] = handler]
            /\ panicked' = (~Registers(irq) \/ legacy_irqs[irq] # None)
            /\ legacy_irqs' = [legacy_irqs EXCEPT ![irq] = IF panicked' THEN @ ELSE v]
            /\ timer' = timer
      BY <1>4, Zenon DEF MapLegacyIrq
    <2>2. legacy_irqs[irq] = None /\ legacy_irqs'[irq] = v
      BY <2>1, Zenon
    <2>3. \A j \in Irq : j # irq => legacy_irqs'[j] = legacy_irqs[j]
      BY <2>1
    <2>4. i # v /\ i \notin VectorsInUse
      BY <1>1, <2>1, <2>2, <2>3, Zenon DEF VectorsInUse
    <2> QED
      BY <2>1, <2>4, <1>3, Zenon
  <1>5. ASSUME NEW irq \in Irq, UnmapLegacyId(irq)
        PROVE  idt'[i] = None
    <2>1. /\ idt' = [idt EXCEPT ![legacy_irqs[irq]] = None]
          /\ legacy_irqs' = [legacy_irqs EXCEPT ![irq] = None]
          /\ timer' = timer
      BY <1>5, Zenon DEF UnmapLegacyId
    <2>2. i = legacy_irqs[irq] \/ i \notin VectorsInUse
      BY <1>1, <2>1, Zenon DEF VectorsInUse
    <2> QED
      BY <2>1, <2>2, <1>3, Zenon
  <1>6. CASE TimerSetup
    <2>1. idt' = idt /\ legacy_irqs' = legacy_irqs /\ timer = None
      BY <1>6, Zenon DEF TimerSetup
    <2> QED
      BY <2>1, <1>1, <1>3, Zenon DEF VectorsInUse
  <1>7. ASSUME NEW handler \in Handler, SetInterruptType(handler)
        PROVE  idt'[i] = None
    <2>1. idt' = [idt EXCEPT ![timer] = handler] /\ legacy_irqs' = legacy_irqs /\ timer' = timer
      BY <1>7, Zenon DEF SetInterruptType
    <2> QED
      BY <2>1, <1>3, Zenon DEF VectorsInUse
  <1>8. ASSUME NEW irq \in Irq, UnmapPanics(irq)
        PROVE  FALSE
    BY <1>8, Zenon DEF UnmapPanics
  <1> QED
    BY <1>4, <1>5, <1>6, <1>7, <1>8, Zenon DEF IrqNext

\* Steps that leave the routes alone.
LEMMA RoutesLeft ==
  ASSUME Routes, UNCHANGED routes, pc' \in Before => pc \in Before,
         pc' # "madt" => IInv /\ IdtUnused /\ UNCHANGED tables
  PROVE  Routes'
  <1>1. /\ vector_map' = vector_map /\ idt' = idt /\ redirect' = redirect /\ timer' = timer
        /\ legacy_irqs' = legacy_irqs /\ wanted' = wanted /\ panicked' = panicked
    BY Zenon DEF routes
  <1>2. pc' \in Before /\ ~panicked' => RoutesInit'
    BY <1>1, Zenon DEF Routes, RoutesInit
  <1>3. pc' # "madt" => IInv'
    BY IrqStep, Zenon DEF irqVars
  <1>4. pc' # "madt" => IdtUnused'
    BY <1>1, Zenon DEF IdtUnused, VectorsInUse
  <1> QED
    BY <1>2, <1>3, <1>4, Zenon DEF Routes

\* Calls of interrupts.rs, once the tables are filled in.
LEMMA RoutesCalled ==
  ASSUME Routes, IrqNext, pc # "madt", pc' \notin Before
  PROVE  Routes'
  <1>1. IInv' /\ IdtUnused'
    BY IrqStep, IdtKept, Zenon DEF Routes
  <1> QED
    BY <1>1, Zenon DEF Routes

\* Taking an interrupt changes no route, but it may panic.
LEMMA RoutesTaken ==
  ASSUME Routes, Deliver
  PROVE  Routes'
  <1>1. /\ ~panicked /\ pc # "madt" /\ pc' \notin Before
        /\ UNCHANGED <<tables, vector_map, idt, redirect, legacy_irqs, timer, wanted>>
    BY DEF Deliver, Halted, Wakes, Before
  <1>2. panicked' \in BOOLEAN
    BY Zenon DEF Deliver, Take
  <1>3. IInv /\ IdtUnused
    BY <1>1, Zenon DEF Routes
  <1>4. /\ WellWired'
        /\ \A i : /\ Wire(i)' = Wire(i) /\ SlotOf(i)' = SlotOf(i)
                  /\ (Registers(i)' <=> Registers(i))
    BY <1>1, <1>3, WiresKept, Zenon DEF IInv
  <1>5. IrqTypeOK'
    BY <1>1, <1>2, <1>3, Zenon DEF IInv, IrqTypeOK
  <1>6. VectorsUnique'
    BY <1>1, <1>3, Zenon DEF IInv, VectorsUnique, VectorsInUse
  <1>7. RoutesAgree' /\ EntriesUsed'
    BY <1>1, <1>3, <1>4, Zenon DEF IInv, RoutesAgree, Routed, EntriesUsed
  <1>8. IdtUnused'
    BY <1>1, <1>3, Zenon DEF IdtUnused, VectorsInUse
  <1> QED
    BY <1>1, <1>4, <1>5, <1>6, <1>7, <1>8, Zenon DEF IInv, Routes

LEMMA RoutesKept ==
  ASSUME TablesRead, Routes, [Next]_vars
  PROVE  Routes'
  <1>1. CASE ~panicked /\ NextEntry
    <2>1. /\ pc' = pc /\ pc = "madt"
          /\ UNCHANGED <<vector_map, idt, redirect, legacy_irqs, timer, wanted>>
      BY <1>1, Zenon DEF NextEntry
    <2>2. panicked' \in BOOLEAN
      BY <1>1, Zenon DEF NextEntry
    <2>3. ~panicked' => RoutesInit'
      BY <1>1, <2>1, <2>2, Zenon DEF Routes, Before, RoutesInit
    <2> QED
      BY <2>1, <2>3, Zenon DEF Routes
  <1>2. CASE ~panicked /\ EntriesDone
    <2>1. UNCHANGED routes /\ UNCHANGED tables /\ pc = "madt" /\ pc' = "clocks1"
      BY <1>2 DEF EntriesDone, irqVars
    <2>2. RoutesInit /\ WellWired
      BY <1>2, <2>1, EntriesDoneAtEnd, TablesWellWired, Zenon DEF Routes, Before
    <2>3. IInv /\ IdtUnused
      BY <2>2, RoutesInitIInv, Zenon DEF RoutesInit, IdtUnused
    <2> QED
      BY <2>1, <2>3, RoutesLeft, Zenon DEF Before
  <1>3. CASE Map
    <2>1. IrqNext
      BY <1>3, HandlerAssumption, RtcIrqAssumption DEF Map, IrqNext
    <2> QED
      BY <1>3, <2>1, RoutesCalled, Zenon DEF Map, Goto, Before
  <1>4. CASE Unmap
    <2>1. IrqNext
      BY <1>4, RtcIrqAssumption, Zenon DEF Unmap, IrqNext
    <2> QED
      BY <1>4, <2>1, RoutesCalled, Zenon DEF Unmap, Goto, Before
  <1>5. CASE Setup
    BY <1>5, RoutesCalled, Zenon DEF Setup, Goto, Before, IrqNext
  <1>6. CASE IrqCall
    <2>1. IrqNext
      BY <1>6, HandlerAssumption DEF IrqCall, IrqNext
    <2> QED
      BY <1>6, <2>1, RoutesCalled, Zenon DEF IrqCall, Available, Before
  <1>7. CASE Deliver
    BY <1>7, RoutesTaken, Zenon
  <1>8. ASSUME UNCHANGED irqVars, pc # "madt" \/ pc' = pc, pc' \in Before => pc \in Before
        PROVE  Routes'
    <2>1. UNCHANGED tables /\ UNCHANGED routes
      BY <1>8, Zenon DEF irqVars
    <2> QED
      BY <1>8, <2>1, RoutesLeft, Zenon DEF Routes
  <1>9. CASE Boot
    <2>1. CASE UpdateClocks("clocks1", "map")
      BY <1>8, <2>1, Zenon DEF UpdateClocks, Goto, Before
    <2>2. CASE UpdateClocks("clocks2", "idle")
      BY <1>8, <2>2, Zenon DEF UpdateClocks, Goto, Before
    <2>3. CASE \E from, to : /\ from # "madt" /\ to \notin Before
                             /\ Reset(from, to) \/ Flush(from, to) \/ Cli(from, to)
      BY <1>8, <2>3, Zenon DEF Reset, Flush, Cli, Goto
    <2>4. CASE Test("test1", "halt1", "start_timer") \/ Test("test2", "halt2", "disable")
      BY <1>8, <2>4 DEF Test, Goto, Before
    <2>5. CASE Enable \/ StartTimer \/ Disable \/ Measure
      BY <1>8, <2>5, Zenon
         DEF Enable, StartTimer, Disable, Measure, Goto, Before
    <2> QED
      BY <1>1, <1>2, <1>3, <1>4, <1>9, <2>1, <2>2, <2>3, <2>4, <2>5, SMTT(30)
         DEF Boot, Calibrate, Before
  <1>10. CASE Sleep
    BY <1>8, <1>10, SMTT(30)
       DEF Sleep, Unmask, ClearReceived, WriteCount, TestReceived, Awake, Cli, Goto, Before
  <1>11. CASE \E ms \in MsRange, what \in {"sleep", "countdown"} : Begin(what, ms)
    BY <1>8, <1>11 DEF Begin, Available, Before
  <1>12. CASE StopCountdown
    BY <1>8, <1>12, Zenon DEF StopCountdown
  <1>13. CASE Tick
    BY <1>8, <1>13, Zenon DEF Tick, CalibrationTick, TimerTick
  <1>14. CASE UNCHANGED vars
    BY <1>8, <1>14, Zenon DEF vars
  <1> QED
    BY <1>5, <1>6, <1>7, <1>9, <1>10, <1>11, <1>12, <1>13, <1>14, Zenon DEF Next, Kernel, Calls
-----------------------------------------------------------------------------
\* While the clock is mapped, the entry that it drives is not masked only if the
\* kernel has found it, and then it names the vector of the mapping.
LEMMA RtcRouted ==
  ASSUME Routes, pc # "madt", ~panicked, RtcVector # None
  PROVE  /\ idt[RtcVector] = wanted[RtcIrq] /\ RtcVector \in Index
         /\ InputOf(RtcIrq) \in DOMAIN redirect <=> Reached(RtcIrq)
         /\ Reached(RtcIrq) => redirect[InputOf(RtcIrq)] = RtcVector
  <1>1. IInv /\ RtcIrq \in Irq
    BY RtcIrqAssumption, Zenon DEF Routes
  <1>2. Routed(RtcIrq) /\ RtcVector \in Index
    BY <1>1, Zenon DEF IInv, RoutesAgree, IrqTypeOK, RtcVector
  <1>3. InputOf(RtcIrq) \in DOMAIN redirect => Reached(RtcIrq)
    BY <1>1, InputUsed, Zenon
  <1>4. Reached(RtcIrq) => SlotOf(RtcIrq) = InputOf(RtcIrq)
    BY Zenon DEF Reached, SlotOf, InputOf
  <1> QED
    BY <1>2, <1>3, <1>4, Zenon DEF Routed, RtcVector

\* The clock interrupts only at the vector it is mapped to.
LEMMA ClockAt ==
  ASSUME Routes, Pending, Calibrating, pc # "measure", ~panicked, NEW f, NEW e
  PROVE  ClockRaises(f, e) \subseteq {<<RtcVector, "rtc">>}
  <1>1. pc # "madt" /\ RtcVector # None
    BY DEF Calibrating, Pending
  <1>2. InputOf(RtcIrq) \in DOMAIN redirect => redirect[InputOf(RtcIrq)] = RtcVector
    BY <1>1, RtcRouted, Zenon
  <1> QED
    BY <1>2, Zenon DEF ClockRaises, InputOf

\* Steps that leave the local APIC and the routes alone.
LEMMA PendingLeft ==
  ASSUME Pending, UNCHANGED <<irr, lvt, stray, routes>>,
         pc' \in Before => pc \in Before,
         Calibrating' /\ pc' # "measure" => Calibrating /\ pc # "measure",
         pc' \in {"measure", "setup"} => pc \in {"measure", "setup"},
         pc' \in After \ {"setup"} <=> pc \in After \ {"setup"}
  PROVE  Pending'
  <1>1. UNCHANGED <<irr, lvt, stray, timer, idt, legacy_irqs, wanted, panicked>>
    BY Zenon DEF routes
  <1> QED
    BY <1>1, Zenon DEF Pending, RtcVector

\* Steps of the calibration that change a register of the clock.
LEMMA PendingClock ==
  ASSUME Routes, Pending, Calibrating, pc # "measure", ~panicked, NEW f, NEW e, Clock(f, e),
         UNCHANGED routes, Calibrating', pc' # "measure"
  PROVE  Pending'
  <1>1. /\ irr' = irr \cup ClockRaises(f, e)
        /\ UNCHANGED <<lvt, stray, timer, idt, legacy_irqs, wanted, panicked>>
    BY Zenon DEF Clock, routes
  <1>2. ClockRaises(f, e) \subseteq {<<RtcVector, "rtc">>}
    BY ClockAt, Zenon
  <1>3. irr' \subseteq {<<RtcVector', "rtc">>}
    BY <1>1, <1>2, Zenon DEF Pending, RtcVector
  <1>4. /\ pc \notin Before /\ pc \notin After /\ pc' \notin Before /\ pc' \notin After
        /\ pc' \notin {"measure", "setup"}
    BY Zenon DEF Calibrating, Before, After, Sleeping
  <1> QED
    BY <1>1, <1>3, <1>4, Zenon DEF Pending, RtcVector

LEMMA PendingMap ==
  ASSUME Routes, Pending, Map, ~panicked
  PROVE  Pending'
  <1>1. /\ pc = "map" /\ pc' = "reset1" /\ UNCHANGED <<irr, lvt, stray, timer>>
        /\ MapLegacyIrq(RtcIrq, RtcHandler)
    BY Zenon DEF Map, Goto, apicVars, MapLegacyIrq
  <1>2. RoutesInit /\ irr = {} /\ timer = None /\ lvt.masked
    BY <1>1 DEF Routes, Pending, Before, After, Sleeping
  <1>3. legacy_irqs = [irq \in Irq |-> None] /\ wanted = [irq \in Irq |-> None]
    BY <1>2 DEF RoutesInit
  <1>4. PICK v \in Index :
          /\ legacy_irqs' = [legacy_irqs EXCEPT ![RtcIrq] = IF panicked' THEN @ ELSE v]
          /\ wanted' = [wanted EXCEPT ![RtcIrq] = RtcHandler]
    BY <1>1, Zenon DEF MapLegacyIrq
  <1>5. v # None
    BY NoneAssumption, GroupSizeAssumption DEF Index
  <1>6. (~panicked' => legacy_irqs'[RtcIrq] = v) /\ wanted'[RtcIrq] = RtcHandler
    BY <1>3, <1>4, RtcIrqAssumption, Zenon
  <1> QED
    BY <1>1, <1>2, <1>5, <1>6, Zenon DEF Pending, RtcVector, Before, After, Sleeping, Calibrating

LEMMA PendingUnmap ==
  ASSUME Pending, SecondWait, Unmap
  PROVE  Pending'
  <1>1. /\ pc = "unmap" /\ pc' = "measure" /\ UNCHANGED <<irr, lvt, stray, timer>>
    BY Zenon DEF Unmap, Goto, apicVars, UnmapLegacyId, UnmapPanics
  <1>2. irr = {} /\ timer = None /\ lvt.masked
    BY <1>1, Zenon DEF Pending, SecondWait, After, Sleeping
  <1> QED
    BY <1>1, <1>2, Zenon DEF Pending, Before, After, Sleeping, Calibrating

\* The timer gets a vector that has no handler yet.
LEMMA PendingSetup ==
  ASSUME Routes, Pending, Setup
  PROVE  Pending'
  <1>1. /\ pc = "setup" /\ pc' = "clocks2" /\ UNCHANGED <<irr, stray, idt>>
        /\ lvt' = [vector |-> timer', masked |-> TRUE]
        /\ ~panicked /\ TimerSetup
    BY Zenon DEF Setup, Goto, TimerSetup
  <1>2. IInv /\ IdtUnused /\ irr = {}
    BY <1>1, Zenon DEF Routes, Pending
  <1>3. PICK v \in Index :
          /\ FirstClear = <<0, v>> /\ EntryIndex(FirstClear) = v
          /\ v \notin VectorsInUse /\ v # 0 /\ v # None
    BY <1>1, <1>2, VectorIsNew, Zenon DEF IInv
  <1>4. timer' = v
    BY <1>1, <1>3, Zenon DEF TimerSetup, ReserveEntry
  <1>5. idt[v] = None
    BY <1>1, <1>2, <1>3, Zenon DEF IdtUnused
  <1> QED
    BY <1>1, <1>2, <1>3, <1>4, <1>5, Zenon DEF Pending, Before, After, Sleeping, Calibrating

\* The calls of others leave the timer's vector and its handler alone.
LEMMA PendingCalls ==
  ASSUME Routes, Pending, IrqCall
  PROVE  Pending'
  <1>1. /\ pc = "idle" /\ pc' = pc /\ UNCHANGED <<irr, lvt, stray>> /\ ~panicked
    BY Zenon DEF IrqCall, Available, apicVars
  <1>2. /\ timer # None /\ lvt.vector = timer /\ irr \subseteq {<<timer, "timer">>}
        /\ idt[timer] \in {None, SleepHandler} /\ IInv
    BY <1>1, Zenon DEF Pending, Routes, After, Sleeping
  <1>3. timer' = timer
    BY Zenon DEF IrqCall, MapLegacyIrq, UnmapLegacyId, UnmapPanics, SetInterruptType
  <1>4. timer \in Index /\ idt \in [Index -> Handler \cup {None}] /\ timer \in VectorsInUse
    BY <1>2, Zenon DEF IInv, IrqTypeOK, VectorsInUse
  <1>5. idt'[timer] \in {None, SleepHandler}
    <2>1. ASSUME NEW irq \in Irq, NEW handler \in Handler, MapLegacyIrq(irq, handler)
          PROVE  idt'[timer] = idt[timer]
      <3>1. PICK v \in Index : EntryIndex(FirstClear) = v /\ v \notin VectorsInUse
        BY <1>1, <1>2, VectorIsNew, Zenon DEF IInv
      <3>2. idt' = [idt EXCEPT ![v] = handler]
        BY <2>1, <3>1, Zenon DEF MapLegacyIrq, ReserveEntry
      <3> QED
        BY <3>1, <3>2, <1>4, Zenon
    <2>2. ASSUME NEW irq \in Irq, UnmapLegacyId(irq)
          PROVE  idt'[timer] = idt[timer]
      <3>1. legacy_irqs[irq] # timer
        BY <1>1, <1>2, Zenon DEF IInv, VectorsUnique
      <3> QED
        BY <2>2, <3>1, <1>4, Zenon DEF UnmapLegacyId
    <2>3. ASSUME NEW irq \in Irq, UnmapPanics(irq)
          PROVE  idt' = idt
      BY <2>3, Zenon DEF UnmapPanics
    <2>4. CASE SetInterruptType(SleepHandler)
      BY <2>4, <1>4, Zenon DEF SetInterruptType
    <2> QED
      BY <1>2, <2>1, <2>2, <2>3, <2>4, Zenon DEF IrqCall
  <1> QED
    BY <1>1, <1>2, <1>3, <1>5, Zenon DEF Pending, Before, After, Sleeping, Calibrating

\* During the calibration the only handler that is called is that of the clock,
\* and in a sleep it is that of the timer.
LEMMA PendingTaken ==
  ASSUME Routes, Pending, Deliver
  PROVE  Pending'
  <1>1. PICK vector \in Index : Take(vector)
    BY Zenon DEF Deliver
  <1>2. /\ ~panicked /\ pc \in Halted \cup {"wake1", "wake2", "wake3"} /\ pc' = Wakes(pc)
        /\ UNCHANGED <<idt, legacy_irqs, timer, wanted, lvt>>
    BY <1>1, Zenon DEF Deliver, Take
  <1> DEFINE sources == {p[2] : p \in {q \in irr : q[1] = vector}}
  <1>3. /\ sources # {} /\ irr' \subseteq irr
        /\ panicked' = (idt[vector] = None)
        /\ stray' = stray \cup {<<s, idt[vector]>> : s \in {t \in sources : idt[vector] # HandlerOf(t)}}
    BY <1>1, Zenon DEF Take
  <1>4. SleepHandler # None /\ RtcHandler # None
    BY HandlerAssumption, NoneAssumption, Zenon
  <1>5. CASE pc \in {"halt1", "halt2", "wake1", "wake2"}
    <2>1. Calibrating /\ pc \notin Before /\ pc \notin After /\ pc \notin {"measure", "setup", "madt"}
      BY <1>5 DEF Calibrating, Before, After, Sleeping
    <2>2. pc' \in {"wake1", "wake2"}
      BY <1>2, <1>5, Zenon DEF Wakes
    <2>3. irr \subseteq {<<RtcVector, "rtc">>} /\ RtcVector # None /\ wanted[RtcIrq] = RtcHandler
      BY <1>2, <2>1, Zenon DEF Pending
    <2>4. vector = RtcVector /\ sources = {"rtc"}
      BY <1>3, <2>3, SMTT(30)
    <2>5. idt[vector] = RtcHandler
      BY <1>2, <2>1, <2>3, <2>4, RtcRouted, Zenon
    <2>6. HandlerOf("rtc") = RtcHandler
      BY Zenon DEF HandlerOf
    <2>7. stray' = stray /\ ~panicked'
      BY <1>3, <1>4, <2>4, <2>5, <2>6, Zenon
    <2> QED
      BY <1>2, <1>3, <2>1, <2>2, <2>3, <2>7, Zenon
         DEF Pending, RtcVector, Before, After, Sleeping, Calibrating
  <1>6. CASE pc \in {"halt3", "wake3"}
    <2>1. pc' = "wake3"
      BY <1>2, <1>6, Zenon DEF Wakes
    <2>2. /\ timer # None /\ lvt.vector = timer /\ irr \subseteq {<<timer, "timer">>}
          /\ idt[timer] \in {None, SleepHandler}
      BY <1>2, <1>6, Zenon DEF Pending, After, Sleeping
    <2>3. vector = timer /\ sources = {"timer"}
      BY <1>3, <2>2
    <2>4. HandlerOf("timer") = SleepHandler
      BY Zenon DEF HandlerOf
    <2>5. stray' \subseteq stray \cup {<<"timer", None>>}
      BY <1>3, <2>2, <2>3, <2>4, Zenon
    <2> QED
      BY <1>2, <1>3, <1>6, <2>1, <2>2, <2>5, Zenon DEF Pending, Before, After, Sleeping, Calibrating
  <1> QED
    BY <1>2, <1>5, <1>6, Zenon DEF Halted

LEMMA PendingTicks ==
  ASSUME Routes, Pending, Calibration, Tick
  PROVE  Pending'
  <1>1. CASE CalibrationTick
    <2>1. /\ Calibrating /\ ~panicked /\ pc' = pc
          /\ UNCHANGED <<lvt, stray, timer, idt, legacy_irqs, wanted, panicked>>
          /\ irr' = irr \cup ClockRaises(flag', enabled) \cup TimerRaises
      BY <1>1, Zenon DEF CalibrationTick, irqVars, routes
    <2>2. pc \notin Before /\ pc \notin After
      BY <2>1, Zenon DEF Calibrating, Before, After, Sleeping
    <2>3. TimerRaises = {}
      BY <2>2, Zenon DEF Pending, TimerRaises
    <2>4. CASE pc = "measure"
      <3>1. ~enabled
        BY <2>4, Zenon DEF Calibration, Unheard, Waits
      <3>2. ClockRaises(flag', enabled) = {}
        BY <3>1, Zenon DEF ClockRaises
      <3> QED
        BY <2>1, <2>2, <2>3, <2>4, <3>2, Zenon DEF Pending, Calibrating
    <2>5. CASE pc # "measure"
      <3>1. ClockRaises(flag', enabled) \subseteq {<<RtcVector, "rtc">>}
        BY <2>1, <2>5, ClockAt, Zenon
      <3>2. irr' \subseteq {<<RtcVector, "rtc">>}
        BY <2>1, <2>3, <2>5, <3>1, Zenon DEF Pending
      <3> QED
        BY <2>1, <2>2, <2>5, <3>2, Zenon DEF Pending, Calibrating, RtcVector, After
    <2> QED
      BY <2>4, <2>5, Zenon
  <1>2. CASE TimerTick
    <2>1. /\ timer # None /\ pc' = pc
          /\ UNCHANGED <<lvt, stray, timer, idt, legacy_irqs, wanted, panicked>>
          /\ irr' = irr \cup TimerRaises
      BY <1>2, Zenon DEF TimerTick, irqVars, routes
    <2>2. pc \in After \ {"setup"}
      BY <2>1, Zenon DEF Pending
    <2>3. TimerRaises \subseteq {<<timer, "timer">>}
      BY <2>2, Zenon DEF Pending, TimerRaises
    <2> QED
      BY <2>1, <2>2, <2>3, Zenon DEF Pending, Before, After, Sleeping, Calibrating
  <1> QED
    BY <1>1, <1>2, Zenon DEF Tick

LEMMA PendingKept ==
  ASSUME Routes, Pending, Calibration, [Next]_vars
  PROVE  Pending'
  <1> DEFINE Same ==
        /\ pc' \in Before => pc \in Before
        /\ Calibrating' /\ pc' # "measure" => Calibrating /\ pc # "measure"
        /\ pc' \in {"measure", "setup"} => pc \in {"measure", "setup"}
        /\ pc' \in After \ {"setup"} <=> pc \in After \ {"setup"}
  <1>1. ASSUME UNCHANGED <<irr, lvt, stray, routes>>, Same
        PROVE  Pending'
    BY <1>1, PendingLeft, Zenon
  <1>2. CASE NextEntry /\ UNCHANGED <<apicVars, rtcVars>>
    <2>1. pc = "madt" /\ pc' = "madt" /\ UNCHANGED <<irr, lvt, stray, timer>>
      BY <1>2, Zenon DEF NextEntry, apicVars
    <2> QED
      BY <2>1, Zenon DEF Pending, Before, After, Sleeping, Calibrating
  <1>3. CASE EntriesDone /\ UNCHANGED <<apicVars, rtcVars>>
    BY <1>1, <1>3, Zenon DEF EntriesDone, apicVars, irqVars, Before, After, Sleeping, Calibrating
  <1>4. CASE UpdateClocks("clocks1", "map") \/ UpdateClocks("clocks2", "idle")
    BY <1>1, <1>4 DEF UpdateClocks, Goto, apicVars, irqVars, Before, After, Sleeping, Calibrating
  <1>5. CASE ~panicked /\ Map
    BY <1>5, PendingMap, Zenon
  <1>6. CASE Reset("reset1", "enable") \/ Reset("reset2", "test2") \/ Reset("reset3", "unmap")
    BY <1>1, <1>6, Zenon DEF Reset, Goto, apicVars, irqVars, Before, After, Sleeping, Calibrating
  <1>7. ASSUME ~panicked, NEW f, NEW e, Clock(f, e), UNCHANGED routes,
               pc \in {"enable", "flush1", "flush2", "disable", "flush3"},
               pc' \in {"flush1", "test1", "reset2", "flush3", "reset3"}
        PROVE  Pending'
    BY <1>7, PendingClock, Zenon DEF Calibrating
  <1>8. CASE ~panicked /\ (Enable \/ Disable)
    BY <1>7, <1>8, Zenon DEF Enable, Disable, Goto, irqVars
  <1>9. CASE /\ ~panicked
             /\ \/ Flush("flush1", "test1")
                \/ Flush("flush2", "reset2") \/ Flush("flush3", "reset3")
    BY <1>7, <1>9, Zenon DEF Flush, Goto, irqVars
  <1>10. CASE Test("test1", "halt1", "start_timer") \/ Test("test2", "halt2", "disable")
    BY <1>1, <1>10, Zenon DEF Test, Goto, apicVars, irqVars, Before, After, Sleeping, Calibrating
  <1>11. CASE Cli("wake1", "test1") \/ Cli("wake2", "test2") \/ Cli("wake3", "test3")
    BY <1>1, <1>11, Zenon DEF Cli, Goto, apicVars, irqVars, Before, After, Sleeping, Calibrating
  <1>12. CASE StartTimer \/ Measure
    BY <1>1, <1>12, Zenon
       DEF StartTimer, Measure, Goto, apicVars, irqVars, Before, After, Sleeping, Calibrating
  <1>13. CASE Unmap
    <2>1. SecondWait
      BY <1>13, Zenon DEF Unmap, Goto, Calibration, Unheard, Waits
    <2> QED
      BY <1>13, <2>1, PendingUnmap, Zenon
  <1>14. CASE Boot
    BY <1>2, <1>3, <1>4, <1>5, <1>6, <1>8, <1>9, <1>10, <1>11, <1>12, <1>13, <1>14, SMTT(30)
       DEF Boot, Calibrate
  <1>15. CASE Setup
    BY <1>15, PendingSetup, Zenon
  <1>16. ASSUME lvt' \in [vector : {lvt.vector}, masked : BOOLEAN], UNCHANGED <<irr, stray, routes>>,
                pc \in After \ {"setup"}, pc' \in After \ {"setup"}
         PROVE  Pending'
    <2>1. UNCHANGED <<irr, stray, timer, idt, panicked>> /\ lvt'.vector = lvt.vector
      BY <1>16 DEF routes
    <2> QED
      BY <1>16, <2>1, Zenon DEF Pending, Before, After, Sleeping, Calibrating
  <1>17. CASE Unmask
    BY <1>16, <1>17, Zenon DEF Unmask, Goto, irqVars, After, Sleeping, Pending
  <1>18. CASE ClearReceived \/ WriteCount \/ TestReceived \/ Awake
    BY <1>1, <1>18, Zenon
       DEF ClearReceived, WriteCount, TestReceived, Awake, Goto, apicVars, irqVars, Before,
                       After, Sleeping, Calibrating
  <1>19. CASE Sleep
    BY <1>11, <1>17, <1>18, <1>19, Zenon DEF Sleep
  <1>20. CASE \E ms \in MsRange, what \in {"sleep", "countdown"} : Begin(what, ms)
    BY <1>1, <1>20 DEF Begin, Available, apicVars, irqVars, Before, After, Sleeping, Calibrating
  <1>21. CASE StopCountdown
    BY <1>16, <1>21, Zenon DEF StopCountdown, Available, irqVars, After, Sleeping, Pending
  <1>22. CASE IrqCall
    BY <1>22, PendingCalls
  <1>23. CASE Deliver
    BY <1>23, PendingTaken
  <1>24. CASE Tick
    BY <1>24, PendingTicks
  <1>25. CASE UNCHANGED vars
    BY <1>1, <1>25 DEF vars, apicVars, irqVars, Calibrating
  <1> QED
    BY <1>14, <1>15, <1>19, <1>20, <1>21, <1>22, <1>23, <1>24, <1>25, Zenon DEF Next, Kernel, Calls
-----------------------------------------------------------------------------
\* A unit of time.
LEMMA ATick ==
  ASSUME ClockTypes, CalibrationTick
  PROVE  /\ phase' = (IF phase + 1 = Period THEN 0 ELSE phase + 1) /\ phase' \in 0 .. Period - 1
         /\ lag' \in 0 .. MaxLag
         /\ count' \in 0 .. MaxCount /\ Elapsed' \in Nat /\ Elapsed' <= Elapsed + 1
         /\ flag' \in BOOLEAN /\ (flag' <=> flag \/ phase' = 0)
  <1>1. /\ phase \in Nat /\ Period \in Nat /\ phase < Period /\ MaxLag \in Nat
        /\ count \in Nat /\ count <= MaxCount /\ MaxCount \in Nat
        /\ lag \in Nat /\ lag <= MaxLag
    BY PeriodAssumption DEF ClockTypes
  <1>2. (phase + 1) % Period = IF phase + 1 = Period THEN 0 ELSE phase + 1
    BY <1>1, SMTT(30)
  <1>3. phase' = (IF phase + 1 = Period THEN 0 ELSE phase + 1) /\ phase' \in 0 .. Period - 1
    BY <1>1, <1>2, SMTT(30) DEF CalibrationTick
  <1>4. lag' \in 0 .. MaxLag
    BY <1>1, SMTT(30) DEF CalibrationTick
  <1>5. count' = (IF count = 0 THEN 0 ELSE count - 1)
    BY Zenon DEF CalibrationTick
  <1>6. count' \in 0 .. MaxCount /\ Elapsed' \in Nat /\ Elapsed' <= Elapsed + 1
    BY <1>1, <1>5 DEF Elapsed
  <1>7. flag' \in BOOLEAN /\ (flag' <=> flag \/ phase' = 0)
    BY Zenon DEF CalibrationTick
  <1> QED
    BY <1>3, <1>4, <1>6, <1>7, Zenon

LEMMA TicksType ==
  ASSUME numerator \in Nat, NEW ms \in MsRange
  PROVE  Ticks(ms) \in 0 .. MaxCount
  <1>1. ms \in Nat /\ UsPerMs \in Nat /\ Period \in Nat \ {0} /\ MaxCount \in Nat
    BY MsAssumption, PeriodAssumption
  <1> DEFINE us == ms * UsPerMs
             total == numerator * us
             q == total \div Period
  <1>2. us \in Nat
    BY <1>1
  <1> HIDE DEF us
  <1>3. total \in Nat
    BY <1>2
  <1> HIDE DEF total
  <1>4. q \in Nat
    BY <1>1, <1>3
  <1> HIDE DEF q
  <1>5. q % (MaxCount + 1) \in 0 .. MaxCount
    BY <1>1, <1>4, SMTT(30)
  <1> QED
    BY <1>5, Zenon DEF q, total, us, Ticks

LEMMA TypesKept ==
  ASSUME ClockTypes, Slept, [Next]_vars
  PROVE  ClockTypes'
  <1> USE DEF ClockTypes
  <1>1. ASSUME UNCHANGED <<received, rtc, time>>, count' \in {count, MaxCount, ticks}
        PROVE  ClockTypes'
    BY <1>1, PeriodAssumption, SMTT(30) DEF rtc, time, Slept
  <1>2. CASE (NextEntry \/ EntriesDone) /\ UNCHANGED <<apicVars, rtcVars>>
    BY <1>1, <1>2, Zenon DEF apicVars, rtcVars
  <1>3. CASE UpdateClocks("clocks1", "map") \/ UpdateClocks("clocks2", "idle")
    BY <1>1, <1>3, Zenon DEF UpdateClocks, apicVars
  <1>4. CASE Map \/ Unmap
    BY <1>1, <1>4, Zenon DEF Map, Unmap, apicVars, rtcVars
  <1>5. ASSUME NEW from, NEW to, Reset(from, to)
        PROVE  ClockTypes'
    BY <1>5, Zenon DEF Reset, apicVars, rtc, time
  <1>6. ASSUME NEW from, NEW to, Flush(from, to)
        PROVE  ClockTypes'
    BY <1>6, Zenon DEF Flush, Clock, time
  <1>7. CASE Enable \/ Disable
    BY <1>7, Zenon DEF Enable, Disable, Clock, time
  <1>8. ASSUME NEW from, NEW to, NEW exit, Test(from, to, exit) \/ Cli(from, to)
        PROVE  ClockTypes'
    BY <1>1, <1>8 DEF Test, Cli, apicVars, rtcVars
  <1>9. CASE StartTimer
    BY <1>1, <1>9 DEF StartTimer, rtcVars
  <1>10. CASE Measure
    <2>1. /\ flag' = FALSE /\ phase' = 0 /\ lag' = 0
          /\ UNCHANGED <<count, enabled, received>>
      BY <1>10 DEF Measure, apicVars
    <2>2. 0 \in 0 .. Period - 1 /\ 0 \in 0 .. MaxLag
      BY PeriodAssumption
    <2> QED
      BY <2>1, <2>2, Zenon
  <1>11. CASE Boot
    BY <1>2, <1>3, <1>4, <1>5, <1>6, <1>7, <1>8, <1>9, <1>10, <1>11, ZenonT(60) DEF Boot, Calibrate
  <1>12. CASE Setup
    BY <1>1, <1>12 DEF Setup
  <1>13. CASE Sleep
    BY <1>1, <1>8, <1>13
       DEF Sleep, Unmask, ClearReceived, WriteCount, TestReceived, Awake, apicVars, rtcVars
  <1>14. CASE Calls
    BY <1>1, <1>14, Zenon DEF Calls, Begin, StopCountdown, IrqCall, apicVars, rtcVars
  <1>15. CASE Deliver
    <2>1. received' \in BOOLEAN
      BY <1>15, Zenon DEF Deliver
    <2>2. UNCHANGED <<rtc, time, count>>
      BY <1>15, Zenon DEF Deliver, Take
    <2> QED
      BY <2>1, <2>2 DEF rtc, time
  <1>16. CASE CalibrationTick
    BY <1>16, ATick, Zenon DEF CalibrationTick
  <1>17. CASE TimerTick
    BY <1>17, PeriodAssumption, SMTT(30) DEF TimerTick, rtcVars, rtc, time
  <1>18. CASE UNCHANGED vars
    BY <1>1, <1>18, Zenon DEF vars, apicVars, rtcVars
  <1> QED
    BY <1>11, <1>12, <1>13, <1>14, <1>15, <1>16, <1>17, <1>18, ZenonT(60) DEF Next, Kernel, Tick
-----------------------------------------------------------------------------
\* The line of the clock has an edge when the flag and the enable bit become
\* both set.
LEMMA ClockEdge ==
  ASSUME Routes, Pending, Calibrating, pc # "measure", ~panicked, Reached(RtcIrq), NEW f, NEW e
  PROVE  ClockRaises(f, e) = IF f /\ e /\ ~(flag /\ enabled) THEN {<<RtcVector, "rtc">>} ELSE {}
  <1>1. pc # "madt" /\ RtcVector # None
    BY DEF Calibrating, Pending
  <1>2. InputOf(RtcIrq) \in DOMAIN redirect /\ redirect[InputOf(RtcIrq)] = RtcVector
    BY <1>1, RtcRouted, Zenon
  <1> QED
    BY <1>2, Zenon DEF ClockRaises, InputOf

\* Steps outside the calibration, and the one that begins it.
LEMMA OutsideWait ==
  ASSUME Waits, ~Calibrating, ~Calibrating' \/ pc' = "reset1", UNCHANGED <<enabled, numerator>>
  PROVE  Waits'
  <1>1. ~enabled' /\ numerator' \in Nat /\ numerator' <= Period + MaxLag
    BY Zenon DEF Waits, Calibrating
  <1> QED
    BY <1>1, Zenon DEF Waits, FirstWait, SecondWait, Calibrating, Measuring

\* Time passes in the calibration.
LEMMA WaitTicks ==
  ASSUME Routes, Pending, ClockTypes, Waits, Reached(RtcIrq), CalibrationTick
  PROVE  Waits'
  <1>1. /\ pc' = pc /\ Calibrating /\ ~panicked
        /\ received' = received /\ enabled' = enabled /\ numerator' = numerator
        /\ RtcVector' = RtcVector /\ irr' = irr \cup ClockRaises(flag', enabled) \cup TimerRaises
    BY Zenon DEF CalibrationTick, irqVars, routes, RtcVector
  <1>2. /\ phase' = (IF phase + 1 = Period THEN 0 ELSE phase + 1) /\ phase' \in Nat
        /\ lag' \in Nat /\ Elapsed' \in Nat /\ Elapsed' <= Elapsed + 1
        /\ flag' \in BOOLEAN /\ (flag' <=> flag \/ phase' = 0)
    BY ATick, PeriodAssumption, SMTT(30)
  <1>3. /\ phase \in Nat /\ phase < Period /\ lag \in Nat /\ lag <= MaxLag /\ MaxLag < Period
        /\ Elapsed \in Nat /\ Period \in Nat /\ MaxLag \in Nat
    BY PeriodAssumption, SMTT(30) DEF ClockTypes, Elapsed
  <1>4. \/ lag' = lag + 1 /\ lag < MaxLag
        \/ lag' = 0 /\ pc \in {"halt1", "halt2"} /\ irr = {}
    BY <1>3, Zenon DEF CalibrationTick, Halted, Calibrating
  <1>5. TimerRaises = {}
    BY <1>1, Zenon DEF Pending, TimerRaises, Calibrating, After, Sleeping
  <1>6. pc # "measure" => (RtcPending' <=> RtcPending \/ (enabled /\ flag' /\ ~flag))
    <2> SUFFICES ASSUME pc # "measure"
                 PROVE  RtcPending' <=> RtcPending \/ (enabled /\ flag' /\ ~flag)
      BY Zenon
    <2>1. ClockRaises(flag', enabled) =
            IF flag' /\ enabled /\ ~(flag /\ enabled) THEN {<<RtcVector, "rtc">>} ELSE {}
      BY <1>1, ClockEdge, Zenon
    <2> QED
      BY <1>1, <1>5, <2>1, Zenon DEF RtcPending, ClockTypes
  <1>7. ~enabled => irr' = irr
    BY <1>1, <1>5, Zenon DEF ClockRaises
  <1>8. irr = {} => ~RtcPending
    BY Zenon DEF RtcPending
  <1>9. FirstWait'
    <2>1. FirstWait /\ (enabled <=> pc \in {"flush1", "test1", "halt1", "wake1", "start_timer", "flush2",
                                           "reset2", "test2", "halt2", "wake2", "disable"})
      BY Zenon DEF Waits
    <2> HIDE DEF RtcPending, Elapsed
    <2>2. CASE pc \in {"test1", "halt1", "wake1", "start_timer", "flush2"}
      BY <2>1, <2>2, <1>1, <1>2, <1>3, <1>4, <1>6, <1>8, SMTT(30) DEF FirstWait
    <2>3. CASE pc \notin {"test1", "halt1", "wake1", "start_timer", "flush2"}
      BY <2>1, <2>3, <1>1, Zenon DEF FirstWait
    <2> QED
      BY <2>2, <2>3, Zenon
  <1>10. SecondWait'
    <2>1. SecondWait /\ (enabled <=> pc \in {"flush1", "test1", "halt1", "wake1", "start_timer", "flush2",
                                            "reset2", "test2", "halt2", "wake2", "disable"})
      BY Zenon DEF Waits
    <2> HIDE DEF RtcPending, Elapsed
    <2>2. CASE pc = "reset2" \/ (pc \in {"test2", "halt2"} /\ ~received)
      <3>1. /\ RtcPending => flag \/ phase <= lag
            /\ ~RtcPending => ~flag /\ Elapsed <= phase
            /\ Elapsed <= Period + lag /\ enabled
        BY <2>1, <2>2, Zenon DEF SecondWait, Measuring
      <3>2. RtcPending' <=> RtcPending \/ (flag' /\ ~flag)
        BY <2>2, <3>1, <1>6, Zenon
      <3>3. CASE lag' = lag + 1 /\ lag < MaxLag
        <4>1. RtcPending' => flag' \/ phase' <= lag'
          BY <3>1, <3>2, <3>3, <1>2, <1>3, SMTT(30)
        <4>2. ~RtcPending' => ~flag' /\ Elapsed' <= phase'
          BY <3>1, <3>2, <3>3, <1>2, <1>3, SMTT(30)
        <4>3. Elapsed' <= Period + lag'
          BY <3>1, <3>3, <1>2, <1>3, SMTT(30)
        <4> QED
          BY <2>2, <4>1, <4>2, <4>3, <1>1, Zenon DEF SecondWait, Measuring
      <3>4. CASE lag' = 0 /\ irr = {}
        <4>1. ~RtcPending /\ ~flag /\ Elapsed <= phase
          BY <3>1, <3>4, <1>8, Zenon
        <4>2. RtcPending' => flag' \/ phase' <= lag'
          BY <3>2, <4>1, Zenon
        <4>3. ~RtcPending' => ~flag' /\ Elapsed' <= phase'
          BY <3>2, <4>1, <1>2, <1>3, SMTT(30)
        <4>4. Elapsed' <= Period + lag'
          BY <3>4, <4>1, <1>2, <1>3, SMTT(30)
        <4> QED
          BY <2>2, <4>2, <4>3, <4>4, <1>1, SMTT(30) DEF SecondWait, Measuring
      <3> QED
        BY <3>3, <3>4, <1>4, Zenon
    <2>3. CASE pc \in {"test2", "wake2", "disable"} /\ received
      <3>1. ~RtcPending /\ (flag \/ phase <= lag) /\ Elapsed <= Period + lag
        BY <2>1, <2>3, Zenon DEF SecondWait, Measuring
      <3>2. lag' = lag + 1 /\ lag < MaxLag
        BY <2>3, <1>4, Zenon
      <3>3. flag' \/ phase' <= lag'
        BY <3>1, <3>2, <1>2, <1>3, SMTT(30)
      <3>4. flag' => flag
        BY <3>1, <3>2, <1>2, <1>3, SMTT(30)
      <3>5. ~RtcPending'
        BY <2>3, <3>1, <3>4, <1>6, Zenon
      <3>6. Elapsed' <= Period + lag'
        BY <3>1, <3>2, <1>2, <1>3, SMTT(30)
      <3> QED
        BY <2>3, <3>3, <3>5, <3>6, <1>1, Zenon DEF SecondWait, Measuring
    <2>4. CASE pc \in {"flush3", "reset3", "unmap", "measure"}
      <3>1. irr = {} /\ Elapsed <= Period + lag /\ ~enabled
        BY <2>1, <2>4, Zenon DEF SecondWait, Measuring
      <3>2. lag' = lag + 1
        BY <2>4, <1>4, Zenon
      <3>3. irr' = {} /\ Elapsed' <= Period + lag'
        BY <3>1, <3>2, <1>2, <1>3, <1>7, SMTT(30)
      <3> QED
        BY <2>4, <3>3, <1>1, Zenon DEF SecondWait, Measuring
    <2>5. CASE pc \notin {"reset2"} \cup Measuring
      BY <2>1, <2>5, <1>1, Zenon DEF SecondWait, Measuring
    <2>6. (pc \in {"wake2", "disable"} => received) /\ (pc = "halt2" => ~received)
      BY <2>1, Zenon DEF SecondWait
    <2> QED
      BY <2>2, <2>3, <2>4, <2>5, <2>6, Zenon DEF Measuring
  <1> QED
    BY <1>1, <1>9, <1>10, Zenon DEF Waits

\* Steps of the calibration that do not touch the hardware.
LEMMA WaitMovesOn ==
  ASSUME Waits, UNCHANGED <<irr, count, flag, enabled, phase, lag, numerator, legacy_irqs>>,
         \/ /\ received' = FALSE
            /\ <<pc, pc'>> \in {<<"reset1", "enable">>, <<"reset2", "test2">>, <<"reset3", "unmap">>}
         \/ /\ received' = received
            /\ \/ received /\ <<pc, pc'>> \in {<<"test1", "start_timer">>, <<"test2", "disable">>}
               \/ ~received /\ <<pc, pc'>> \in {<<"test1", "halt1">>, <<"test2", "halt2">>}
               \/ <<pc, pc'>> \in {<<"wake1", "test1">>, <<"wake2", "test2">>}
               \/ pc' = pc
  PROVE  Waits'
  <1>1. UNCHANGED <<irr, flag, enabled, phase, lag, numerator, RtcPending, Elapsed>>
    BY Zenon DEF RtcVector, RtcPending, Elapsed
  <1> HIDE DEF RtcPending, Elapsed
  <1>2. enabled' <=> pc' \in {"flush1", "test1", "halt1", "wake1", "start_timer", "flush2",
                             "reset2", "test2", "halt2", "wake2", "disable"}
    BY <1>1, SMTT(30) DEF Waits
  <1>3. FirstWait'
    BY <1>1, SMTT(30) DEF Waits, FirstWait
  <1>4. SecondWait'
    BY <1>1, SMTT(30) DEF Waits, SecondWait, Measuring
  <1> QED
    BY <1>1, <1>2, <1>3, <1>4, Zenon DEF Waits

\* Steps that access the clock.
LEMMA WaitAccess ==
  ASSUME Pending, ~panicked, ClockTypes, Waits, Routes,
         UNCHANGED <<received, phase, lag, numerator, legacy_irqs>>,
         \/ Clock(flag, TRUE) /\ pc = "enable" /\ pc' = "flush1"
         \/ Clock(flag, FALSE) /\ pc = "disable" /\ pc' = "flush3"
         \/ /\ Clock(FALSE, enabled)
            /\ <<pc, pc'>> \in {<<"flush1", "test1">>, <<"flush2", "reset2">>, <<"flush3", "reset3">>}
  PROVE  Waits'
  <1>1. RtcVector' = RtcVector /\ Elapsed' = Elapsed
    BY Zenon DEF RtcVector, Elapsed, Clock
  <1>2. CASE Clock(flag, TRUE) /\ pc = "enable" /\ pc' = "flush1"
    <2>1. enabled' = TRUE
      BY <1>2, Zenon DEF Clock
    <2> QED
      BY <1>2, <2>1, Zenon DEF Waits, FirstWait, SecondWait, Measuring
  <1>3. CASE Clock(flag, FALSE) /\ pc = "disable" /\ pc' = "flush3"
    <2>1. enabled' = FALSE /\ irr' = irr
      BY <1>3, Zenon DEF Clock, ClockRaises
    <2>2. irr = {}
      BY <1>3, Zenon DEF Pending, Calibrating, Waits, SecondWait, RtcPending
    <2> QED
      BY <1>1, <1>3, <2>1, <2>2, Zenon DEF Waits, FirstWait, SecondWait, Measuring
  <1>4. CASE /\ Clock(FALSE, enabled)
             /\ <<pc, pc'>> \in {<<"flush1", "test1">>, <<"flush2", "reset2">>, <<"flush3", "reset3">>}
    <2>1. flag' = FALSE /\ enabled' = enabled /\ irr' = irr
      BY <1>4, Zenon DEF Clock, ClockRaises
    <2>2. RtcPending' <=> RtcPending
      BY <1>1, <2>1, Zenon DEF RtcPending
    <2>3. /\ phase \in Nat /\ lag \in Nat /\ Period \in Nat /\ Elapsed \in Int
      BY PeriodAssumption, SMTT(30) DEF ClockTypes, Elapsed
    <2> HIDE DEF RtcPending, Elapsed
    <2>4. CASE pc = "flush1" /\ pc' = "test1"
      BY <1>1, <2>1, <2>2, <2>4, Zenon DEF Waits, FirstWait, SecondWait, Measuring
    <2>5. CASE pc = "flush2" /\ pc' = "reset2"
      <3>1. /\ received /\ (RtcPending => phase <= lag) /\ (~RtcPending => Elapsed <= phase)
            /\ Elapsed <= lag
        BY <2>5, Zenon DEF Waits, FirstWait
      <3>2. Elapsed <= Period + lag
        BY <3>1, <2>3, SMTT(30)
      <3> QED
        BY <1>1, <2>1, <2>2, <2>5, <3>1, <3>2, Zenon
           DEF Waits, FirstWait, SecondWait, Measuring
    <2>6. CASE pc = "flush3" /\ pc' = "reset3"
      BY <1>1, <2>1, <2>2, <2>6, Zenon DEF Waits, FirstWait, SecondWait, Measuring
    <2> QED
      BY <1>4, <2>4, <2>5, <2>6, Zenon
  <1> QED
    BY <1>2, <1>3, <1>4, Zenon

\* The interrupt of the clock ends the wait it came for.
LEMMA WaitTaken ==
  ASSUME Routes, Pending, Waits, Deliver
  PROVE  Waits'
  <1>1. PICK vector \in Index : Take(vector) /\ received' = (received \/ idt[vector] = RtcHandler)
    BY Zenon DEF Deliver
  <1>2. /\ ~panicked /\ pc \in Halted \cup {"wake1", "wake2", "wake3"} /\ pc' = Wakes(pc)
        /\ UNCHANGED <<legacy_irqs, flag, enabled, phase, lag, numerator, count>>
    BY <1>1, Zenon DEF Deliver, Take, rtc, time
  <1>3. CASE pc \in {"halt1", "halt2", "wake1", "wake2"}
    <2>1. Calibrating /\ pc \notin {"measure", "madt"}
      BY <1>3, Zenon DEF Calibrating
    <2>2. irr \subseteq {<<RtcVector, "rtc">>} /\ RtcVector # None /\ wanted[RtcIrq] = RtcHandler
      BY <1>2, <2>1, Zenon DEF Pending
    <2>3. vector = RtcVector /\ RtcPending /\ irr' = {}
      <3>1. (\E q \in irr : q[1] = vector) /\ irr' = {q \in irr : q[1] # vector}
        BY <1>1, Zenon DEF Take
      <3>2. PICK q \in irr : q[1] = vector
        BY <3>1, Zenon
      <3>3. q = <<RtcVector, "rtc">> /\ <<RtcVector, "rtc">>[1] = RtcVector
        BY <2>2, <3>2
      <3>4. vector = RtcVector /\ RtcPending
        BY <3>2, <3>3, Zenon DEF RtcPending
      <3>5. \A p \in irr : p[1] = vector
        BY <2>2, <3>3, <3>4, Zenon
      <3>6. irr' = {}
        BY <3>1, <3>5, Zenon
      <3> QED
        BY <3>4, <3>6, Zenon
    <2>4. idt[vector] = RtcHandler
      BY <1>2, <2>1, <2>2, <2>3, RtcRouted, Zenon
    <2>5. received' = TRUE
      BY <1>1, <2>4, Zenon
    <2>6. /\ ~RtcPending' /\ Elapsed' = Elapsed
      BY <1>2, <2>3 DEF RtcPending, Elapsed
    <2> HIDE DEF RtcPending, Elapsed
    <2>7. CASE pc \in {"halt1", "wake1"}
      <3>1. pc' = "wake1"
        BY <1>2, <2>7, Zenon DEF Wakes
      <3> QED
        BY <1>2, <2>5, <2>6, <2>7, <3>1, Zenon DEF Waits, FirstWait, SecondWait, Measuring
    <2>8. CASE pc \in {"halt2", "wake2"}
      <3>1. pc' = "wake2"
        BY <1>2, <2>8, Zenon DEF Wakes
      <3> QED
        BY <1>2, <2>3, <2>5, <2>6, <2>8, <3>1, Zenon
           DEF Waits, FirstWait, SecondWait, Measuring
    <2> QED
      BY <1>3, <2>7, <2>8, Zenon
  <1>4. CASE pc \in {"halt3", "wake3"}
    <2>1. pc' = "wake3"
      BY <1>2, <1>4, Zenon DEF Wakes
    <2> QED
      BY <1>2, <1>4, <2>1, OutsideWait, Zenon DEF Calibrating
  <1> QED
    BY <1>2, <1>3, <1>4, Zenon DEF Halted

LEMMA WaitsKept ==
  ASSUME Routes, Pending, ClockTypes, Waits, Calibrating => Reached(RtcIrq), [Next]_vars
  PROVE  Waits'
  <1>1. CASE Boot
    <2>1. CASE (NextEntry \/ EntriesDone) /\ UNCHANGED <<apicVars, rtcVars>>
      BY <2>1, OutsideWait, Zenon DEF NextEntry, EntriesDone, rtcVars, rtc, Calibrating
    <2>2. CASE UpdateClocks("clocks1", "map") \/ UpdateClocks("clocks2", "idle")
      BY <2>2, OutsideWait, Zenon DEF UpdateClocks, Goto, rtc, Calibrating
    <2>3. CASE Map
      BY <2>3, OutsideWait, Zenon DEF Map, Goto, rtcVars, rtc, Calibrating
    <2>4. CASE Reset("reset1", "enable") \/ Reset("reset2", "test2") \/ Reset("reset3", "unmap")
      BY <2>4, WaitMovesOn, Zenon DEF Reset, Goto, apicVars, rtc, time, irqVars, routes
    <2>5. CASE Test("test1", "halt1", "start_timer") \/ Test("test2", "halt2", "disable")
      BY <2>5, WaitMovesOn, Zenon DEF Test, Goto, apicVars, rtcVars, rtc, time, irqVars, routes
    <2>6. CASE Cli("wake1", "test1") \/ Cli("wake2", "test2")
      BY <2>6, WaitMovesOn, Zenon DEF Cli, Goto, apicVars, rtcVars, rtc, time, irqVars, routes
    <2>7. CASE ~panicked /\ (Enable \/ Disable)
      BY <2>7, WaitAccess, Zenon DEF Enable, Disable, Goto, time, irqVars, routes
    <2>8. CASE /\ ~panicked
               /\ \/ Flush("flush1", "test1")
                  \/ Flush("flush2", "reset2") \/ Flush("flush3", "reset3")
      BY <2>8, WaitAccess, Zenon DEF Flush, Goto, time, irqVars, routes
    <2>9. CASE StartTimer
      <3>1. /\ pc = "start_timer" /\ pc' = "flush2" /\ count' = MaxCount
            /\ UNCHANGED <<irr, received, flag, enabled, phase, lag, numerator, legacy_irqs>>
        BY <2>9, Zenon DEF StartTimer, Goto, rtcVars, rtc, time, irqVars, routes
      <3>2. (RtcPending' <=> RtcPending) /\ Elapsed' = 0
        BY <3>1, PeriodAssumption, SMTT(30) DEF RtcPending, RtcVector, Elapsed
      <3>3. phase \in Nat /\ lag \in Nat
        BY DEF ClockTypes
      <3>4. Elapsed' <= lag' /\ Elapsed' <= phase'
        BY <3>1, <3>2, <3>3, SMTT(30)
      <3> HIDE DEF RtcPending, Elapsed
      <3> QED
        BY <3>1, <3>2, <3>4, Zenon DEF Waits, FirstWait, SecondWait, Measuring
    <2>10. CASE Unmap
      <3>1. /\ pc = "unmap" /\ pc' = "measure"
            /\ UNCHANGED <<irr, count, lag, enabled, numerator>>
        BY <2>10, Zenon DEF Unmap, Goto, apicVars, rtcVars, rtc, time
      <3>2. Elapsed' = Elapsed
        BY <3>1, Zenon DEF Elapsed
      <3> HIDE DEF Elapsed
      <3> QED
        BY <3>1, <3>2, Zenon DEF Waits, FirstWait, SecondWait, Measuring
    <2>11. CASE Measure
      <3>1. /\ pc = "measure" /\ pc' = "setup" /\ numerator' = Elapsed /\ enabled' = enabled
        BY <2>11, Zenon DEF Measure, Goto, Elapsed
      <3>2. Elapsed <= Period + lag /\ ~enabled
        BY <3>1, Zenon DEF Waits, SecondWait, Measuring
      <3>3. Elapsed \in Nat /\ Elapsed <= Period + MaxLag
        BY <3>2, PeriodAssumption, SMTT(30) DEF ClockTypes, Elapsed
      <3> QED
        BY <3>1, <3>2, <3>3, Zenon DEF Waits, FirstWait, SecondWait, Measuring
    <2> QED
      BY <1>1, <2>1, <2>2, <2>3, <2>4, <2>5, <2>6, <2>7, <2>8, <2>9, <2>10, <2>11, Zenon
         DEF Boot, Calibrate
  <1>2. CASE Setup
    BY <1>2, OutsideWait DEF Setup, Goto, rtc, Calibrating
  <1>3. CASE Sleep
    BY <1>3, OutsideWait
       DEF Sleep, Unmask, ClearReceived, WriteCount, TestReceived, Awake, Cli, Goto, rtcVars, rtc,
       Calibrating
  <1>4. CASE Calls
    BY <1>4, OutsideWait DEF Calls, Begin, StopCountdown, IrqCall, Available, rtcVars, rtc,
       Calibrating
  <1>5. CASE Deliver
    BY <1>5, WaitTaken
  <1>6. CASE CalibrationTick
    BY <1>6, WaitTicks, Zenon DEF CalibrationTick
  <1>7. CASE TimerTick
    <2>1. pc \in After \ {"setup"} /\ pc' = pc
      BY <1>7, Zenon DEF TimerTick, Pending
    <2> QED
      BY <1>7, <2>1, OutsideWait, Zenon DEF TimerTick, rtcVars, rtc, Calibrating, After, Sleeping
  <1>8. CASE UNCHANGED vars
    BY <1>8, WaitMovesOn, Zenon DEF vars, apicVars, rtcVars, rtc, time, irqVars, routes
  <1> QED
    BY <1>1, <1>2, <1>3, <1>4, <1>5, <1>6, <1>7, <1>8, Zenon DEF Next, Kernel, Tick

\* A calibration begins when the clock is mapped.
LEMMA CalibrationBegins ==
  ASSUME [Next]_vars, ~Calibrating, Calibrating'
  PROVE  Map
  <1>1. CASE Boot
    BY <1>1, Zenon DEF Boot, Calibrate, NextEntry, EntriesDone, UpdateClocks, Reset, Enable, Flush,
       Test, Cli, StartTimer, Disable, Unmap, Measure, Goto, Calibrating
  <1>2. CASE Setup
    BY <1>2, Zenon DEF Setup, Goto, Calibrating
  <1>3. CASE Sleep
    BY <1>3, Zenon DEF Sleep, Unmask, ClearReceived, WriteCount, TestReceived, Awake, Cli, Goto,
       Calibrating
  <1>4. CASE Calls
    BY <1>4 DEF Calls, Begin, StopCountdown, IrqCall, Available, Calibrating
  <1>5. CASE Deliver
    BY <1>5 DEF Deliver, Halted, Wakes, Calibrating
  <1>6. CASE Tick
    BY <1>6, Zenon DEF Tick, CalibrationTick, TimerTick, Calibrating
  <1>7. CASE UNCHANGED vars
    BY <1>7, Zenon DEF vars, Calibrating
  <1> QED
    BY <1>1, <1>2, <1>3, <1>4, <1>5, <1>6, <1>7, Zenon DEF Next, Kernel

\* The tables do not change during it.
LEMMA CalibrationReaches ==
  ASSUME [Next]_vars, Calibrating
  PROVE  Reached(RtcIrq)' <=> Reached(RtcIrq)
  <1>1. pc # "madt"
    BY DEF Calibrating
  <1>2. UNCHANGED tables
    BY <1>1, StepsAfterMadt, Zenon DEF NextEntry, EntriesDone
  <1> QED
    BY <1>2, WiresKept, Zenon

\* No interrupt of a clock whose entry is masked is ever pending.
LEMMA UnheardKept ==
  ASSUME Routes, Pending, Calibrating, ~Reached(RtcIrq), Unheard, [Next]_vars
  PROVE  Unheard' /\ Calibrating'
  <1>1. /\ pc \in {"reset1", "enable", "flush1", "test1", "halt1"} /\ pc # "madt"
        /\ irr = {} /\ (pc # "reset1" => ~received)
    BY Zenon DEF Unheard
  <1>2. InputOf(RtcIrq) \notin DOMAIN redirect
    BY <1>1, InputUsed, RtcIrqAssumption, Zenon DEF Routes
  <1>3. \A f, e : ClockRaises(f, e) = {}
    BY <1>2, Zenon DEF ClockRaises, InputOf
  <1>4. TimerRaises = {}
    BY <1>1, Zenon DEF Pending, TimerRaises, After, Sleeping
  <1>5. ASSUME pc' \in {"reset1", "enable", "flush1", "test1", "halt1"}, irr' = {},
               pc' # "reset1" => ~received', numerator' = numerator
        PROVE  Unheard' /\ Calibrating'
    BY <1>5, Zenon DEF Unheard, Calibrating
  <1>6. CASE Boot
    <2>1. CASE Reset("reset1", "enable")
      BY <2>1, <1>1, <1>5, Zenon DEF Reset, Goto, apicVars
    <2>2. CASE Enable
      BY <2>2, <1>1, <1>3, <1>5, Zenon DEF Enable, Goto, Clock
    <2>3. CASE Flush("flush1", "test1")
      BY <2>3, <1>1, <1>3, <1>5, Zenon DEF Flush, Goto, Clock
    <2>4. CASE Test("test1", "halt1", "start_timer")
      BY <2>4, <1>1, <1>5, Zenon DEF Test, Goto, apicVars, rtcVars
    <2> QED
      BY <1>1, <1>6, <2>1, <2>2, <2>3, <2>4, Zenon
         DEF Boot, Calibrate, NextEntry, EntriesDone, UpdateClocks, Map, Reset, Flush, Test, Cli,
             StartTimer, Disable, Unmap, Measure, Goto
  <1>7. ~Setup /\ ~Sleep /\ ~Calls
    BY <1>1, Zenon
       DEF Setup, Sleep, Unmask, ClearReceived, WriteCount, TestReceived, Awake, Cli, Goto, Calls,
           Begin, StopCountdown, IrqCall, Available
  <1>8. ~Deliver
    BY <1>1, Zenon DEF Deliver, Take
  <1>9. CASE CalibrationTick
    BY <1>9, <1>1, <1>3, <1>4, <1>5, Zenon DEF CalibrationTick
  <1>10. ~TimerTick
    BY <1>1, Zenon DEF TimerTick, Pending, After, Sleeping
  <1>11. CASE UNCHANGED vars
    BY <1>11, <1>1, <1>5, Zenon DEF vars, apicVars, rtcVars
  <1> QED
    BY <1>6, <1>7, <1>8, <1>9, <1>10, <1>11, Zenon DEF Next, Kernel, Tick

LEMMA CalibrationKept ==
  ASSUME Routes, Pending, ClockTypes, Calibration, [Next]_vars
  PROVE  Calibration'
  <1>1. CASE Calibrating /\ ~Reached(RtcIrq)
    <2>1. Unheard' /\ Calibrating' /\ ~Reached(RtcIrq)'
      BY <1>1, UnheardKept, CalibrationReaches, Zenon DEF Calibration
    <2> QED
      BY <2>1, Zenon DEF Calibration
  <1>2. CASE Calibrating => Reached(RtcIrq)
    <2>1. Waits /\ Waits'
      BY <1>2, WaitsKept, Zenon DEF Calibration
    <2>2. ASSUME Calibrating', ~Reached(RtcIrq)'
          PROVE  Unheard'
      <3>1. Map
        BY <1>2, <2>2, CalibrationReaches, CalibrationBegins, Zenon
      <3>2. pc = "map" /\ pc' = "reset1" /\ irr' = irr
        BY <3>1, Zenon DEF Map, Goto, apicVars
      <3>3. irr = {}
        BY <3>2, Zenon DEF Pending, Before
      <3> QED
        BY <2>1, <3>2, <3>3, Zenon DEF Unheard, Waits
    <2> QED
      BY <2>1, <2>2, Zenon DEF Calibration
  <1> QED
    BY <1>1, <1>2, Zenon
-----------------------------------------------------------------------------
\* Steps outside a sleep.
LEMMA OutsideSleep ==
  ASSUME Slept, ticks' \in {ticks} \cup 0 .. MaxCount, slept' \in {slept} \cup 0 .. MaxCount,
         pc' \notin Sleeping \cup {"count", "awake"}
  PROVE  Slept'
  BY Zenon DEF Slept

\* Steps that change neither the sleep nor the timer.
LEMMA SleepLeft ==
  ASSUME Slept, UNCHANGED <<timerVars, count, timer>>, irr' \subseteq irr,
         pc' = pc \/ (pc' = "test3" /\ pc \in Sleeping) \/ (pc' \in {"halt3",
         "wake3"} /\ pc \in Sleeping)
  PROVE  Slept'
  <1>1. UNCHANGED <<interrupt_received, ticks, call, slept, clean, count, timer>>
    BY Zenon DEF timerVars
  <1> QED
    BY <1>1, Zenon DEF Slept, Sleeping

LEMMA SleptTicks ==
  ASSUME Pending, ClockTypes, Slept, TimerTick
  PROVE  Slept'
  <1>1. /\ pc' = pc /\ pc \in After \ {"setup"} /\ count' = count - 1 /\ count > 0
        /\ irr' = irr \cup TimerRaises
        /\ slept' = IF call = "sleep" /\ slept < MaxCount THEN slept + 1 ELSE slept
        /\ UNCHANGED <<interrupt_received, ticks, call, clean, timer, lvt>>
    BY ZenonT(60) DEF TimerTick, Pending, irqVars, routes
  <1>2. /\ lvt.vector = timer /\ MaxCount \in Nat
        /\ count \in Nat /\ count <= MaxCount
        /\ slept \in Nat /\ slept <= MaxCount /\ ticks \in Nat /\ ticks <= MaxCount
    BY <1>1, PeriodAssumption, SMTT(30) DEF Pending, ClockTypes, Slept
  <1>3. slept' \in 0 .. MaxCount
    BY <1>1, <1>2, SMTT(30)
  <1>4. ASSUME pc \in Sleeping, clean
        PROVE  slept' + count' = ticks /\ ~interrupt_received
               /\ (<<timer, "timer">> \in irr' => count' = 0)
    <2>1. slept + count = ticks /\ ~(interrupt_received \/ <<timer, "timer">> \in irr) /\ call = "sleep"
      BY <1>1, <1>2, <1>4, SMTT(30) DEF Slept
    <2>2. slept' = slept + 1
      BY <1>1, <1>2, <2>1, SMTT(30)
    <2>3. <<timer, "timer">> \in TimerRaises => count = 1
      BY Zenon DEF TimerRaises
    <2> QED
      BY <1>1, <1>2, <2>1, <2>2, <2>3, SMTT(30)
  <1>5. ~(pc = "awake" /\ clean)
    BY <1>1, <1>2, SMTT(30) DEF Slept
  <1> QED
    BY <1>1, <1>3, <1>4, <1>5, Zenon DEF Slept

LEMMA SleptTaken ==
  ASSUME Pending, Slept, Deliver
  PROVE  Slept'
  <1>1. PICK vector \in Index :
          Take(vector) /\ interrupt_received' = (interrupt_received \/ idt[vector] = SleepHandler)
    BY Zenon DEF Deliver
  <1>2. /\ pc \in Halted \cup {"wake1", "wake2", "wake3"} /\ pc' = Wakes(pc) /\ irr' \subseteq irr
        /\ UNCHANGED <<ticks, call, slept, clean, count, timer>>
    BY <1>1, Zenon DEF Deliver, Take
  <1>3. CASE pc \in {"halt1", "halt2", "wake1", "wake2"}
    BY <1>2, <1>3, OutsideSleep, Zenon DEF Wakes, Sleeping
  <1>4. CASE pc \in {"halt3", "wake3"}
    <2>1. pc' = "wake3"
      BY <1>2, <1>4, Zenon DEF Wakes
    <2>2. irr \subseteq {<<timer, "timer">>}
      BY <1>4, Zenon DEF Pending, After, Sleeping
    <2>3. <<timer, "timer">> \in irr
      BY <1>1, <2>2, Zenon DEF Take
    <2>4. clean => slept + count = ticks /\ count = 0
      BY <1>4, <2>3, Zenon DEF Slept, Sleeping
    <2> QED
      BY <1>2, <1>4, <2>1, <2>4, Zenon DEF Slept, Sleeping
  <1> QED
    BY <1>2, <1>3, <1>4, Zenon DEF Halted

LEMMA SleptKept ==
  ASSUME Pending, ClockTypes, Calibration, Slept, [Next]_vars
  PROVE  Slept'
  <1>1. CASE Boot
    <2>1. UNCHANGED timerVars
      BY <1>1, Zenon DEF Boot
    <2>2. pc' \notin Sleeping \cup {"count", "awake"}
      BY <1>1, Zenon DEF Boot, Calibrate, NextEntry, EntriesDone, UpdateClocks, Map, Reset,
         Enable, Flush, Test, Cli,
                  StartTimer, Disable, Unmap, Measure, Goto, Sleeping
    <2> QED
      BY <2>1, <2>2, OutsideSleep, Zenon DEF timerVars
  <1>2. CASE Setup
    BY <1>2, OutsideSleep DEF Setup, Goto, timerVars, Sleeping
  <1>3. CASE Unmask
    BY <1>3, OutsideSleep, Zenon DEF Unmask, Goto, timerVars, Sleeping
  <1>4. CASE ClearReceived
    BY <1>4, Zenon DEF ClearReceived, Goto, Slept, Sleeping
  <1>5. CASE WriteCount
    <2>1. CASE call = "sleep"
      <3>1. /\ pc = "count" /\ pc' = "test3" /\ count' = ticks /\ call' = "sleep" /\ slept' = 0
            /\ clean' = (call = "sleep" /\ <<lvt.vector, "timer">> \notin irr)
            /\ UNCHANGED <<interrupt_received, ticks, irr, timer>>
        BY <1>5, <2>1, Zenon DEF WriteCount, Goto, irqVars, routes
      <3>2. clean' => <<timer, "timer">> \notin irr
        BY <3>1, Zenon DEF Pending, After, Sleeping
      <3>3. ticks \in Nat /\ 0 \in 0 .. MaxCount
        BY PeriodAssumption, SMTT(30) DEF Slept
      <3> QED
        BY <3>1, <3>2, <3>3, SMTT(30) DEF Slept, Sleeping
    <2>2. CASE call # "sleep"
      BY <1>5, <2>2, OutsideSleep, PeriodAssumption, SMTT(30) DEF WriteCount, Goto, Sleeping
    <2> QED
      BY <2>1, <2>2, Zenon
  <1>6. CASE TestReceived
    <2>1. pc = "test3" /\ UNCHANGED <<interrupt_received, ticks, call, slept, clean, count, timer, irr>>
      BY <1>6, Zenon DEF TestReceived, Goto, timerVars, apicVars, irqVars, routes
    <2>2. CASE interrupt_received
      <3>1. pc' = "awake"
        BY <1>6, <2>2, Zenon DEF TestReceived, Goto
      <3>2. clean => slept + count = ticks /\ count = 0
        BY <2>1, <2>2, Zenon DEF Slept, Sleeping
      <3>3. clean => slept = ticks
        BY <3>2, SMTT(30) DEF Slept
      <3> QED
        BY <2>1, <3>1, <3>2, <3>3, Zenon DEF Slept, Sleeping
    <2>3. CASE ~interrupt_received
      <3>1. pc' = "halt3"
        BY <1>6, <2>3, Zenon DEF TestReceived, Goto
      <3> QED
        BY <2>1, <3>1, SleepLeft, Zenon DEF timerVars, Sleeping
    <2> QED
      BY <2>2, <2>3, Zenon
  <1>7. CASE Awake
    BY <1>7, OutsideSleep, PeriodAssumption, SMTT(30) DEF Awake, Goto, Sleeping
  <1>8. CASE Cli("wake3", "test3") /\ UNCHANGED timerVars
    BY <1>8, SleepLeft, Zenon DEF Cli, Goto, apicVars, irqVars, routes, Sleeping
  <1>9. CASE Sleep
    BY <1>3, <1>4, <1>5, <1>6, <1>7, <1>8, <1>9, Zenon DEF Sleep
  <1>10. ASSUME NEW ms \in MsRange, NEW what \in {"sleep", "countdown"}, Begin(what, ms)
         PROVE  Slept'
    <2>1. Ticks(ms) \in 0 .. MaxCount
      BY TicksType, Zenon DEF Calibration, Unheard, Waits
    <2> QED
      BY <1>10, <2>1, OutsideSleep, Zenon DEF Begin, Sleeping
  <1>11. CASE StopCountdown \/ IrqCall
    BY <1>11, OutsideSleep, Zenon DEF StopCountdown, IrqCall, Available, timerVars, Sleeping
  <1>12. CASE Deliver
    BY <1>12, SleptTaken, Zenon
  <1>13. CASE CalibrationTick /\ UNCHANGED timerVars
    BY <1>13, OutsideSleep, ZenonT(60) DEF CalibrationTick, Calibrating, timerVars, Sleeping
  <1>14. CASE TimerTick
    BY <1>14, SleptTicks
  <1>15. CASE UNCHANGED vars
    BY <1>15, SleepLeft DEF vars, apicVars, irqVars, routes
  <1> QED
    BY <1>1, <1>2, <1>9, <1>10, <1>11, <1>12, <1>13, <1>14, <1>15, SMTT(30)
       DEF Next, Kernel, Calls, Tick
-----------------------------------------------------------------------------
LEMMA TimerInit == Init => TimerInv
  <1> SUFFICES ASSUME Init PROVE TimerInv
    OBVIOUS
  <1>1. /\ pc = "madt" /\ RoutesInit /\ timer = None /\ panicked = FALSE
        /\ irr = {} /\ lvt = [vector |-> None, masked |-> TRUE] /\ count = 0 /\ stray = {}
    BY Zenon DEF Init, MadtInit, RoutesInit, LocalApicInit
  <1>2. /\ received = TRUE /\ flag \in BOOLEAN /\ enabled = FALSE /\ phase \in 0 .. Period - 1
        /\ lag = 0 /\ numerator = 0
    BY DEF Init, RtcInit
  <1>3. interrupt_received = FALSE /\ ticks = 0 /\ slept = 0
    BY Zenon DEF Init
  <1>4. 0 \in 0 .. MaxLag /\ 0 \in 0 .. MaxCount /\ 0 <= Period + MaxLag
    BY PeriodAssumption
  <1>5. TablesRead
    BY TablesInit, Zenon
  <1>6. Routes
    BY <1>1, Zenon DEF Routes
  <1>7. Pending
    BY <1>1, Zenon DEF Pending, Calibrating, After, Sleeping
  <1>8. ClockTypes
    BY <1>1, <1>2, <1>4, ZenonT(60) DEF ClockTypes
  <1>9. Calibration
    <2>1. Waits
      BY <1>1, <1>2, <1>4, SMTT(30) DEF Waits, FirstWait, SecondWait, Measuring
    <2>2. ~Calibrating
      BY <1>1, Zenon DEF Calibrating
    <2> QED
      BY <2>1, <2>2, Zenon DEF Calibration
  <1>10. Slept
    BY <1>1, <1>3, <1>4 DEF Slept, Sleeping
  <1> QED
    BY <1>5, <1>6, <1>7, <1>8, <1>9, <1>10, Zenon DEF TimerInv

LEMMA TimerInvariant == Spec => []TimerInv
  <1>1. TimerInv /\ [Next]_vars => TimerInv'
    BY TablesKept, RoutesKept, PendingKept, TypesKept, CalibrationKept, SleptKept, SMTT(30)
       DEF TimerInv
  <1> QED
    BY <1>1, TimerInit, PTL DEF Spec

\* For every MADT: when the loop of init_from_madt ends, the kernel has every
\* I/O APIC and every override of the table, and finds for each IRQ the interrupt
\* that the first of its overrides names.
THEOREM TableIsFollowed == Spec => []MadtFollowed
  <1>1. TimerInv => MadtFollowed
    BY TablesFollow, ZenonT(60) DEF TimerInv
  <1> QED
    BY <1>1, TimerInvariant, PTL

\* An interrupt is only handled by the code that asked for it, although the
\* vector of the clock is given to the timer after the calibration: none of the
\* clock's is pending when calibration_sleep unmaps its IRQ, and no call of
\* another driver replaces the timer's handler.
THEOREM NothingStrays == Spec => []NoStrayInterrupt
  <1>1. TimerInv => NoStrayInterrupt
    BY DEF TimerInv, Pending, NoStrayInterrupt
  <1> QED
    BY <1>1, TimerInvariant, PTL

\* calibrate measures no more than one period of the clock and what the kernel
\* itself takes, for every phase that the clock may have.
THEOREM MeasuredNotLonger == Spec => []NotLonger
  <1>1. TimerInv => NotLonger
    BY Zenon DEF TimerInv, Calibration, Unheard, Waits, NotLonger
  <1> QED
    BY <1>1, TimerInvariant, PTL

\* sleep_ms does not return before its ticks have passed, when no interrupt of
\* the timer was pending as it wrote the count.
THEOREM SleepsLongEnough == Spec => []SleepNotShort
  <1>1. TimerInv => SleepNotShort
    BY DEF TimerInv, Slept, SleepNotShort
  <1> QED
    BY <1>1, TimerInvariant, PTL

\* The same that is proved of the calls alone, from the reading of the MADT on:
\* the tables it leaves are as the calls need them, and the calibration and the
\* timer use them as any other caller. Whatever the version field makes of the
\* search for an I/O APIC, a mapped IRQ whose entry is found reaches its handler,
\* and the input of an IRQ that nobody maps stays masked.
THEOREM RoutesStayRight == Spec => [](VectorsUnique /\ RoutedToHandler /\ UnmappedIsMasked)
  <1>1. TimerInv => VectorsUnique /\ RoutedToHandler /\ UnmappedIsMasked
    <2> SUFFICES ASSUME TimerInv, ~panicked
                 PROVE  VectorsUnique /\ RoutedToHandler /\ UnmappedIsMasked
      BY Zenon DEF VectorsUnique, RoutedToHandler, UnmappedIsMasked
    <2>1. CASE pc # "madt"
      BY <2>1, AgreeIsRouted, UsedIsMasked, Zenon DEF TimerInv, Routes, IInv
    <2>2. CASE pc = "madt"
      <3>1. RoutesInit
        BY <2>2, Zenon DEF TimerInv, Routes, Before
      <3>2. VectorsInUse \subseteq {None} /\ None # 0
        BY <3>1, NoneAssumption, SMTT(30) DEF RoutesInit, VectorsInUse
      <3>3. VectorsUnique
        BY <3>1, <3>2, Zenon DEF RoutesInit, VectorsUnique
      <3>4. RoutedToHandler
        BY <3>1, Zenon DEF RoutesInit, RoutedToHandler
      <3>5. DOMAIN redirect = {}
        BY <3>1 DEF RoutesInit
      <3>6. UnmappedIsMasked
        BY <3>5, Zenon DEF UnmappedIsMasked
      <3> QED
        BY <3>3, <3>4, <3>6
    <2> QED
      BY <2>1, <2>2
  <1> QED
    BY <1>1, TimerInvariant, PTL
=============================================================================
