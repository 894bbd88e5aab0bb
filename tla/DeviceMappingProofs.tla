------------------------ MODULE DeviceMappingProofs ------------------------
(***************************************************************************)
(* Theorems about DeviceMapping for any models and any systems of devices: *)
(* the mapper covers the layers of the model, in the order of the devices, *)
(* and a model whose layers are of one size is refused only when no device *)
(* has room for one more of them.                                          *)
(*                                                                         *)
(* MapInv, which is inductive, counts the layers: those that are placed,   *)
(* those on the device that is filled and those to come are never more     *)
(* than the model has, as long as something remains to be mapped.  RoomInv *)
(* adds what the devices looked at have left.                              *)
(***************************************************************************)
EXTENDS DeviceMapping, FiniteSetTheorems, SequenceTheorems, TLAPS

Phases == {"map", "fill", "extend", "mapped", "refused", "assert_panic"}

Shape ==
    /\ model \in Models /\ devices \in Systems /\ paged \in BOOLEAN
    /\ phase \in Phases
    /\ next \in 1..(Len(devices) + 1)
    /\ layer_sizes \in Seq(Nat \ {0})
    /\ remaining_to_map \in Nat /\ current_ordinal \in Nat /\ current_layer \in Nat
    /\ device_layers \in Seq([ordinal : Nat, layers : Nat])
    /\ mapping_includes_cpu \in BOOLEAN
    /\ used_capacity \in Nat /\ used_capacity_no_act \in Nat /\ layers_on_device \in Nat
    /\ mappings \in Seq(Nat) /\ entry \in 0..Len(device_layers)

\* What the phases say of the loop of get_device_layers.
Stages ==
    /\ phase = "fill" => next <= Len(devices) /\ remaining_to_map > 0
    /\ phase = "refused" => next > Len(devices) /\ remaining_to_map > 0
    /\ phase \in {"map", "fill", "refused"} => entry = 0 /\ mappings = <<>>

\* Layers are placed once: those that are placed, those on the device that is
\* filled and those to come are no more than the model has.
LayersLeft ==
    /\ current_layer <= num_layers
    /\ Len(layer_sizes) <= num_layers
    /\ remaining_to_map > 0 =>
          current_layer + (IF phase = "fill" THEN layers_on_device ELSE 0)
                        + Len(layer_sizes) <= num_layers

PlanFits == Planned(Len(device_layers)) <= current_layer

\* The entries of the plan are in the order of the devices, and none is for the CPU.
PlanInOrder ==
    /\ current_ordinal < next
    /\ \A k \in DOMAIN device_layers :
          /\ device_layers[k].ordinal < current_ordinal
          /\ device_layers[k].ordinal + 1 < Cpu
    /\ \A j, k \in DOMAIN device_layers :
          j < k => device_layers[j].ordinal < device_layers[k].ordinal

\* The mapper follows the plan.
MapperFollows ==
    phase = "extend" =>
        /\ Len(mappings) = Planned(entry)
        /\ entry = 0 => mappings = <<>>
        /\ entry > 0 => \A i \in DOMAIN mappings :
                            mappings[i] <= device_layers[entry].ordinal + 1
        /\ \A i, j \in DOMAIN mappings : i < j => mappings[i] <= mappings[j]

\* The inductive invariant.
MapInv ==
    Shape /\ Stages /\ LayersLeft /\ PlanFits /\ PlanInOrder /\ MapperFollows /\ MapperCoversModel

-----------------------------------------------------------------------------
\* Weights and KV cache of any layer, where layers are of one size.
LayerSize == model.sizes[1] + model.kv[paged]

SizesOfModel ==
    Uniform => \A i \in DOMAIN layer_sizes : layer_sizes[i] = model.sizes[1]

\* As long as there are devices besides the CPU, ordinals are theirs.
OrdinalOfDevice == ~devices[1].cpu /\ next <= Len(devices) => current_ordinal = next - 1

Filling == phase = "fill" /\ Uniform => used_capacity = Reserved + layers_on_device * LayerSize

\* One more layer is too much for the device i.
Full(i) == Held(i) + (Placed(i) + 1) * LayerSize > Usable(i)

DevicesFull ==
    Uniform /\ remaining_to_map > 0 /\ layer_sizes # <<>> => \A i \in 1..(next - 1) : Full(i)

\* What is inductive with MapInv.
RoomInv == SizesOfModel /\ OrdinalOfDevice /\ Filling /\ DevicesFull

-----------------------------------------------------------------------------
(* The operators.                                                          *)

LEMMA MaxOfTwo ==
    ASSUME NEW a \in Int, NEW b \in Int
    PROVE  Max({a, b}) \in {a, b} /\ Max({a, b}) >= a /\ Max({a, b}) >= b
<1>1. \E x \in {a, b} : \A y \in {a, b} : x >= y
  OBVIOUS
<1> QED BY <1>1 DEF Max

LEMMA MinOfTwo ==
    ASSUME NEW a \in Int, NEW b \in Int
    PROVE  Min({a, b}) \in {a, b} /\ Min({a, b}) <= a /\ Min({a, b}) <= b
<1>1. \E x \in {a, b} : \A y \in {a, b} : x <= y
  OBVIOUS
<1> QED BY <1>1 DEF Min

\* The pairs that SumOf counts.
PairsOf(q) == UNION {{i} \X (1..q[i]) : i \in DOMAIN q}

LEMMA PairsAreFinite ==
    ASSUME NEW n \in Nat, NEW q \in [1..n -> Nat]
    PROVE  IsFiniteSet(PairsOf(q))
<1> DEFINE f == [i \in 1..n |-> {i} \X (1..q[i])]
           T == {{i} \X (1..q[i]) : i \in 1..n}
<1>1. IsFiniteSet(T)
  <2>1. f \in Surjection(1..n, T)
    BY DEF Surjection
  <2> QED BY <2>1, FS_Interval, FS_Surjection
<1>2. \A i \in 1..n : IsFiniteSet({i} \X (1..q[i]))
  <2> SUFFICES ASSUME NEW i \in 1..n PROVE IsFiniteSet({i} \X (1..q[i]))
    OBVIOUS
  <2>1. q[i] \in Nat /\ IsFiniteSet({i})
    BY FS_Singleton
  <2>2. IsFiniteSet(1..q[i])
    BY <2>1, FS_Interval
  <2>3. \A A, B : IsFiniteSet(A) /\ IsFiniteSet(B) => IsFiniteSet(A \X B)
    BY ONLY FS_Product
  <2> QED BY ONLY <2>1, <2>2, <2>3
<1>3. PairsOf(q) = UNION T
  BY DEF PairsOf
<1>4. \A X \in T : IsFiniteSet(X)
  BY <1>2
<1> HIDE DEF T
<1> QED BY ONLY <1>1, <1>3, <1>4, FS_UNION

LEMMA SumIsNatural ==
    ASSUME NEW n \in Nat, NEW q \in [1..n -> Nat]
    PROVE  SumOf(q) \in Nat
BY PairsAreFinite, FS_CardinalityType DEF SumOf, PairsOf

LEMMA SumOfNothing == ASSUME NEW q, DOMAIN q = {} PROVE SumOf(q) = 0
<1>1. PairsOf(q) = {}
  BY DEF PairsOf
<1> QED BY <1>1, FS_EmptySet DEF SumOf, PairsOf

\* One more number adds to the sum.
LEMMA SumStep ==
    ASSUME NEW n \in Nat, NEW q \in [1..n -> Nat], NEW r \in [1..(n + 1) -> Nat],
           \A i \in 1..n : r[i] = q[i]
    PROVE  SumOf(r) = SumOf(q) + r[n + 1]
<1> DEFINE last == {n + 1} \X (1..r[n + 1])
<1>1. PairsOf(r) = PairsOf(q) \cup last
  <2>1. 1..(n + 1) = (1..n) \cup {n + 1}
    OBVIOUS
  <2>2. DOMAIN r = 1..(n + 1) /\ DOMAIN q = 1..n
    OBVIOUS
  <2>3. \A p : p \in PairsOf(r) <=> \E i \in 1..(n + 1) : p \in {i} \X (1..r[i])
    BY <2>2 DEF PairsOf
  <2>4. \A p : p \in PairsOf(q) <=> \E i \in 1..n : p \in {i} \X (1..r[i])
    BY <2>2 DEF PairsOf
  <2> HIDE DEF last
  <2>5. \A p : p \in PairsOf(r) <=> p \in PairsOf(q) \/ p \in last
    BY <2>1, <2>3, <2>4 DEF last
  <2> QED BY <2>5
<1>2. PairsOf(q) \cap last = {}
  <2> SUFFICES ASSUME NEW p, p \in PairsOf(q), p \in last PROVE FALSE
    OBVIOUS
  <2>1. PICK i \in 1..n : p \in {i} \X (1..q[i])
    BY DEF PairsOf
  <2>2. p[1] = i /\ p[1] = n + 1
    BY <2>1
  <2> QED BY <2>2
<1>3. IsFiniteSet(PairsOf(q)) /\ Cardinality(PairsOf(q)) \in Nat
  BY PairsAreFinite, FS_CardinalityType
<1>4. IsFiniteSet(last) /\ Cardinality(last) = r[n + 1]
  <2>1. r[n + 1] \in Nat
    OBVIOUS
  <2>2. IsFiniteSet(1..r[n + 1]) /\ Cardinality(1..r[n + 1]) = r[n + 1]
    BY <2>1, FS_Interval
  <2>3. IsFiniteSet({n + 1}) /\ Cardinality({n + 1}) = 1
    BY FS_Singleton
  <2>4. IsFiniteSet(last) /\ Cardinality(last) = 1 * Cardinality(1..r[n + 1])
    BY <2>2, <2>3, FS_Product
  <2> QED BY <2>1, <2>2, <2>4
<1>5. Cardinality(PairsOf(r)) = Cardinality(PairsOf(q)) + Cardinality(last)
  <2> HIDE DEF last
  <2>1. Cardinality(PairsOf(q) \cup last)
          = Cardinality(PairsOf(q)) + Cardinality(last) - Cardinality(PairsOf(q) \cap last)
    BY <1>3, <1>4, FS_Union
  <2>2. Cardinality(PairsOf(q) \cap last) = 0
    BY <1>2, FS_EmptySet
  <2>3. Cardinality(last) \in Nat
    BY <1>4
  <2> QED BY <1>1, <1>3, <2>1, <2>2, <2>3
<1> QED BY <1>4, <1>5 DEF SumOf, PairsOf

LEMMA RepeatIs ==
    ASSUME NEW d \in Nat, NEW n \in Nat
    PROVE  /\ Repeat(d, n) \in Seq(Nat) /\ Len(Repeat(d, n)) = n
           /\ \A i \in 1..n : Repeat(d, n)[i] = d
BY DEF Repeat

LEMMA ReverseIs ==
    ASSUME NEW S, NEW q \in Seq(S)
    PROVE  /\ Reverse(q) \in Seq(S) /\ Len(Reverse(q)) = Len(q)
           /\ \A i \in DOMAIN Reverse(q) : \E j \in DOMAIN q : Reverse(q)[i] = q[j]
BY DEF Reverse

\* A sorted sequence goes on with what is not less.
LEMMA SortedConcat ==
    ASSUME NEW q \in Seq(Nat), NEW d \in Nat, NEW n \in Nat,
           \A i \in DOMAIN q : q[i] <= d,
           \A i, j \in DOMAIN q : i < j => q[i] <= q[j]
    PROVE  LET r == q \o Repeat(d, n)
           IN  /\ r \in Seq(Nat) /\ Len(r) = Len(q) + n
               /\ \A i \in DOMAIN r : r[i] <= d
               /\ \A i, j \in DOMAIN r : i < j => r[i] <= r[j]
<1> DEFINE r == q \o Repeat(d, n)
<1>1. Repeat(d, n) \in Seq(Nat) /\ Len(Repeat(d, n)) = n /\ \A i \in 1..n : Repeat(d, n)[i] = d
  BY RepeatIs
<1>2. /\ r \in Seq(Nat) /\ Len(r) = Len(q) + n
      /\ \A i \in 1..(Len(q) + n) :
            r[i] = IF i <= Len(q) THEN q[i] ELSE Repeat(d, n)[i - Len(q)]
  BY <1>1, ConcatProperties
<1>3. DOMAIN r = 1..(Len(q) + n) /\ DOMAIN q = 1..Len(q) /\ Len(q) \in Nat
  BY <1>2
<1>4. \A i \in 1..(Len(q) + n) : r[i] = IF i <= Len(q) THEN q[i] ELSE d
  BY <1>1, <1>2, <1>3
<1> HIDE DEF r
<1>5. \A i \in DOMAIN r : r[i] <= d
  BY <1>3, <1>4
<1>6. \A i, j \in DOMAIN r : i < j => r[i] <= r[j]
  BY <1>3, <1>4, <1>5
<1> QED BY <1>2, <1>5, <1>6 DEF r

-----------------------------------------------------------------------------
(* MapInv is inductive.                                                    *)

LEMMA ModelIs ==
    ASSUME model \in Models, paged \in BOOLEAN
    PROVE  /\ model.sizes \in Seq(Nat \ {0}) /\ num_layers \in Nat /\ num_layers > 0
           /\ model.non_mapped \in Nat /\ model.act \in Nat /\ model.non_mapped_act \in Nat
           /\ model.kv[paged] \in Nat
<1>1. /\ model.sizes \in Seq(Nat \ {0}) /\ model.sizes # <<>>
      /\ model.non_mapped \in Nat /\ model.act \in Nat /\ model.non_mapped_act \in Nat
      /\ model.kv \in [BOOLEAN -> Nat]
  BY MappingAssumption
<1> QED BY <1>1, EmptySeq DEF num_layers

LEMMA DevicesAre ==
    ASSUME devices \in Systems
    PROVE  /\ Len(devices) \in Nat /\ Len(devices) > 1
           /\ devices[Len(devices)].cpu
           /\ \A i \in 1..(Len(devices) - 1) : devices[i].cpu = devices[1].cpu
           /\ \A i \in 1..Len(devices) : devices[i].cpu \in BOOLEAN /\ Usable(i) \in Int
           /\ devices[1].cpu => Len(devices) = 2
<1>1. /\ devices \in Seq([cpu : BOOLEAN, avail : Nat])
      /\ Len(devices) > 1 /\ devices[Len(devices)].cpu
      /\ \A i \in 1..(Len(devices) - 1) : devices[i].cpu = devices[1].cpu
      /\ devices[1].cpu => Len(devices) = 2
  BY MappingAssumption
<1>2. \A i \in 1..Len(devices) : devices[i].cpu \in BOOLEAN /\ devices[i].avail \in Nat
  <2>1. \A i \in 1..Len(devices) : devices[i] \in [cpu : BOOLEAN, avail : Nat]
    BY <1>1, ElementOfSeq
  <2>2. \A r \in [cpu : BOOLEAN, avail : Nat] : r.cpu \in BOOLEAN /\ r.avail \in Nat
    OBVIOUS
  <2> QED BY ONLY <2>1, <2>2
<1>3. \A i \in 1..Len(devices) : Usable(i) \in Int
  BY <1>2 DEF Usable
<1> QED BY <1>1, <1>2, <1>3

\* The layers in the first n entries of a plan.
Entries == [ordinal : Nat, layers : Nat]
PlanSum(d, n) == SumOf([k \in 1..n |-> d[k].layers])

LEMMA PlanSumIs ==
    ASSUME NEW d \in Seq(Entries), NEW n \in 0..Len(d)
    PROVE  /\ PlanSum(d, n) \in Nat
           /\ n = 0 => PlanSum(d, n) = 0
           /\ n < Len(d) => PlanSum(d, n + 1) = PlanSum(d, n) + d[n + 1].layers
<1> DEFINE q(m) == [k \in 1..m |-> d[k].layers]
<1>1. \A m \in 0..Len(d) : q(m) \in [1..m -> Nat]
  <2>1. \A k \in 1..Len(d) : d[k] \in Entries
    OBVIOUS
  <2>2. \A k \in 1..Len(d) : d[k].layers \in Nat
    BY <2>1 DEF Entries
  <2> QED BY <2>2
<1>2. PlanSum(d, n) \in Nat
  BY <1>1, SumIsNatural DEF PlanSum
<1>3. ASSUME n = 0 PROVE PlanSum(d, n) = 0
  BY <1>3, SumOfNothing DEF PlanSum
<1>4. ASSUME n < Len(d) PROVE PlanSum(d, n + 1) = PlanSum(d, n) + d[n + 1].layers
  <2>1. n \in Nat /\ n + 1 \in 0..Len(d)
    BY <1>4
  <2>2. q(n) \in [1..n -> Nat] /\ q(n + 1) \in [1..(n + 1) -> Nat]
    BY <1>1, <2>1
  <2>3. \A i \in 1..n : q(n + 1)[i] = q(n)[i]
    BY <2>1
  <2>4. q(n + 1)[n + 1] = d[n + 1].layers
    BY <2>1
  <2> HIDE DEF q
  <2>5. SumOf(q(n + 1)) = SumOf(q(n)) + q(n + 1)[n + 1]
    BY <2>1, <2>2, <2>3, SumStep
  <2> QED BY <2>4, <2>5 DEF PlanSum, q
<1> QED BY <1>2, <1>3, <1>4

LEMMA PlanSumAppend ==
    ASSUME NEW d \in Seq(Entries), NEW e \in Entries
    PROVE  PlanSum(Append(d, e), Len(d) + 1) = PlanSum(d, Len(d)) + e.layers
<1> DEFINE r == Append(d, e)
<1>1. /\ r \in Seq(Entries) /\ Len(r) = Len(d) + 1 /\ Len(d) \in 0..Len(r)
      /\ \A k \in 1..Len(d) : r[k] = d[k]
      /\ r[Len(d) + 1] = e
  BY AppendProperties
<1>2. [k \in 1..Len(d) |-> r[k].layers] = [k \in 1..Len(d) |-> d[k].layers]
  BY <1>1
<1> HIDE DEF r
<1>3. PlanSum(r, Len(d)) = PlanSum(d, Len(d))
  BY <1>2 DEF PlanSum
<1>4. Len(d) < Len(r)
  BY <1>1
<1>5. PlanSum(r, Len(d) + 1) = PlanSum(r, Len(d)) + r[Len(d) + 1].layers
  BY <1>1, <1>4, PlanSumIs
<1> QED BY <1>1, <1>3, <1>5 DEF r

LEMMA PlannedIs == \A n : Planned(n) = PlanSum(device_layers, n)
BY DEF Planned, PlanSum

LEMMA InitMap == ASSUME Init PROVE MapInv
<1>1. model \in Models /\ devices \in Systems /\ paged \in BOOLEAN
  BY DEF Init
<1>2. /\ model.sizes \in Seq(Nat \ {0}) /\ num_layers \in Nat /\ num_layers > 0
      /\ model.non_mapped \in Nat
  BY <1>1, ModelIs
<1>3. Len(devices) \in Nat /\ Len(devices) > 1
  BY <1>1, DevicesAre
<1>4. SumOf(model.sizes) \in Nat
  <2>1. model.sizes \in [1..num_layers -> Nat]
    BY <1>2 DEF num_layers
  <2> QED BY <1>2, <2>1, SumIsNatural
<1>5. Shape
  <2>1. /\ phase = "map" /\ next = 1 /\ layer_sizes = model.sizes
        /\ remaining_to_map = SumOf(model.sizes) + model.non_mapped
        /\ current_ordinal = 0 /\ current_layer = 0 /\ mapping_includes_cpu = FALSE
        /\ used_capacity = 0 /\ used_capacity_no_act = 0 /\ layers_on_device = 0
        /\ entry = 0 /\ device_layers = <<>> /\ mappings = <<>>
    BY DEF Init
  <2>2. device_layers \in Seq([ordinal : Nat, layers : Nat]) /\ mappings \in Seq(Nat)
        /\ Len(device_layers) = 0
    BY <2>1
  <2>3. remaining_to_map \in Nat /\ next \in 1..(Len(devices) + 1)
    BY <1>2, <1>3, <1>4, <2>1
  <2>4. phase \in Phases /\ mapping_includes_cpu \in BOOLEAN
    BY <2>1 DEF Phases
  <2>5. layer_sizes \in Seq(Nat \ {0}) /\ entry \in 0..Len(device_layers)
    BY <1>2, <2>1, <2>2
  <2> QED BY <1>1, <2>1, <2>2, <2>3, <2>4, <2>5 DEF Shape
<1>6. Stages /\ LayersLeft /\ MapperFollows /\ MapperCoversModel
  BY <1>2 DEF Init, Stages, LayersLeft, MapperFollows, MapperCoversModel, num_layers
<1>7. PlanFits
  <2>1. device_layers = <<>> /\ device_layers \in Seq(Entries) /\ Len(device_layers) = 0
    BY DEF Init
  <2>2. 0 \in 0..Len(device_layers)
    BY <2>1
  <2>3. PlanSum(device_layers, 0) = 0
    BY <2>1, <2>2, PlanSumIs
  <2> QED BY <2>1, <2>3, PlannedIs DEF Init, PlanFits
<1>8. PlanInOrder
  BY DEF Init, PlanInOrder
<1> QED BY <1>5, <1>6, <1>7, <1>8 DEF MapInv

\* A device gets n layers: the plan stays in order, within what is placed.
LEMMA PlaceMap ==
    ASSUME MapInv, NEW n \in Nat, Place(n), phase \in {"map", "fill"}, phase' = "map",
           next <= Len(devices), current_layer + n <= num_layers,
           remaining_to_map' \in Nat,
           remaining_to_map' > 0 => current_layer + n + Len(layer_sizes) <= num_layers,
           UNCHANGED <<inputs, paged, layer_sizes, fillVars, mapperVars>>
    PROVE  MapInv'
<1> DEFINE e == [ordinal |-> current_ordinal, layers |-> n]
<1>1. Shape /\ Stages /\ LayersLeft /\ PlanFits /\ PlanInOrder
  BY DEF MapInv
<1>2. /\ Len(devices) \in Nat /\ Len(devices) > 1 /\ devices[Len(devices)].cpu
  BY <1>1, DevicesAre DEF Shape
<1>3. UNCHANGED <<model, devices, num_layers, layer_sizes, mappings, entry,
                  used_capacity, used_capacity_no_act, layers_on_device>>
  BY DEF inputs, fillVars, mapperVars, num_layers
<1>4. current_layer' = current_layer + n /\ next' = next + 1 /\ current_layer' \in Nat
      /\ next' \in 1..(Len(devices) + 1)
  BY <1>1, <1>2 DEF Place, Shape
<1>5. entry = 0 /\ mappings = <<>>
  BY <1>1 DEF Stages
<1>6. CASE devices[next].cpu
  <2>1. /\ UNCHANGED <<device_layers, current_ordinal>> /\ mapping_includes_cpu' = TRUE
    BY <1>6 DEF Place
  <2>2. Shape'
    BY <1>1, <1>3, <1>4, <1>5, <2>1 DEF Shape, Phases
  <2>3. PlanFits'
    <3>1. Planned(Len(device_layers))' = Planned(Len(device_layers))
      BY <2>1 DEF Planned
    <3>2. Planned(Len(device_layers)) \in Nat
      BY <1>1, PlannedIs, PlanSumIs DEF Shape, Entries
    <3> QED BY <1>1, <1>4, <3>1, <3>2 DEF PlanFits, Shape
  <2>4. PlanInOrder'
    BY <1>1, <1>3, <1>4, <2>1 DEF PlanInOrder, Cpu, Shape
  <2> QED BY <1>1, <1>3, <1>4, <1>5, <2>2, <2>3, <2>4
          DEF MapInv, Stages, LayersLeft, MapperFollows, MapperCoversModel
<1>7. CASE ~devices[next].cpu
  <2>1. /\ device_layers' = Append(device_layers, e) /\ current_ordinal' = current_ordinal + 1
        /\ UNCHANGED mapping_includes_cpu
    BY <1>7 DEF Place
  <2>2. e \in Entries /\ device_layers \in Seq(Entries)
    BY <1>1 DEF Entries, Shape
  <2> HIDE DEF e
  <2>3. /\ device_layers' \in Seq(Entries) /\ Len(device_layers') = Len(device_layers) + 1
        /\ \A k \in 1..Len(device_layers) : device_layers'[k] = device_layers[k]
        /\ device_layers'[Len(device_layers) + 1] = e
    BY <2>1, <2>2, AppendProperties
  <2>4. Shape'
    BY <1>1, <1>3, <1>4, <1>5, <2>1, <2>3 DEF Shape, Phases, Entries
  <2>5. PlanFits'
    <3>1. Planned(Len(device_layers))' = PlanSum(device_layers', Len(device_layers'))
      BY DEF Planned, PlanSum
    <3>2. Planned(Len(device_layers))' = PlanSum(device_layers, Len(device_layers)) + e.layers
      BY <2>1, <2>2, <2>3, <3>1, PlanSumAppend
    <3>3. PlanSum(device_layers, Len(device_layers)) \in Nat
      BY <2>2, PlanSumIs
    <3>4. PlanSum(device_layers, Len(device_layers)) <= current_layer
      BY <1>1, PlannedIs DEF PlanFits
    <3>5. e.layers = n
      BY DEF e
    <3> QED BY <1>1, <1>4, <3>2, <3>3, <3>4, <3>5 DEF PlanFits, Shape
  <2>6. PlanInOrder'
    <3>1. next < Len(devices) /\ current_ordinal < next /\ current_ordinal \in Nat
      BY <1>1, <1>2, <1>7 DEF PlanInOrder, Shape
    <3>2. e.ordinal = current_ordinal
      BY DEF e
    <3>3. \A k \in 1..Len(device_layers) : device_layers[k].ordinal \in Nat
      <4>1. \A k \in 1..Len(device_layers) : device_layers[k] \in Entries
        BY <2>2
      <4> QED BY <4>1 DEF Entries
    <3>4. Len(device_layers) \in Nat /\ DOMAIN device_layers = 1..Len(device_layers)
          /\ DOMAIN device_layers' = 1..(Len(device_layers) + 1)
      BY <2>2, <2>3
    <3>5. current_ordinal' < next'
      BY <1>1, <1>4, <2>1, <3>1 DEF Shape
    <3>6. \A k \in DOMAIN device_layers' :
             device_layers'[k].ordinal < current_ordinal' /\ device_layers'[k].ordinal + 1 < Cpu'
      <4>1. Cpu' = Len(devices) /\ Cpu = Len(devices)
        BY <1>3 DEF Cpu
      <4>2. \A k \in 1..Len(device_layers) :
               device_layers[k].ordinal < current_ordinal /\ device_layers[k].ordinal + 1 < Cpu
        BY <1>1, <3>4 DEF PlanInOrder
      <4>3. Len(device_layers) \in Nat
        BY <3>4
      <4>4. ASSUME NEW k \in 1..(Len(device_layers) + 1), k # Len(device_layers) + 1
            PROVE  /\ device_layers'[k].ordinal < current_ordinal'
                   /\ device_layers'[k].ordinal + 1 < Cpu'
        <5>1. k \in 1..Len(device_layers)
          BY <4>3, <4>4
        <5>2. device_layers'[k] = device_layers[k] /\ device_layers[k].ordinal \in Nat
          BY <2>3, <3>3, <5>1
        <5> QED BY <2>1, <3>1, <4>1, <4>2, <5>1, <5>2
      <4>5. /\ device_layers'[Len(device_layers) + 1].ordinal < current_ordinal'
            /\ device_layers'[Len(device_layers) + 1].ordinal + 1 < Cpu'
        <5>1. current_ordinal < current_ordinal + 1 /\ current_ordinal + 1 < Len(devices)
          BY <1>2, <3>1, <1>1 DEF Shape
        <5> QED BY <2>1, <2>3, <3>2, <4>1, <5>1
      <4> QED BY <3>4, <4>4, <4>5
    <3>7. \A j, k \in DOMAIN device_layers' :
             j < k => device_layers'[j].ordinal < device_layers'[k].ordinal
      BY <1>1, <2>3, <3>1, <3>2, <3>3, <3>4 DEF PlanInOrder
    <3> QED BY <3>5, <3>6, <3>7 DEF PlanInOrder
  <2> QED BY <1>1, <1>3, <1>4, <1>5, <2>4, <2>5, <2>6
          DEF MapInv, Stages, LayersLeft, MapperFollows, MapperCoversModel
<1> QED BY <1>6, <1>7

LEMMA PlaceRestMap == ASSUME MapInv, PlaceRest PROVE MapInv'
<1>1. Shape /\ Stages /\ LayersLeft
  BY DEF MapInv
<1>2. num_layers \in Nat
  BY <1>1, ModelIs DEF Shape
<1>3. num_layers - current_layer \in Nat /\ current_layer + (num_layers - current_layer) = num_layers
  BY <1>1, <1>2 DEF LayersLeft, Shape
<1>4. /\ phase = "map" /\ phase' = "map" /\ next <= Len(devices)
      /\ Place(num_layers - current_layer) /\ remaining_to_map' = 0
      /\ UNCHANGED <<inputs, paged, layer_sizes, fillVars, mapperVars>>
  BY DEF PlaceRest, Mapping
<1> QED BY <1>2, <1>3, <1>4, PlaceMap

LEMMA FillDeviceMap == ASSUME MapInv, FillDevice PROVE MapInv'
<1>1. Shape /\ Stages /\ LayersLeft
  BY DEF MapInv
<1>2. /\ phase = "fill" /\ phase' = "map" /\ Place(layers_on_device)
      /\ remaining_to_map' = Max({0, remaining_to_map - used_capacity_no_act})
      /\ UNCHANGED <<inputs, paged, layer_sizes, fillVars, mapperVars>>
  BY DEF FillDevice
<1>3. next <= Len(devices) /\ remaining_to_map > 0
  BY <1>1, <1>2 DEF Stages
<1>4. remaining_to_map' \in Nat
  <2> DEFINE x == remaining_to_map - used_capacity_no_act
  <2>1. x \in Int
    BY <1>1 DEF Shape
  <2> HIDE DEF x
  <2>2. Max({0, x}) \in {0, x} /\ Max({0, x}) >= 0
    BY <2>1, MaxOfTwo
  <2>3. Max({0, x}) \in Nat
    BY <2>1, <2>2
  <2> QED BY <1>2, <2>3 DEF x
<1>5. num_layers \in Nat
  BY <1>1, ModelIs DEF Shape
<1>6. layers_on_device \in Nat /\ current_layer \in Nat /\ Len(layer_sizes) \in Nat
  BY <1>1 DEF Shape
<1>7. current_layer + layers_on_device + Len(layer_sizes) <= num_layers
  BY <1>1, <1>2, <1>3 DEF LayersLeft
<1>8. current_layer + layers_on_device <= num_layers
  BY <1>5, <1>6, <1>7
<1> QED BY <1>2, <1>3, <1>4, <1>6, <1>7, <1>8, PlaceMap

\* Nothing of the plan changes.
LEMMA SamePlan ==
    ASSUME MapInv, UNCHANGED <<inputs, device_layers>>
    PROVE  /\ UNCHANGED <<model, devices, num_layers, Cpu>>
           /\ \A n \in Int : Planned(n)' = Planned(n)
BY DEF inputs, num_layers, Cpu, Planned

LEMMA ReservedIs ==
    ASSUME model \in Models, paged \in BOOLEAN
    PROVE  Reserved \in Nat /\ ReservedFirst \in Nat /\ Reserved <= ReservedFirst
<1> DEFINE a == model.act
           b == model.non_mapped_act
<1>1. a \in Nat /\ b \in Nat /\ model.non_mapped \in Nat
  BY ModelIs
<1> HIDE DEF a, b
<1>2. Max({a, b}) \in {a, b} /\ Max({a, b}) >= a
  <2>1. a \in Int /\ b \in Int
    BY <1>1
  <2> QED BY ONLY <2>1, MaxOfTwo
<1>3. Max({a, b}) \in Nat
  BY <1>1, <1>2
<1>4. ReservedFirst = Max({a, b}) + model.non_mapped
      /\ Reserved = IF current_ordinal = 0 THEN ReservedFirst ELSE a
  BY DEF ReservedFirst, Reserved, a, b
<1> QED BY <1>1, <1>2, <1>3, <1>4

LEMMA StartFillMap == ASSUME MapInv, StartFill PROVE MapInv'
<1>1. Shape /\ Stages /\ LayersLeft /\ PlanFits /\ PlanInOrder
  BY DEF MapInv
<1>2. /\ UNCHANGED <<model, devices, paged, next, layer_sizes, remaining_to_map, current_ordinal,
                     current_layer, device_layers, mapping_includes_cpu, mappings, entry>>
      /\ phase = "map" /\ phase' = "fill" /\ remaining_to_map > 0 /\ next <= Len(devices)
      /\ used_capacity' = Reserved /\ used_capacity_no_act' = model.act /\ layers_on_device' = 0
  BY DEF StartFill, Mapping, inputs, planVars, mapperVars
<1>3. /\ model.act \in Nat /\ model.non_mapped_act \in Nat /\ model.non_mapped \in Nat
  BY <1>1, ModelIs DEF Shape
<1>4. Reserved \in Nat
  BY <1>1, ReservedIs DEF Shape
<1>5. Shape'
  BY <1>1, <1>2, <1>3, <1>4 DEF Shape, Phases
<1>6. Stages' /\ PlanInOrder' /\ PlanFits' /\ MapperFollows' /\ MapperCoversModel'
  BY <1>1, <1>2 DEF Stages, PlanInOrder, PlanFits, MapperFollows, MapperCoversModel, Planned, Cpu
<1>7. LayersLeft'
  BY <1>1, <1>2 DEF LayersLeft, num_layers, Shape
<1> QED BY <1>5, <1>6, <1>7 DEF MapInv

\* The next layer, where there is one.
LEMMA NextLayerIs ==
    ASSUME Shape, layer_sizes # <<>>
    PROVE  /\ Delta \in Nat /\ Delta > 0 /\ Len(layer_sizes) \in Nat
           /\ Tail(layer_sizes) \in Seq(Nat \ {0})
           /\ Len(Tail(layer_sizes)) = Len(layer_sizes) - 1
           /\ \A i \in DOMAIN Tail(layer_sizes) : i + 1 \in DOMAIN layer_sizes
                                                  /\ Tail(layer_sizes)[i] = layer_sizes[i + 1]
           /\ Head(layer_sizes) = layer_sizes[1] /\ 1 \in DOMAIN layer_sizes
<1>1. layer_sizes \in Seq(Nat \ {0}) /\ model.kv[paged] \in Nat
  BY ModelIs DEF Shape
<1>2. Head(layer_sizes) \in Nat \ {0}
  BY <1>1
<1> QED BY <1>1, <1>2 DEF Delta

LEMMA PopLayerMap == ASSUME MapInv, PopLayer PROVE MapInv'
<1>1. Shape /\ Stages /\ LayersLeft /\ PlanFits /\ PlanInOrder
  BY DEF MapInv
<1>2. /\ UNCHANGED <<model, devices, paged, phase, next, remaining_to_map, current_ordinal,
                     current_layer, device_layers, mapping_includes_cpu, mappings, entry>>
      /\ phase = "fill" /\ layer_sizes # <<>> /\ layer_sizes' = Tail(layer_sizes)
      /\ used_capacity' = used_capacity + Delta
      /\ used_capacity_no_act' = used_capacity_no_act + Delta
      /\ layers_on_device' = layers_on_device + 1
  BY DEF PopLayer, NextFits, inputs, mapperVars
<1>3. /\ Delta \in Nat /\ layer_sizes' \in Seq(Nat \ {0}) /\ Len(layer_sizes) \in Nat
      /\ Len(layer_sizes') = Len(layer_sizes) - 1
  BY <1>1, <1>2, NextLayerIs
<1>4. Shape'
  BY <1>1, <1>2, <1>3 DEF Shape
<1>5. Stages' /\ PlanInOrder' /\ PlanFits' /\ MapperFollows' /\ MapperCoversModel'
  BY <1>1, <1>2 DEF Stages, PlanInOrder, PlanFits, MapperFollows, MapperCoversModel, Planned, Cpu
<1>6. LayersLeft'
  <2>1. num_layers \in Nat /\ num_layers' = num_layers
    BY <1>1, <1>2, ModelIs DEF Shape, num_layers
  <2> QED BY <1>1, <1>2, <1>3, <2>1 DEF LayersLeft, Shape
<1> QED BY <1>4, <1>5, <1>6 DEF MapInv

LEMMA SkipDeviceMap == ASSUME MapInv, SkipDevice PROVE MapInv'
<1>1. Shape /\ Stages /\ LayersLeft /\ PlanFits /\ PlanInOrder
  BY DEF MapInv
<1>2. /\ UNCHANGED <<model, devices, paged, layer_sizes, remaining_to_map, current_layer,
                     device_layers, mapping_includes_cpu, mappings, entry,
                     used_capacity, used_capacity_no_act, layers_on_device>>
      /\ phase = "fill" /\ phase' = "map" /\ layers_on_device = 0
      /\ current_ordinal' = current_ordinal + 1 /\ next' = next + 1
  BY DEF SkipDevice, inputs, fillVars, mapperVars
<1>3. next <= Len(devices) /\ Len(devices) \in Nat
  BY <1>1, <1>2, DevicesAre DEF Stages, Shape
<1>4. Shape'
  BY <1>1, <1>2, <1>3 DEF Shape, Phases
<1>5. Stages' /\ PlanFits' /\ MapperFollows' /\ MapperCoversModel'
  BY <1>1, <1>2 DEF Stages, PlanFits, MapperFollows, MapperCoversModel, Planned
<1>6. LayersLeft'
  BY <1>1, <1>2 DEF LayersLeft, num_layers, Shape
<1>7. PlanInOrder'
  <2>1. current_ordinal' < next' /\ current_ordinal < current_ordinal'
        /\ current_ordinal \in Nat /\ current_ordinal' \in Nat
    BY <1>1, <1>2 DEF PlanInOrder, Shape
  <2>2. \A k \in DOMAIN device_layers : device_layers[k].ordinal \in Nat
    <3>1. \A k \in DOMAIN device_layers : device_layers[k] \in Entries
      <4>1. device_layers \in Seq(Entries)
        BY <1>1 DEF Shape, Entries
      <4> QED BY <4>1
    <3> QED BY <3>1 DEF Entries
  <2> QED BY <1>1, <1>2, <2>1, <2>2 DEF PlanInOrder, Cpu
<1> QED BY <1>4, <1>5, <1>6, <1>7 DEF MapInv

LEMMA RefuseMap == ASSUME MapInv, Refuse PROVE MapInv'
<1>1. Shape /\ Stages /\ LayersLeft /\ PlanFits /\ PlanInOrder
  BY DEF MapInv
<1>2. /\ UNCHANGED <<model, devices, paged, next, layer_sizes, remaining_to_map, current_ordinal,
                     current_layer, device_layers, mapping_includes_cpu, mappings, entry,
                     used_capacity, used_capacity_no_act, layers_on_device>>
      /\ phase = "map" /\ phase' = "refused" /\ remaining_to_map > 0 /\ ~(next <= Len(devices))
  BY DEF Refuse, Mapping, inputs, planVars, fillVars, mapperVars
<1>3. next > Len(devices)
  BY <1>1, <1>2, DevicesAre DEF Shape
<1>4. Shape'
  BY <1>1, <1>2 DEF Shape, Phases
<1>5. Stages' /\ PlanInOrder' /\ PlanFits' /\ MapperFollows' /\ MapperCoversModel'
  BY <1>1, <1>2, <1>3 DEF Stages, PlanInOrder, PlanFits, MapperFollows, MapperCoversModel, Planned, Cpu
<1>6. LayersLeft'
  BY <1>1, <1>2 DEF LayersLeft, num_layers
<1> QED BY <1>4, <1>5, <1>6 DEF MapInv

LEMMA StartMapperMap == ASSUME MapInv, StartMapper PROVE MapInv'
<1>1. Shape /\ Stages /\ LayersLeft /\ PlanFits /\ PlanInOrder
  BY DEF MapInv
<1>2. /\ UNCHANGED <<model, devices, paged, next, layer_sizes, remaining_to_map, current_ordinal,
                     current_layer, device_layers, mapping_includes_cpu, mappings, entry,
                     used_capacity, used_capacity_no_act, layers_on_device>>
      /\ phase = "map" /\ phase' = "extend"
  BY DEF StartMapper, Mapped, inputs, planVars, fillVars, mapperVars
<1>3. entry = 0 /\ mappings = <<>>
  BY <1>1, <1>2 DEF Stages
<1>4. Shape'
  BY <1>1, <1>2 DEF Shape, Phases
<1>5. Stages' /\ PlanInOrder' /\ PlanFits' /\ MapperCoversModel'
  BY <1>1, <1>2 DEF Stages, PlanInOrder, PlanFits, MapperCoversModel, Planned, Cpu
<1>6. LayersLeft'
  BY <1>1, <1>2 DEF LayersLeft, num_layers
<1>7. MapperFollows'
  <2>1. PlanSum(device_layers, 0) = 0
    <3>1. device_layers \in Seq(Entries) /\ 0 \in 0..Len(device_layers)
      BY <1>1 DEF Shape, Entries
    <3> QED BY <3>1, PlanSumIs
  <2>2. Planned(entry)' = 0
    BY <1>2, <1>3, <2>1 DEF Planned, PlanSum
  <2> QED BY <1>2, <1>3, <2>2 DEF MapperFollows
<1> QED BY <1>4, <1>5, <1>6, <1>7 DEF MapInv

LEMMA MapAgainMap == ASSUME MapInv, MapAgain PROVE MapInv'
<1>1. Shape /\ Stages /\ LayersLeft /\ PlanFits /\ PlanInOrder
  BY DEF MapInv
<1>2. /\ UNCHANGED <<model, devices, phase, mappings, entry,
                     used_capacity, used_capacity_no_act, layers_on_device>>
      /\ phase = "map" /\ paged' = FALSE /\ next' = 1 /\ layer_sizes' = Reverse(layer_sizes)
      /\ remaining_to_map' = SumOf(model.sizes) + model.non_mapped
      /\ current_ordinal' = 0 /\ current_layer' = 0 /\ device_layers' = <<>>
      /\ mapping_includes_cpu' = FALSE
  BY DEF MapAgain, Mapped, inputs, fillVars, mapperVars
<1>3. entry = 0 /\ mappings = <<>>
  BY <1>1, <1>2 DEF Stages
<1>4. model.sizes \in Seq(Nat \ {0}) /\ num_layers \in Nat /\ model.non_mapped \in Nat
      /\ num_layers' = num_layers
  BY <1>1, <1>2, ModelIs DEF Shape, num_layers
<1>5. SumOf(model.sizes) \in Nat
  <2>1. model.sizes \in [1..num_layers -> Nat]
    BY <1>4 DEF num_layers
  <2> QED BY <1>4, <2>1, SumIsNatural
<1>6. layer_sizes' \in Seq(Nat \ {0}) /\ Len(layer_sizes') = Len(layer_sizes)
      /\ Len(layer_sizes) \in Nat
  <2>1. layer_sizes \in Seq(Nat \ {0})
    BY <1>1 DEF Shape
  <2> QED BY <1>2, <2>1, ReverseIs
<1>7. device_layers' \in Seq(Entries) /\ Len(device_layers') = 0
  BY <1>2
<1>8. Shape'
  <2>1. remaining_to_map' \in Nat /\ next' \in 1..(Len(devices) + 1)
    BY <1>1, <1>2, <1>4, <1>5, DevicesAre DEF Shape
  <2>2. mappings' \in Seq(Nat) /\ entry' \in 0..Len(device_layers')
    BY <1>2, <1>3, <1>7
  <2>3. device_layers' \in Seq([ordinal : Nat, layers : Nat])
    BY <1>7 DEF Entries
  <2>4. paged' \in BOOLEAN /\ mapping_includes_cpu' \in BOOLEAN
        /\ current_ordinal' \in Nat /\ current_layer' \in Nat
    BY <1>2
  <2> QED BY <1>1, <1>2, <1>6, <2>1, <2>2, <2>3, <2>4 DEF Shape
<1>9. Stages' /\ PlanInOrder' /\ MapperFollows' /\ MapperCoversModel'
  BY <1>2, <1>3, <1>7 DEF Stages, PlanInOrder, MapperFollows, MapperCoversModel
<1>10. LayersLeft'
  BY <1>1, <1>2, <1>4, <1>6 DEF LayersLeft
<1>11. PlanFits'
  <2>1. 0 \in 0..Len(device_layers')
    BY <1>7
  <2>2. PlanSum(device_layers', 0) = 0
    BY <1>7, <2>1, PlanSumIs
  <2>3. Planned(Len(device_layers))' = PlanSum(device_layers', Len(device_layers'))
    BY DEF Planned, PlanSum
  <2> QED BY <1>2, <1>7, <2>2, <2>3 DEF PlanFits
<1> QED BY <1>8, <1>9, <1>10, <1>11 DEF MapInv

\* A plan of one entry is all on the first device.
LEMMA ExtendIs ==
    ASSUME MapInv, Extend
    PROVE  \E d \in Nat : /\ d <= device_layers[entry + 1].ordinal + 1
                          /\ \A i \in DOMAIN mappings : mappings[i] <= d
                          /\ mappings' = mappings \o Repeat(d, device_layers[entry + 1].layers)
<1> DEFINE e == device_layers[entry + 1]
<1>1. Shape /\ LayersLeft /\ PlanFits /\ PlanInOrder /\ MapperFollows
  BY DEF MapInv
<1>2. /\ phase = "extend" /\ entry < Len(device_layers)
      /\ mappings' = mappings \o (IF Len(device_layers) = 1 THEN Repeat(1, n_device_layers)
                                  ELSE Repeat(e.ordinal + 1, e.layers))
  BY DEF Extend
<1>3. device_layers \in Seq(Entries) /\ Len(device_layers) \in Nat /\ entry \in Nat
  BY <1>1 DEF Shape, Entries
<1>4. e \in Entries /\ entry + 1 \in DOMAIN device_layers
  BY <1>2, <1>3
<1>5. e.ordinal \in Nat /\ e.layers \in Nat
  BY <1>4 DEF Entries
<1>6. CASE Len(device_layers) = 1
  <2>1. entry = 0 /\ 0 \in 0..Len(device_layers)
    BY <1>2, <1>3, <1>6
  <2>2. mappings = <<>>
    BY <1>1, <1>2, <2>1 DEF MapperFollows
  <2>3. PlanSum(device_layers, 1) = e.layers
    <3>1. PlanSum(device_layers, 0) = 0
      BY <1>3, <2>1, PlanSumIs
    <3>2. entry < Len(device_layers) /\ entry \in 0..Len(device_layers)
      BY <1>2, <2>1
    <3>3. PlanSum(device_layers, entry + 1) = PlanSum(device_layers, entry) + e.layers
      BY <1>3, <3>2, PlanSumIs
    <3> QED BY <1>5, <2>1, <3>1, <3>3
  <2>4. e.layers <= num_layers /\ num_layers \in Nat
    <3>1. Planned(Len(device_layers)) = e.layers
      BY <1>6, <2>3, PlannedIs
    <3>2. current_layer \in Nat /\ current_layer <= num_layers /\ num_layers \in Nat
      BY <1>1, ModelIs DEF Shape, LayersLeft
    <3> QED BY <1>1, <1>5, <3>1, <3>2 DEF PlanFits
  <2>5. n_device_layers = e.layers
    <3>1. n_device_layers = Min({e.layers, num_layers})
      BY <1>6, <2>3, PlannedIs DEF n_device_layers
    <3>2. /\ Min({e.layers, num_layers}) \in {e.layers, num_layers}
          /\ Min({e.layers, num_layers}) <= e.layers
      <4>1. e.layers \in Int /\ num_layers \in Int
        BY <1>5, <2>4
      <4> HIDE DEF e
      <4> QED BY ONLY <4>1, MinOfTwo
    <3> QED BY <1>5, <2>4, <3>1, <3>2
  <2>6. mappings' = mappings \o Repeat(1, e.layers)
    BY <1>2, <1>6, <2>5
  <2>7. 1 <= e.ordinal + 1
    BY <1>5
  <2>8. \A i \in DOMAIN mappings : mappings[i] <= 1
    BY <2>2
  <2> HIDE DEF e
  <2> QED BY <2>6, <2>7, <2>8 DEF e
<1>7. CASE Len(device_layers) # 1
  <2>1. mappings' = mappings \o Repeat(e.ordinal + 1, e.layers)
    BY <1>2, <1>7
  <2>2. e.ordinal + 1 \in Nat /\ e.ordinal + 1 <= e.ordinal + 1
    BY <1>5
  <2>3. ASSUME NEW i \in DOMAIN mappings PROVE mappings[i] <= e.ordinal + 1
    <3>1. entry > 0
      BY <1>1, <1>2, <1>3 DEF MapperFollows
    <3>2. mappings[i] <= device_layers[entry].ordinal + 1
      BY <1>1, <1>2, <3>1 DEF MapperFollows
    <3>3. entry \in DOMAIN device_layers /\ entry < entry + 1
      BY <1>2, <1>3, <3>1
    <3>4. device_layers[entry].ordinal < e.ordinal
      BY <1>1, <1>4, <3>3 DEF PlanInOrder
    <3>5. device_layers[entry].ordinal \in Nat
      <4>1. device_layers[entry] \in Entries
        BY <1>3, <3>3
      <4> QED BY <4>1 DEF Entries
    <3>6. mappings[i] \in Nat
      BY <1>1 DEF Shape
    <3> QED BY <1>5, <3>2, <3>4, <3>5, <3>6
  <2> HIDE DEF e
  <2> QED BY <2>1, <2>2, <2>3 DEF e
<1> QED BY <1>6, <1>7

LEMMA ExtendMap == ASSUME MapInv, Extend PROVE MapInv'
<1> DEFINE e == device_layers[entry + 1]
<1>1. Shape /\ Stages /\ LayersLeft /\ PlanFits /\ PlanInOrder /\ MapperFollows
  BY DEF MapInv
<1>2. /\ UNCHANGED <<model, devices, paged, phase, next, layer_sizes, remaining_to_map,
                     current_ordinal, current_layer, device_layers, mapping_includes_cpu,
                     used_capacity, used_capacity_no_act, layers_on_device>>
      /\ phase = "extend" /\ entry < Len(device_layers) /\ entry' = entry + 1
  BY DEF Extend, inputs, planVars, fillVars
<1>3. PICK d \in Nat : /\ d <= e.ordinal + 1
                       /\ \A i \in DOMAIN mappings : mappings[i] <= d
                       /\ mappings' = mappings \o Repeat(d, e.layers)
  BY ExtendIs
<1>4. device_layers \in Seq(Entries) /\ Len(device_layers) \in Nat /\ entry \in Nat
      /\ entry \in 0..Len(device_layers)
  BY <1>1 DEF Shape, Entries
<1>5. e.ordinal \in Nat /\ e.layers \in Nat
  <2>1. e \in Entries
    BY <1>2, <1>4
  <2> QED BY <2>1 DEF Entries
<1>6. mappings \in Seq(Nat) /\ \A i, j \in DOMAIN mappings : i < j => mappings[i] <= mappings[j]
  BY <1>1, <1>2 DEF Shape, MapperFollows
<1> HIDE DEF e
<1>7. /\ mappings' \in Seq(Nat) /\ Len(mappings') = Len(mappings) + e.layers
      /\ \A i \in DOMAIN mappings' : mappings'[i] <= d
      /\ \A i, j \in DOMAIN mappings' : i < j => mappings'[i] <= mappings'[j]
  BY <1>3, <1>5, <1>6, SortedConcat
<1>8. Planned(entry + 1) = Planned(entry) + e.layers
  BY <1>2, <1>4, PlanSumIs, PlannedIs DEF e
<1>9. Shape'
  BY <1>1, <1>2, <1>4, <1>7 DEF Shape
<1>10. Stages' /\ LayersLeft' /\ PlanFits' /\ PlanInOrder' /\ MapperCoversModel'
  BY <1>1, <1>2 DEF Stages, LayersLeft, PlanFits, PlanInOrder, MapperCoversModel,
                    num_layers, Planned, Cpu
<1>11. MapperFollows'
  <2>1. Planned(entry)' = Planned(entry + 1)
    BY <1>2 DEF Planned
  <2>2. Len(mappings') = Planned(entry)'
    BY <1>1, <1>2, <1>7, <1>8, <2>1 DEF MapperFollows
  <2>3. entry' > 0 /\ device_layers'[entry'] = e
    BY <1>2, <1>4 DEF e
  <2>4. \A i \in DOMAIN mappings' : mappings'[i] <= e.ordinal + 1
    <3>1. \A i \in DOMAIN mappings' : mappings'[i] \in Nat
      BY <1>7
    <3>2. d \in Nat /\ d <= e.ordinal + 1
      BY <1>3
    <3> QED BY <1>5, <1>7, <3>1, <3>2
  <2> QED BY <1>7, <2>2, <2>3, <2>4 DEF MapperFollows
<1> QED BY <1>9, <1>10, <1>11 DEF MapInv

\* The CPU gets the layers that are not in the plan, at the end.
LEMMA IntoMapperMap == ASSUME MapInv, IntoMapper PROVE MapInv'
<1>1. Shape /\ Stages /\ LayersLeft /\ PlanFits /\ PlanInOrder /\ MapperFollows
  BY DEF MapInv
<1>2. /\ UNCHANGED <<model, devices, paged, next, layer_sizes, remaining_to_map,
                     current_ordinal, current_layer, device_layers, mapping_includes_cpu,
                     used_capacity, used_capacity_no_act, layers_on_device, entry>>
      /\ phase = "extend" /\ entry = Len(device_layers)
      /\ mappings' = mappings \o Repeat(Cpu, n_host_layers)
      /\ phase' = IF Len(mappings') = num_layers THEN "mapped" ELSE "assert_panic"
  BY DEF IntoMapper, inputs, planVars, fillVars
<1>3. device_layers \in Seq(Entries) /\ Len(device_layers) \in Nat
      /\ Len(device_layers) \in 0..Len(device_layers)
  BY <1>1 DEF Shape, Entries
<1>4. num_layers \in Nat /\ num_layers' = num_layers /\ model.sizes \in Seq(Nat \ {0})
  BY <1>1, <1>2, ModelIs DEF Shape, num_layers
<1>5. Cpu \in Nat /\ Cpu > 0
  BY <1>1, DevicesAre DEF Shape, Cpu
<1>6. Planned(Len(device_layers)) \in Nat /\ Planned(Len(device_layers)) <= num_layers
  <2>1. Planned(Len(device_layers)) \in Nat
    BY <1>3, PlanSumIs, PlannedIs
  <2> QED BY <1>1, <1>4, <2>1 DEF PlanFits, LayersLeft, Shape
<1>7. n_host_layers = num_layers - Planned(Len(device_layers)) /\ n_host_layers \in Nat
  <2> DEFINE p == Planned(Len(device_layers))
  <2>1. p \in Nat /\ p <= num_layers
    BY <1>6
  <2>2. n_host_layers = num_layers - Min({p, num_layers})
    BY DEF n_host_layers, n_device_layers
  <2> HIDE DEF p
  <2>3. Min({p, num_layers}) \in {p, num_layers} /\ Min({p, num_layers}) <= p
    <3>1. p \in Int /\ num_layers \in Int
      BY <1>4, <2>1
    <3> QED BY ONLY <3>1, MinOfTwo
  <2>4. n_host_layers = num_layers - p /\ n_host_layers \in Nat
    BY <1>4, <2>1, <2>2, <2>3
  <2> QED BY <2>4 DEF p
<1>8. mappings \in Seq(Nat) /\ Len(mappings) = Planned(Len(device_layers))
      /\ \A i, j \in DOMAIN mappings : i < j => mappings[i] <= mappings[j]
  BY <1>1, <1>2 DEF Shape, MapperFollows
<1>9. ASSUME NEW i \in DOMAIN mappings PROVE mappings[i] <= Cpu
  <2>1. entry > 0
    <3>1. entry # 0
      BY <1>1, <1>2 DEF MapperFollows
    <3> QED BY <1>2, <1>3, <3>1
  <2>2. entry \in DOMAIN device_layers
    BY <1>2, <1>3, <2>1
  <2>3. mappings[i] <= device_layers[entry].ordinal + 1
    BY <1>1, <1>2, <2>1 DEF MapperFollows
  <2>4. device_layers[entry].ordinal + 1 < Cpu
    BY <1>1, <2>2 DEF PlanInOrder
  <2>5. device_layers[entry].ordinal \in Nat
    <3>1. device_layers[entry] \in Entries
      BY <1>3, <2>2
    <3> QED BY <3>1 DEF Entries
  <2>6. mappings[i] \in Nat
    BY <1>8
  <2> QED BY <1>5, <2>3, <2>4, <2>5, <2>6
<1>10. /\ mappings' \in Seq(Nat) /\ Len(mappings') = Len(mappings) + n_host_layers
       /\ \A i, j \in DOMAIN mappings' : i < j => mappings'[i] <= mappings'[j]
  BY <1>2, <1>5, <1>7, <1>8, <1>9, SortedConcat
<1>11. Len(mappings') = num_layers /\ phase' = "mapped"
  BY <1>2, <1>4, <1>6, <1>7, <1>8, <1>10
<1>12. Shape'
  BY <1>1, <1>2, <1>10, <1>11 DEF Shape, Phases
<1>13. Stages' /\ LayersLeft' /\ PlanFits' /\ PlanInOrder' /\ MapperFollows'
  BY <1>1, <1>2, <1>11 DEF Stages, LayersLeft, PlanFits, PlanInOrder, MapperFollows,
                           num_layers, Planned, Cpu
<1>14. MapperCoversModel'
  <2>1. DOMAIN mappings' = DOMAIN model.sizes
    BY <1>4, <1>10, <1>11 DEF num_layers
  <2> QED BY <1>2, <1>10, <1>11, <2>1 DEF MapperCoversModel
<1> QED BY <1>12, <1>13, <1>14 DEF MapInv

LEMMA StutterMap == ASSUME MapInv, UNCHANGED vars PROVE MapInv'
<1>1. UNCHANGED <<model, devices, paged, phase, next, layer_sizes, remaining_to_map,
                  current_ordinal, current_layer, device_layers, mapping_includes_cpu,
                  used_capacity, used_capacity_no_act, layers_on_device, mappings, entry>>
  BY DEF vars, inputs, planVars, fillVars, mapperVars
<1>2. Shape' /\ Stages' /\ LayersLeft' /\ PlanFits' /\ PlanInOrder'
  BY <1>1 DEF MapInv, Shape, Stages, LayersLeft, PlanFits, PlanInOrder, num_layers, Planned, Cpu
<1>3. MapperFollows' /\ MapperCoversModel'
  BY <1>1 DEF MapInv, MapperFollows, MapperCoversModel, Planned
<1> QED BY <1>2, <1>3 DEF MapInv

(* The layers placed, on the device and to come are never more than the    *)
(* model has, and plan and mapper follow them: for any models and systems. *)
THEOREM MappingInvariant == Spec => []MapInv
<1>1. Init => MapInv
  BY InitMap
<1>2. MapInv /\ [Next]_vars => MapInv'
  BY PlaceRestMap, StartFillMap, PopLayerMap, FillDeviceMap, SkipDeviceMap, RefuseMap,
     MapAgainMap, StartMapperMap, ExtendMap, IntoMapperMap, StutterMap DEF Next
<1> QED BY <1>1, <1>2, PTL DEF Spec

(* into_mapper's assertion never fails, and the mapper has a device for    *)
(* each layer, in the order of the devices, for any models and systems.    *)
THEOREM MapperAlwaysCovers == Spec => []MapperCoversModel
<1>1. MapInv => MapperCoversModel
  BY DEF MapInv
<1> QED BY <1>1, MappingInvariant, PTL

-----------------------------------------------------------------------------
(* RoomInv is inductive.                                                   *)

LEMMA TimesOneMore == ASSUME NEW a \in Nat, NEW b \in Nat PROVE a * b + b = (a + 1) * b
OBVIOUS

LEMMA TimesMonotone ==
    ASSUME NEW a \in Nat, NEW b \in Nat, NEW c \in Nat, a <= b
    PROVE  a * c \in Nat /\ b * c \in Nat /\ a * c <= b * c
<1>1. PICK m \in Nat : b = a + m
  <2>1. b - a \in Nat /\ b = a + (b - a)
    OBVIOUS
  <2> QED BY <2>1
<1>2. m * c \in Nat /\ a * c \in Nat
  OBVIOUS
<1>3. (a + m) * c = a * c + m * c
  OBVIOUS
<1> QED BY <1>1, <1>2, <1>3

LEMMA LayerSizeIs ==
    ASSUME MapInv PROVE LayerSize \in Nat
<1>1. /\ model.sizes \in Seq(Nat \ {0}) /\ num_layers \in Nat /\ num_layers > 0
      /\ model.kv[paged] \in Nat
  BY ModelIs DEF MapInv, Shape
<1>2. model.sizes[1] \in Nat
  BY <1>1 DEF num_layers
<1> QED BY <1>1, <1>2 DEF LayerSize

LEMMA DeltaIs ==
    ASSUME MapInv, SizesOfModel, Uniform, layer_sizes # <<>>
    PROVE  Delta = LayerSize
<1>1. Head(layer_sizes) = layer_sizes[1] /\ 1 \in DOMAIN layer_sizes
  BY NextLayerIs DEF MapInv
<1> QED BY <1>1 DEF SizesOfModel, Delta, LayerSize

\* The layers that a plan puts on the device i.
InOrder(d) == \A j, k \in DOMAIN d : j < k => d[j].ordinal < d[k].ordinal
PlacedIn(d, i) ==
    IF \E k \in DOMAIN d : d[k].ordinal = i - 1
    THEN d[CHOOSE k \in DOMAIN d : d[k].ordinal = i - 1].layers ELSE 0

LEMMA PlacedInIs ==
    ASSUME NEW d \in Seq(Entries), NEW i \in Nat, InOrder(d),
           NEW k \in DOMAIN d, d[k].ordinal = i - 1
    PROVE  PlacedIn(d, i) = d[k].layers
<1> DEFINE c == CHOOSE x \in DOMAIN d : d[x].ordinal = i - 1
<1>1. c \in DOMAIN d /\ d[c].ordinal = i - 1
  OBVIOUS
<1>2. PlacedIn(d, i) = d[c].layers
  BY DEF PlacedIn
<1>3. c \in Nat /\ k \in Nat
  BY <1>1
<1> HIDE DEF c
<1>4. ~(c < k) /\ ~(k < c)
  <2>1. \A j \in DOMAIN d : d[j].ordinal \in Nat
    <3>1. \A j \in DOMAIN d : d[j] \in Entries
      OBVIOUS
    <3> QED BY <3>1 DEF Entries
  <2> QED BY <1>1, <2>1 DEF InOrder
<1> QED BY <1>2, <1>3, <1>4

LEMMA PlacedInNat ==
    ASSUME NEW d \in Seq(Entries), NEW i \in Nat PROVE PlacedIn(d, i) \in Nat
<1>1. \A k \in DOMAIN d : d[k] \in Entries
  OBVIOUS
<1>2. \A k \in DOMAIN d : d[k].layers \in Nat
  BY <1>1 DEF Entries
<1> QED BY <1>2 DEF PlacedIn

\* A later device changes nothing.
LEMMA PlacedInAppend ==
    ASSUME NEW d \in Seq(Entries), NEW e \in Entries, InOrder(Append(d, e)), NEW i \in Nat,
           i - 1 <= e.ordinal, \A k \in DOMAIN d : d[k].ordinal < e.ordinal
    PROVE  PlacedIn(Append(d, e), i) = IF i - 1 = e.ordinal THEN e.layers ELSE PlacedIn(d, i)
<1> DEFINE r == Append(d, e)
<1>1. /\ r \in Seq(Entries) /\ DOMAIN r = 1..(Len(d) + 1) /\ DOMAIN d = 1..Len(d)
      /\ Len(d) \in Nat /\ \A k \in 1..Len(d) : r[k] = d[k]
      /\ r[Len(d) + 1] = e
  BY AppendProperties
<1> HIDE DEF r
<1>2. InOrder(r)
  BY DEF r
<1>3. InOrder(d)
  BY <1>1, <1>2 DEF InOrder
<1>4. CASE i - 1 = e.ordinal
  <2>1. Len(d) + 1 \in DOMAIN r /\ r[Len(d) + 1].ordinal = i - 1
    BY <1>1, <1>4
  <2>2. PlacedIn(r, i) = r[Len(d) + 1].layers
    BY <1>1, <1>2, <2>1, PlacedInIs
  <2> QED BY <1>1, <1>4, <2>2 DEF r
<1>5. CASE i - 1 # e.ordinal /\ \E k \in DOMAIN d : d[k].ordinal = i - 1
  <2>1. PICK k \in DOMAIN d : d[k].ordinal = i - 1
    BY <1>5
  <2>2. PlacedIn(d, i) = d[k].layers
    BY <1>3, <2>1, PlacedInIs
  <2>3. k \in DOMAIN r /\ r[k] = d[k]
    BY <1>1, <2>1
  <2>4. PlacedIn(r, i) = r[k].layers
    BY <1>1, <1>2, <2>1, <2>3, PlacedInIs
  <2> QED BY <1>5, <2>2, <2>3, <2>4 DEF r
<1>6. CASE i - 1 # e.ordinal /\ ~\E k \in DOMAIN d : d[k].ordinal = i - 1
  <2>1. \A k \in 1..(Len(d) + 1) : k \in DOMAIN d \/ k = Len(d) + 1
    BY <1>1
  <2>2. ~\E k \in DOMAIN r : r[k].ordinal = i - 1
    BY <1>1, <1>6, <2>1
  <2>3. PlacedIn(r, i) = 0 /\ PlacedIn(d, i) = 0
    BY <1>6, <2>2 DEF PlacedIn
  <2> QED BY <1>6, <2>3 DEF r
<1> QED BY <1>4, <1>5, <1>6

LEMMA PlacedIs ==
    \A i : Placed(i) = IF devices[i].cpu THEN current_layer - Planned(Len(device_layers))
                       ELSE PlacedIn(device_layers, i)
BY DEF Placed, PlacedIn

LEMMA PlacedIsNat ==
    ASSUME MapInv, NEW i \in Nat PROVE Placed(i) \in Nat
<1>1. device_layers \in Seq(Entries) /\ Len(device_layers) \in 0..Len(device_layers)
      /\ current_layer \in Nat
  BY DEF MapInv, Shape, Entries
<1>2. Planned(Len(device_layers)) \in Nat
  BY <1>1, PlanSumIs, PlannedIs
<1>3. current_layer - Planned(Len(device_layers)) \in Nat
  BY <1>1, <1>2 DEF MapInv, PlanFits
<1>4. PlacedIn(device_layers, i) \in Nat
  BY <1>1, PlacedInNat
<1> QED BY <1>3, <1>4, PlacedIs

LEMMA PlacedIsNatNext ==
    ASSUME MapInv', NEW i \in Nat PROVE Placed(i)' \in Nat
<1>1. device_layers' \in Seq(Entries) /\ Len(device_layers') \in 0..Len(device_layers')
      /\ current_layer' \in Nat
  BY DEF MapInv, Shape, Entries
<1>2. Planned(Len(device_layers))' = PlanSum(device_layers', Len(device_layers'))
  BY DEF Planned, PlanSum
<1>3. PlanSum(device_layers', Len(device_layers')) \in Nat
  BY <1>1, PlanSumIs
<1>4. Planned(Len(device_layers))' <= current_layer'
  BY DEF MapInv, PlanFits
<1>5. current_layer' - Planned(Len(device_layers))' \in Nat
  BY <1>1, <1>2, <1>3, <1>4
<1>6. PlacedIn(device_layers', i) \in Nat
  BY <1>1, PlacedInNat
<1>7. Placed(i)' = IF devices'[i].cpu THEN current_layer' - Planned(Len(device_layers))'
                   ELSE PlacedIn(device_layers', i)
  BY DEF Placed, PlacedIn
<1> QED BY <1>5, <1>6, <1>7

\* The CPU is the last device; what comes before it is of one kind.
LEMMA DevicesBefore ==
    ASSUME Shape, next <= Len(devices), ~devices[next].cpu
    PROVE  /\ next < Len(devices) /\ ~devices[1].cpu
           /\ \A i \in 1..next : ~devices[i].cpu
<1>1. /\ next \in Nat /\ next >= 1 /\ Len(devices) \in Nat /\ devices[Len(devices)].cpu
      /\ \A i \in 1..(Len(devices) - 1) : devices[i].cpu = devices[1].cpu
  BY DevicesAre DEF Shape
<1>2. next # Len(devices)
  BY <1>1
<1>3. next < Len(devices) /\ \A i \in 1..next : i \in 1..(Len(devices) - 1)
  BY <1>1, <1>2
<1>4. next \in 1..(Len(devices) - 1)
  BY <1>1, <1>3
<1>5. ~devices[1].cpu
  <2>1. devices[next].cpu = devices[1].cpu
    BY <1>1, <1>4
  <2> QED BY ONLY <2>1, ~devices[next].cpu
<1>6. ASSUME NEW i \in 1..next PROVE ~devices[i].cpu
  <2>1. devices[i].cpu = devices[1].cpu
    BY <1>1, <1>3
  <2> QED BY ONLY <2>1, <1>5
<1> QED BY <1>3, <1>5, <1>6

LEMMA CpuFollows ==
    ASSUME Shape, ~devices[1].cpu, NEW i \in 1..(Len(devices) - 1)
    PROVE  ~devices[i].cpu
<1>1. devices[i].cpu = devices[1].cpu
  BY DevicesAre DEF Shape
<1> QED BY ONLY <1>1, ~devices[1].cpu

\* A device that is filled gets its layers, and those before lose none.
LEMMA FillPlaces ==
    ASSUME MapInv, MapInv', OrdinalOfDevice, FillDevice, NEW i \in 1..next
    PROVE  /\ i < next => Placed(i)' >= Placed(i)
           /\ i = next => Placed(i)' >= layers_on_device
<1> DEFINE e == [ordinal |-> current_ordinal, layers |-> layers_on_device]
<1>1. Shape /\ Stages /\ PlanInOrder /\ PlanInOrder'
  BY DEF MapInv
<1>2. /\ UNCHANGED devices /\ next <= Len(devices) /\ Place(layers_on_device)
      /\ current_layer' = current_layer + layers_on_device
  BY <1>1 DEF FillDevice, Stages, Place, inputs
<1>3. /\ i \in Nat /\ i >= 1 /\ next \in Nat /\ layers_on_device \in Nat /\ current_layer \in Nat
      /\ current_ordinal \in Nat /\ device_layers \in Seq(Entries)
  BY <1>1 DEF Shape, Entries
<1>4. Placed(i) \in Nat
  BY <1>3, PlacedIsNat
<1>5. Placed(i)' = IF devices[i].cpu
                   THEN current_layer' - Planned(Len(device_layers))'
                   ELSE PlacedIn(device_layers', i)
  BY <1>2 DEF Placed, PlacedIn
<1>6. CASE devices[next].cpu
  <2>1. UNCHANGED device_layers
    BY <1>2, <1>6 DEF Place
  <2>2. Planned(Len(device_layers))' = Planned(Len(device_layers))
    BY <2>1 DEF Planned
  <2>3. Planned(Len(device_layers)) \in Nat
    <3>1. Len(device_layers) \in 0..Len(device_layers)
      BY <1>3
    <3> QED BY <1>3, <3>1, PlanSumIs, PlannedIs
  <2>4. CASE devices[i].cpu
    <3>1. Placed(i) = current_layer - Planned(Len(device_layers))
      BY <2>4, PlacedIs
    <3>2. Placed(i)' = current_layer' - Planned(Len(device_layers))
      <4>1. Placed(i)' = current_layer' - Planned(Len(device_layers))'
        BY <1>5, <2>4
      <4> QED BY ONLY <2>2, <4>1
    <3> QED BY <1>2, <1>3, <1>4, <2>3, <3>1, <3>2
  <2>5. CASE ~devices[i].cpu
    <3>1. Placed(i)' = Placed(i)
      BY <1>5, <2>1, <2>5, PlacedIs
    <3>2. i # next
      BY <1>6, <2>5
    <3> QED BY <1>4, <3>1, <3>2
  <2> QED BY <2>4, <2>5
<1>7. CASE ~devices[next].cpu
  <2>1. ~devices[1].cpu /\ ~devices[i].cpu
    BY <1>1, <1>2, <1>7, DevicesBefore
  <2>2. current_ordinal = next - 1
    BY <1>2, <2>1 DEF OrdinalOfDevice
  <2>3. device_layers' = Append(device_layers, e)
    BY <1>2, <1>7 DEF Place
  <2>4. e \in Entries /\ e.ordinal = next - 1 /\ e.layers = layers_on_device
    BY <1>3, <2>2 DEF Entries
  <2> HIDE DEF e
  <2>5. InOrder(Append(device_layers, e))
    BY <1>1, <2>3 DEF PlanInOrder, InOrder
  <2>6. \A k \in DOMAIN device_layers : device_layers[k].ordinal < e.ordinal
    BY <1>1, <2>2, <2>4 DEF PlanInOrder
  <2>7. i - 1 <= e.ordinal
    BY <1>3, <2>4
  <2>8. PlacedIn(device_layers', i)
          = IF i - 1 = e.ordinal THEN e.layers ELSE PlacedIn(device_layers, i)
    BY <1>3, <2>3, <2>4, <2>5, <2>6, <2>7, PlacedInAppend
  <2>9. Placed(i) = PlacedIn(device_layers, i) /\ Placed(i)' = PlacedIn(device_layers', i)
    BY <1>5, <2>1, PlacedIs
  <2> QED BY <1>3, <1>4, <2>4, <2>8, <2>9
<1> QED BY <1>6, <1>7

\* A device that cannot take the next layer is full.
LEMMA NoRoomForNext ==
    ASSUME MapInv, RoomInv, phase = "fill", ~NextFits, Uniform, layer_sizes # <<>>
    PROVE  Held(next) + (layers_on_device + 1) * LayerSize > Usable(next)
<1>1. Shape /\ Stages
  BY DEF MapInv
<1>2. next <= Len(devices) /\ next \in Nat /\ next >= 1 /\ Usable(next) \in Int
      /\ used_capacity \in Nat /\ layers_on_device \in Nat /\ current_ordinal \in Nat
  BY <1>1, DevicesAre DEF Stages, Shape
<1>3. LayerSize \in Nat /\ Delta = LayerSize
  BY LayerSizeIs, DeltaIs DEF RoomInv
<1>4. ~(used_capacity + LayerSize <= Usable(next))
  BY <1>3 DEF NextFits
<1>5. used_capacity = Reserved + layers_on_device * LayerSize
  BY DEF RoomInv, Filling
<1>6. Reserved \in Nat /\ ReservedFirst \in Nat /\ Reserved <= ReservedFirst /\ model.act \in Nat
  BY <1>1, ReservedIs, ModelIs DEF Shape
<1>7. Reserved <= Held(next) /\ Held(next) \in Nat
  <2>1. CASE next = 1 \/ devices[1].cpu
    BY <1>6, <2>1 DEF Held
  <2>2. CASE ~(next = 1 \/ devices[1].cpu)
    <3>1. current_ordinal = next - 1
      BY <1>2, <2>2 DEF RoomInv, OrdinalOfDevice
    <3>2. current_ordinal # 0
      BY <1>2, <2>2, <3>1
    <3>3. Reserved = model.act /\ Held(next) = model.act
      BY <2>2, <3>2 DEF Reserved, Held
    <3> QED BY <1>6, <3>3
  <2> QED BY <2>1, <2>2
<1>8. layers_on_device * LayerSize + LayerSize = (layers_on_device + 1) * LayerSize
  BY <1>2, <1>3, TimesOneMore
<1> DEFINE p == layers_on_device * LayerSize
           q == (layers_on_device + 1) * LayerSize
<1>9. p \in Nat /\ q \in Nat
  <2>1. layers_on_device + 1 \in Nat
    BY <1>2
  <2>2. \A a, b \in Nat : a * b \in Nat
    OBVIOUS
  <2> QED BY ONLY <1>2, <1>3, <2>1, <2>2
<1>10. used_capacity = Reserved + p /\ p + LayerSize = q
  BY <1>5, <1>8
<1> HIDE DEF p, q
<1>11. Held(next) + q > Usable(next)
  BY <1>2, <1>3, <1>4, <1>6, <1>7, <1>9, <1>10
<1> QED BY <1>11 DEF q

\* When a device is done with, it is full, and those before stay full.
LEMMA DeviceDone ==
    ASSUME MapInv, RoomInv, phase = "fill", ~NextFits, next' = next + 1,
           UNCHANGED <<inputs, paged, layer_sizes>>,
           \A i \in 1..next : /\ Placed(i) \in Nat /\ Placed(i)' \in Nat
                              /\ i < next => Placed(i)' >= Placed(i)
                              /\ i = next => Placed(i)' >= layers_on_device
    PROVE  DevicesFull'
<1>1. Shape /\ Stages
  BY DEF MapInv
<1>2. UNCHANGED <<model, devices, LayerSize, layer_sizes>> /\ Uniform' = Uniform
      /\ \A i : Held(i)' = Held(i) /\ Usable(i)' = Usable(i)
  BY DEF inputs, LayerSize, Uniform, Held, ReservedFirst, Usable
<1>3. next \in Nat /\ next >= 1 /\ next <= Len(devices) /\ Len(devices) \in Nat
      /\ layers_on_device \in Nat /\ LayerSize \in Nat
      /\ \A i \in 1..Len(devices) : Usable(i) \in Int
  BY <1>1, DevicesAre, LayerSizeIs DEF Stages, Shape
<1>4. \A i : Held(i) \in Nat
  BY <1>1, ReservedIs, ModelIs DEF Held, Shape
<1>5. SUFFICES ASSUME Uniform, layer_sizes # <<>>, NEW i \in 1..next
               PROVE  Full(i)'
  BY <1>2, <1>3 DEF DevicesFull
<1>6. i \in 1..Len(devices) /\ Usable(i) \in Int
  BY <1>3
<1>7. PICK n \in Nat : n <= Placed(i)' /\ Held(i) + (n + 1) * LayerSize > Usable(i)
  <2>1. CASE i = next
    BY <1>3, <1>5, <2>1, NoRoomForNext
  <2>2. CASE i # next
    <3>1. i \in 1..(next - 1) /\ i < next
      BY <1>3, <2>2
    <3>2. remaining_to_map > 0
      BY <1>1 DEF Stages
    <3>3. Full(i)
      BY <1>5, <3>1, <3>2 DEF RoomInv, DevicesFull
    <3> QED BY <3>1, <3>3 DEF Full
  <2> QED BY <2>1, <2>2
<1>8. Placed(i)' \in Nat
  OBVIOUS
<1> DEFINE m == Placed(i)'
           p == (n + 1) * LayerSize
           q == (m + 1) * LayerSize
<1> HIDE DEF m
<1>9. p \in Nat /\ q \in Nat /\ p <= q
  <2>1. n + 1 \in Nat /\ m + 1 \in Nat /\ n + 1 <= m + 1
    BY <1>7, <1>8 DEF m
  <2> QED BY <1>3, <2>1, TimesMonotone
<1>10. Held(i) + p > Usable(i) /\ Held(i) \in Nat
  BY <1>4, <1>7
<1>11. Held(i) + q > Usable(i) => Full(i)'
  BY <1>2 DEF Full, m
<1> HIDE DEF p, q
<1> QED BY <1>6, <1>9, <1>10, <1>11

LEMMA InitRoom == ASSUME Init PROVE RoomInv
<1>1. SizesOfModel
  <2>1. 1 \in DOMAIN model.sizes
    BY ModelIs DEF Init, num_layers
  <2> QED BY <2>1 DEF Init, SizesOfModel, Uniform
<1>2. OrdinalOfDevice /\ Filling /\ DevicesFull
  BY DEF Init, OrdinalOfDevice, Filling, DevicesFull
<1> QED BY <1>1, <1>2 DEF RoomInv

\* Nothing of the plan or of the layers to come changes.
LEMMA SameRoom ==
    ASSUME RoomInv, UNCHANGED <<inputs, paged, planVars>>, Filling'
    PROVE  RoomInv'
<1>1. UNCHANGED <<model, devices, paged, next, layer_sizes, remaining_to_map, current_ordinal,
                  current_layer, device_layers>>
  BY DEF inputs, planVars
<1>2. SizesOfModel' /\ OrdinalOfDevice'
  BY <1>1 DEF RoomInv, SizesOfModel, OrdinalOfDevice, Uniform
<1>3. DevicesFull'
  <2>1. \A i : Full(i)' = Full(i)
    BY <1>1 DEF Full, Held, ReservedFirst, Placed, Planned, LayerSize, Usable
  <2> QED BY <1>1, <2>1 DEF RoomInv, DevicesFull, Uniform
<1> QED BY <1>2, <1>3 DEF RoomInv

LEMMA StartFillRoom == ASSUME MapInv, RoomInv, StartFill PROVE RoomInv'
<1>1. UNCHANGED <<inputs, paged, planVars>> /\ used_capacity' = Reserved /\ layers_on_device' = 0
  BY DEF StartFill
<1>2. Reserved' = Reserved /\ LayerSize' = LayerSize
  BY <1>1 DEF inputs, planVars, Reserved, ReservedFirst, LayerSize
<1>3. Reserved \in Nat /\ LayerSize \in Nat
  BY ReservedIs, LayerSizeIs DEF MapInv, Shape
<1>4. Filling'
  BY <1>1, <1>2, <1>3 DEF Filling
<1> QED BY <1>1, <1>4, SameRoom

\* The phase of filling is not entered.
LEMMA NotFilling == ASSUME phase' # "fill" PROVE Filling'
BY DEF Filling

LEMMA PopLayerRoom == ASSUME MapInv, RoomInv, PopLayer PROVE RoomInv'
<1>1. /\ UNCHANGED <<model, devices, paged, phase, next, remaining_to_map, current_ordinal,
                     current_layer, device_layers>>
      /\ phase = "fill" /\ layer_sizes # <<>> /\ layer_sizes' = Tail(layer_sizes)
      /\ used_capacity' = used_capacity + Delta /\ layers_on_device' = layers_on_device + 1
  BY DEF PopLayer, NextFits, inputs
<1>2. Uniform' = Uniform /\ LayerSize' = LayerSize /\ Reserved' = Reserved
  BY <1>1 DEF Uniform, LayerSize, Reserved, ReservedFirst
<1>3. SizesOfModel'
  <2>1. \A i \in DOMAIN layer_sizes' : i + 1 \in DOMAIN layer_sizes
                                       /\ layer_sizes'[i] = layer_sizes[i + 1]
    BY <1>1, NextLayerIs DEF MapInv
  <2> QED BY <1>1, <1>2, <2>1 DEF RoomInv, SizesOfModel
<1>4. OrdinalOfDevice'
  BY <1>1 DEF RoomInv, OrdinalOfDevice
<1>5. Filling'
  <2>1. SUFFICES ASSUME Uniform
                 PROVE  used_capacity' = Reserved + layers_on_device' * LayerSize
    BY <1>2 DEF Filling
  <2>2. used_capacity = Reserved + layers_on_device * LayerSize
    BY <1>1, <2>1 DEF RoomInv, Filling
  <2>3. Reserved \in Nat /\ LayerSize \in Nat /\ layers_on_device \in Nat
    BY ReservedIs, LayerSizeIs DEF MapInv, Shape
  <2>4. Delta = LayerSize
    BY <1>1, <2>1, DeltaIs DEF RoomInv
  <2>5. layers_on_device * LayerSize + LayerSize = layers_on_device' * LayerSize
    BY <1>1, <2>3, TimesOneMore
  <2>6. layers_on_device * LayerSize \in Nat
    BY <2>3
  <2> DEFINE p == layers_on_device * LayerSize
  <2> HIDE DEF p
  <2>7. p + LayerSize = layers_on_device' * LayerSize /\ p \in Nat
        /\ used_capacity' = (Reserved + p) + LayerSize
    BY <1>1, <2>2, <2>4, <2>5, <2>6 DEF p
  <2>8. (Reserved + p) + LayerSize = Reserved + (p + LayerSize)
    BY <2>3, <2>7
  <2> QED BY <2>7, <2>8
<1>6. DevicesFull'
  <2>1. \A i : Full(i)' = Full(i)
    BY <1>1 DEF Full, Held, ReservedFirst, Placed, Planned, LayerSize, Usable
  <2> QED BY <1>1, <1>2, <2>1 DEF RoomInv, DevicesFull
<1> QED BY <1>3, <1>4, <1>5, <1>6 DEF RoomInv

\* The ordinal goes on with the devices.
LEMMA NextOrdinal ==
    ASSUME Shape, OrdinalOfDevice, next <= Len(devices), UNCHANGED devices, next' = next + 1,
           ~devices[next].cpu => current_ordinal' = current_ordinal + 1
    PROVE  OrdinalOfDevice'
<1>1. SUFFICES ASSUME ~devices[1].cpu, next + 1 <= Len(devices)
               PROVE  current_ordinal' = next
  BY DEF OrdinalOfDevice, Shape
<1>2. next \in 1..(Len(devices) - 1) /\ current_ordinal \in Nat /\ next \in Nat
  BY <1>1, DevicesAre DEF Shape
<1>3. ~devices[next].cpu
  BY <1>1, <1>2, CpuFollows
<1>4. current_ordinal = next - 1
  BY <1>1 DEF OrdinalOfDevice
<1> QED BY <1>2, <1>3, <1>4

LEMMA PlaceRestRoom == ASSUME MapInv, RoomInv, PlaceRest PROVE RoomInv'
<1>1. /\ UNCHANGED <<model, devices, paged, layer_sizes>> /\ phase' = "map"
      /\ next <= Len(devices) /\ next' = next + 1 /\ remaining_to_map' = 0
      /\ ~devices[next].cpu => current_ordinal' = current_ordinal + 1
  BY DEF PlaceRest, Mapping, Place, inputs
<1>2. SizesOfModel' /\ Filling' /\ DevicesFull'
  BY <1>1 DEF RoomInv, SizesOfModel, Filling, DevicesFull, Uniform
<1>3. OrdinalOfDevice'
  BY <1>1, NextOrdinal DEF MapInv, RoomInv
<1> QED BY <1>2, <1>3 DEF RoomInv

LEMMA FillDeviceRoom == ASSUME MapInv, MapInv', RoomInv, FillDevice PROVE RoomInv'
<1>1. /\ UNCHANGED <<inputs, model, devices, paged, layer_sizes>> /\ phase = "fill"
      /\ phase' = "map" /\ ~NextFits /\ next <= Len(devices) /\ next' = next + 1
      /\ ~devices[next].cpu => current_ordinal' = current_ordinal + 1
  BY DEF FillDevice, Place, inputs, MapInv, Stages
<1>2. SizesOfModel' /\ Filling'
  BY <1>1 DEF RoomInv, SizesOfModel, Filling, Uniform
<1>3. OrdinalOfDevice'
  BY <1>1, NextOrdinal DEF MapInv, RoomInv
<1>4. \A i \in 1..next : Placed(i) \in Nat /\ Placed(i)' \in Nat
  <2> SUFFICES ASSUME NEW i \in 1..next PROVE Placed(i) \in Nat /\ Placed(i)' \in Nat
    OBVIOUS
  <2>1. i \in Nat
    BY DEF MapInv, Shape
  <2>2. Placed(i) \in Nat
    BY <2>1, PlacedIsNat
  <2>3. Placed(i)' \in Nat
    BY <2>1, PlacedIsNatNext
  <2> QED BY <2>2, <2>3
<1>5. \A i \in 1..next : /\ i < next => Placed(i)' >= Placed(i)
                         /\ i = next => Placed(i)' >= layers_on_device
  BY FillPlaces DEF RoomInv
<1>6. DevicesFull'
  BY <1>1, <1>4, <1>5, DeviceDone
<1> QED BY <1>2, <1>3, <1>6 DEF RoomInv

LEMMA SkipDeviceRoom == ASSUME MapInv, RoomInv, SkipDevice PROVE RoomInv'
<1>1. /\ UNCHANGED <<inputs, model, devices, paged, layer_sizes, current_layer, device_layers>>
      /\ phase = "fill" /\ phase' = "map" /\ ~NextFits /\ layers_on_device = 0
      /\ next <= Len(devices) /\ next' = next + 1 /\ current_ordinal' = current_ordinal + 1
  BY DEF SkipDevice, inputs, MapInv, Stages
<1>2. SizesOfModel' /\ Filling'
  BY <1>1 DEF RoomInv, SizesOfModel, Filling, Uniform
<1>3. OrdinalOfDevice'
  BY <1>1, NextOrdinal DEF MapInv, RoomInv
<1>4. ASSUME NEW i \in 1..next
      PROVE  /\ Placed(i) \in Nat /\ Placed(i)' \in Nat
             /\ Placed(i)' >= Placed(i) /\ Placed(i)' >= layers_on_device
  <2>1. i \in Nat
    BY DEF MapInv, Shape
  <2>2. Placed(i) \in Nat
    BY <2>1, PlacedIsNat
  <2>3. Placed(i)' = Placed(i)
    BY <1>1 DEF Placed, Planned
  <2> QED BY <1>1, <2>2, <2>3
<1>5. DevicesFull'
  BY <1>1, <1>4, DeviceDone
<1> QED BY <1>2, <1>3, <1>5 DEF RoomInv

LEMMA MapAgainRoom == ASSUME MapInv, RoomInv, MapAgain PROVE RoomInv'
<1>1. /\ UNCHANGED <<model, devices, phase>> /\ phase = "map" /\ next' = 1
      /\ layer_sizes' = Reverse(layer_sizes) /\ current_ordinal' = 0
  BY DEF MapAgain, Mapped, inputs
<1>2. \A i \in DOMAIN layer_sizes' : \E j \in DOMAIN layer_sizes : layer_sizes'[i] = layer_sizes[j]
  <2>1. layer_sizes \in Seq(Nat \ {0})
    BY DEF MapInv, Shape
  <2> QED BY <1>1, <2>1, ReverseIs
<1>3. SizesOfModel'
  BY <1>1, <1>2 DEF RoomInv, SizesOfModel, Uniform
<1>4. OrdinalOfDevice' /\ Filling' /\ DevicesFull'
  BY <1>1 DEF OrdinalOfDevice, Filling, DevicesFull
<1> QED BY <1>3, <1>4 DEF RoomInv

(* Every device that has been looked at is full as long as layers remain,  *)
(* where layers are of one size: for any models and systems.               *)
THEOREM RoomInvariant == Spec => []RoomInv
<1>1. Init => RoomInv
  BY InitRoom
<1>2. MapInv /\ MapInv' /\ RoomInv /\ [Next]_vars => RoomInv'
  <2> SUFFICES ASSUME MapInv, MapInv', RoomInv, [Next]_vars PROVE RoomInv'
    OBVIOUS
  <2>1. CASE StartFill
    BY <2>1, StartFillRoom
  <2>2. CASE PopLayer
    BY <2>2, PopLayerRoom
  <2>3. CASE FillDevice
    BY <2>3, FillDeviceRoom
  <2>4. CASE SkipDevice
    BY <2>4, SkipDeviceRoom
  <2>5. CASE PlaceRest
    BY <2>5, PlaceRestRoom
  <2>6. CASE MapAgain
    BY <2>6, MapAgainRoom
  <2>7. CASE Refuse \/ StartMapper \/ Extend \/ IntoMapper
    <3>1. UNCHANGED <<inputs, paged, planVars>> /\ phase' # "fill"
      BY <2>7 DEF Refuse, StartMapper, Extend, IntoMapper
    <3> QED BY <3>1, NotFilling, SameRoom
  <2>8. CASE UNCHANGED vars
    <3>1. UNCHANGED <<inputs, model, devices, paged, planVars, phase, used_capacity,
                      layers_on_device, current_ordinal>>
      BY <2>8 DEF vars, inputs, fillVars, planVars
    <3>2. Filling'
      BY <3>1 DEF RoomInv, Filling, Uniform, Reserved, ReservedFirst, LayerSize
    <3> QED BY <3>1, <3>2, SameRoom
  <2> QED BY <2>1, <2>2, <2>3, <2>4, <2>5, <2>6, <2>7, <2>8 DEF Next
<1> QED BY <1>1, <1>2, MappingInvariant, PTL DEF Spec

(* A model whose layers are of one size is refused only when no device has *)
(* room for one more layer, for any models and systems.                    *)
THEOREM RefusalsAreJustified == Spec => []RefusalIsJustified
<1>1. ASSUME MapInv, RoomInv, phase = "refused", Uniform, layer_sizes # <<>>,
             remaining_to_map > 0, NEW i \in DOMAIN devices
      PROVE  Held(i) + (Placed(i) + 1) * Delta > Usable(i)
  <2>1. next > Len(devices) /\ next \in 1..(Len(devices) + 1) /\ Len(devices) \in Nat
    BY <1>1, DevicesAre DEF MapInv, Stages, Shape
  <2>2. DOMAIN devices = 1..Len(devices)
    <3>1. devices \in Seq([cpu : BOOLEAN, avail : Nat])
      BY <1>1, MappingAssumption DEF MapInv, Shape
    <3> QED BY <3>1
  <2>3. i \in 1..(next - 1)
    BY <2>1, <2>2
  <2>4. Full(i)
    BY <1>1, <2>3 DEF RoomInv, DevicesFull
  <2>5. Delta = LayerSize
    BY <1>1, DeltaIs DEF RoomInv
  <2> QED BY <2>4, <2>5 DEF Full
<1>2. MapInv /\ RoomInv => RefusalIsJustified
  BY <1>1 DEF RefusalIsJustified, MapInv, Stages
<1> QED BY <1>2, MappingInvariant, RoomInvariant, PTL
=============================================================================
