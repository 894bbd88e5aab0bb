---------------------------- MODULE DeviceMapping ----------------------------
(***************************************************************************)
(* Automatic device mapping (get_device_layers of pipeline/loaders/mod.rs, *)
(* and into_mapper of device_map.rs that turns its plan into a device for  *)
(* each layer): which layers of a model go to which of the devices.        *)
(*                                                                         *)
(* The sizes of a model and the free memory of the devices are inputs,     *)
(* chosen in Init.  The CPU is the last of the devices; where there is     *)
(* nothing else it is listed twice, as in the code.  An action is one      *)
(* iteration of a loop.                                                    *)
(***************************************************************************)
EXTENDS Integers, FiniteSetsExt, SequencesExt

CONSTANTS Models,    \* models to map
          Systems    \* sequences of devices to map them to

ASSUME MappingAssumption ==
    /\ \A m \in Models : /\ m.sizes \in Seq(Nat \ {0}) /\ m.sizes # <<>>
                         /\ m.non_mapped \in Nat
                         /\ m.act \in Nat /\ m.non_mapped_act \in Nat
                         /\ m.kv \in [BOOLEAN -> Nat]
    /\ \A d \in Systems : /\ d \in Seq([cpu : BOOLEAN, avail : Nat])
                          /\ Len(d) > 1 /\ d[Len(d)].cpu
                          /\ \A i \in 1..(Len(d) - 1) : d[i].cpu = d[1].cpu
                          /\ d[1].cpu => Len(d) = 2

VARIABLES model,                \* the model, and
          devices,              \* the devices
          paged,                \* with PagedAttention
          phase,
          next,                 \* the device to pop
          layer_sizes,          \* sizes of the layers to come
          remaining_to_map,
          current_ordinal, current_layer,
          device_layers,        \* the plan: layers of one device after the other
          mapping_includes_cpu,
          used_capacity, used_capacity_no_act, layers_on_device,   \* of the device that is filled
          mappings, entry       \* the device of each layer, up to this entry of the plan

inputs == <<model, devices>>
fillVars == <<used_capacity, used_capacity_no_act, layers_on_device>>
planVars == <<next, layer_sizes, remaining_to_map, current_ordinal, current_layer,
              device_layers, mapping_includes_cpu>>
mapperVars == <<mappings, entry>>
vars == <<inputs, paged, phase, planVars, fillVars, mapperVars>>

num_layers == Len(model.sizes)
\* Layers are of one size in all text models, and differ in some vision models.
Uniform == \A i, j \in DOMAIN model.sizes : model.sizes[i] = model.sizes[j]

\* The sum of a sequence of numbers: how many pairs of a place and a number up
\* to the one at that place there are.
SumOf(q) == Cardinality(UNION {{i} \X (1..q[i]) : i \in DOMAIN q})

Init ==
    /\ model \in Models /\ devices \in Systems /\ paged \in BOOLEAN
    /\ phase = "map"
    /\ next = 1
    /\ layer_sizes = model.sizes
    /\ remaining_to_map = SumOf(model.sizes) + model.non_mapped
    /\ current_ordinal = 0 /\ current_layer = 0
    /\ device_layers = <<>>
    /\ mapping_includes_cpu = FALSE
    /\ used_capacity = 0 /\ used_capacity_no_act = 0 /\ layers_on_device = 0
    /\ mappings = <<>> /\ entry = 0

-----------------------------------------------------------------------------
\* 90% of what is free.
Usable(i) == (devices[i].avail * 9) \div 10

Mapping == phase = "map" /\ remaining_to_map > 0 /\ next <= Len(devices)

\* Everything, or everything that remains, fits on the device.
RestFits ==
    Usable(next) >= remaining_to_map + model.act
                    + (IF current_ordinal = 0 THEN model.non_mapped_act ELSE 0)

\* The first device carries what is not mapped.
ReservedFirst == Max({model.act, model.non_mapped_act}) + model.non_mapped

\* What a device holds before its layers.
Reserved == IF current_ordinal = 0 THEN ReservedFirst ELSE model.act

\* Weights and KV cache of the next layer.
Delta == Head(layer_sizes) + model.kv[paged]

NextFits == layer_sizes # <<>> /\ used_capacity + Delta <= Usable(next)

\* The device gets n layers.  Those of the CPU are left out of the plan.
Place(n) ==
    /\ IF devices[next].cpu
       THEN /\ mapping_includes_cpu' = TRUE
            /\ UNCHANGED <<device_layers, current_ordinal>>
       ELSE /\ device_layers' = Append(device_layers, [ordinal |-> current_ordinal, layers |-> n])
            /\ current_ordinal' = current_ordinal + 1
            /\ UNCHANGED mapping_includes_cpu
    /\ current_layer' = current_layer + n
    /\ next' = next + 1

\* Mutation: the layers of the devices before are placed again.
PlaceRestFromStart ==
    /\ Mapping /\ RestFits
    /\ Place(num_layers)
    /\ remaining_to_map' = 0
    /\ UNCHANGED <<inputs, paged, phase, layer_sizes, fillVars, mapperVars>>

PlaceRest ==
    /\ Mapping /\ RestFits
    /\ Place(num_layers - current_layer)
    /\ remaining_to_map' = 0
    /\ UNCHANGED <<inputs, paged, phase, layer_sizes, fillVars, mapperVars>>

\* Otherwise the device is filled, layer by layer.
StartFill ==
    /\ Mapping /\ ~RestFits
    /\ phase' = "fill"
    /\ used_capacity' = Reserved /\ used_capacity_no_act' = model.act
    /\ layers_on_device' = 0
    /\ UNCHANGED <<inputs, paged, planVars, mapperVars>>

PopLayer ==
    /\ phase = "fill" /\ NextFits
    /\ layer_sizes' = Tail(layer_sizes)
    /\ used_capacity' = used_capacity + Delta
    /\ used_capacity_no_act' = used_capacity_no_act + Delta
    /\ layers_on_device' = layers_on_device + 1
    /\ UNCHANGED <<inputs, paged, phase, next, remaining_to_map, current_ordinal, current_layer,
                   device_layers, mapping_includes_cpu, mapperVars>>

\* `used_capacity_no_act` is subtracted: activations and KV caches included.
FillDevice ==
    /\ phase = "fill" /\ ~NextFits
    /\ layers_on_device > 0
    /\ Place(layers_on_device)
    /\ remaining_to_map' = Max({0, remaining_to_map - used_capacity_no_act})
    /\ phase' = "map"
    /\ UNCHANGED <<inputs, paged, layer_sizes, fillVars, mapperVars>>

\* Mutation: the ordinal stays.
SkipDeviceKeepsOrdinal ==
    /\ phase = "fill" /\ ~NextFits
    /\ layers_on_device = 0
    /\ next' = next + 1
    /\ phase' = "map"
    /\ UNCHANGED <<inputs, paged, layer_sizes, remaining_to_map, current_ordinal, current_layer,
                   device_layers, mapping_includes_cpu, fillVars, mapperVars>>

\* "Device {} can fit 0 layers."
SkipDevice ==
    /\ phase = "fill" /\ ~NextFits
    /\ layers_on_device = 0
    /\ current_ordinal' = current_ordinal + 1
    /\ next' = next + 1
    /\ phase' = "map"
    /\ UNCHANGED <<inputs, paged, layer_sizes, remaining_to_map, current_layer,
                   device_layers, mapping_includes_cpu, fillVars, mapperVars>>

-----------------------------------------------------------------------------
\* The loop is over, with everything mapped.
Mapped == phase = "map" /\ ~Mapping /\ remaining_to_map = 0

\* "This model does not fit on the devices"
Refuse ==
    /\ phase = "map" /\ ~Mapping /\ remaining_to_map > 0
    /\ phase' = "refused"
    /\ UNCHANGED <<inputs, paged, planVars, fillVars, mapperVars>>

\* Mutation: the second time is like the first.
MapAgainPaged ==
    /\ Mapped /\ paged /\ mapping_includes_cpu
    /\ next' = 1
    /\ layer_sizes' = Reverse(layer_sizes)
    /\ remaining_to_map' = SumOf(model.sizes) + model.non_mapped
    /\ current_ordinal' = 0 /\ current_layer' = 0
    /\ device_layers' = <<>> /\ mapping_includes_cpu' = FALSE
    /\ UNCHANGED <<inputs, paged, phase, fillVars, mapperVars>>

\* "Recalculate without PagedAttention metadata", from the layer sizes that the
\* loop has left, which are reversed once more.
MapAgain ==
    /\ Mapped /\ paged /\ mapping_includes_cpu
    /\ paged' = FALSE
    /\ next' = 1
    /\ layer_sizes' = Reverse(layer_sizes)
    /\ remaining_to_map' = SumOf(model.sizes) + model.non_mapped
    /\ current_ordinal' = 0 /\ current_layer' = 0
    /\ device_layers' = <<>> /\ mapping_includes_cpu' = FALSE
    /\ UNCHANGED <<inputs, phase, fillVars, mapperVars>>

-----------------------------------------------------------------------------
(* into_mapper: the devices of the plan, each for its layers.              *)

Cpu == Len(devices)
Repeat(d, n) == [k \in 1..n |-> d]

\* The layers in the first n entries of the plan.
Planned(n) == SumOf([k \in 1..n |-> device_layers[k].layers])

n_device_layers == Min({Planned(Len(device_layers)), num_layers})
n_host_layers   == num_layers - n_device_layers

StartMapper ==
    /\ Mapped /\ ~(paged /\ mapping_includes_cpu)
    /\ phase' = "extend"
    /\ UNCHANGED <<inputs, paged, planVars, fillVars, mapperVars>>

\* A plan of one entry is for the base device, whatever its ordinal says.
Extend ==
    /\ phase = "extend" /\ entry < Len(device_layers)
    /\ LET e == device_layers[entry + 1]
       IN  mappings' = mappings \o (IF Len(device_layers) = 1 THEN Repeat(1, n_device_layers)
                                    ELSE Repeat(e.ordinal + 1, e.layers))
    /\ entry' = entry + 1
    /\ UNCHANGED <<inputs, paged, phase, planVars, fillVars>>

\* The CPU gets what the plan leaves out: `assert_eq!(combined.len(), model_layers)`.
IntoMapper ==
    /\ phase = "extend" /\ entry = Len(device_layers)
    /\ mappings' = mappings \o Repeat(Cpu, n_host_layers)
    /\ phase' = IF Len(mappings') = num_layers THEN "mapped" ELSE "assert_panic"
    /\ UNCHANGED <<inputs, paged, planVars, fillVars, entry>>

Next == \/ PlaceRest \/ StartFill \/ PopLayer \/ FillDevice \/ SkipDevice \/ Refuse
        \/ MapAgain \/ StartMapper \/ Extend \/ IntoMapper

Spec == Init /\ [][Next]_vars /\ WF_vars(Next)

-----------------------------------------------------------------------------

(* Whatever way the plan comes about - devices filled, skipped, the rest   *)
(* placed, the plan made again without PagedAttention, from layers that    *)
(* are no longer all there - it never has more layers than the model: the  *)
(* assertion of into_mapper holds, and the layers are in the order of the  *)
(* devices, with those of the CPU at the end.                              *)
MapperCoversModel ==
    /\ phase # "assert_panic"
    /\ phase = "mapped" =>
          /\ DOMAIN mappings = DOMAIN model.sizes
          /\ \A i, j \in DOMAIN mappings : i < j => mappings[i] <= mappings[j]

\* The layers that were placed on the device i; on the CPU, those that are not
\* in the plan.
Placed(i) ==
    IF devices[i].cpu THEN current_layer - Planned(Len(device_layers))
    ELSE IF \E k \in DOMAIN device_layers : device_layers[k].ordinal = i - 1
    THEN device_layers[CHOOSE k \in DOMAIN device_layers : device_layers[k].ordinal = i - 1].layers
    ELSE 0

\* What a device must hold besides its layers: where the CPU is all there is,
\* both times that it is listed.
Held(i) == IF i = 1 \/ devices[1].cpu THEN ReservedFirst ELSE model.act

(* A model whose layers are of one size is not refused, with layers left   *)
(* over, while a device has room for one more of them: the room that one   *)
(* device lacks for what is not mapped is not charged to the next one, and *)
(* the ordinals of the plan are those of the devices it was made for.      *)
RefusalIsJustified ==
    phase = "refused" /\ Uniform /\ layer_sizes # <<>> =>
        \A i \in DOMAIN devices : Held(i) + (Placed(i) + 1) * Delta > Usable(i)

(* Mapping comes to an end, with a mapper or with a refusal.               *)
MappingEnds == <>(phase \notin {"map", "fill", "extend"})
=============================================================================
