--------------------------- MODULE Classification ---------------------------
(* The ordered data classifications and the ceilings of the channel          *)
(* capacities (packages/kernel/src/classification-service.ts).  A level is   *)
(* represented by its rank, so comparing levels is comparing integers.       *)
EXTENDS Integers

public       == 0
internal     == 1
confidential == 2
restricted   == 3

DataClassification == public..restricted

ChannelCapacity == {"public", "internal", "private", "local-only"}

maxClassification(left, right) == IF right > left THEN right ELSE left

capacityCeiling(capacity) ==
  CASE capacity = "public"     -> public
    [] capacity = "internal"   -> internal
    [] capacity = "private"    -> confidential
    [] capacity = "local-only" -> restricted

exceedsCapacity(level, capacity) == level > capacityCeiling(capacity)
=============================================================================
