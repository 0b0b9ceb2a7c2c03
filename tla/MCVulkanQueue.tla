--------------------------- MODULE MCVulkanQueue ---------------------------
(* Symmetry for the model-checking runs of VulkanQueue: buffers of one kind *)
(* and descriptor sets are interchangeable.                                 *)
EXTENDS VulkanQueue, TLC

Symmetry ==
  Permutations(DeviceLocal) \cup Permutations(Buffers \ DeviceLocal) \cup Permutations(Sets)

=============================================================================
