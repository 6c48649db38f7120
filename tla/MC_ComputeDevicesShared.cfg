\* Two threads dispatch on one Vulkan pipeline.
SPECIFICATION Spec
CONSTANTS
  c1 = c1
  c2 = c2
  Apis <- VulkanOnly
  CallersOf <- SharedVulkan
  Buffers = {b1, b2}
  Pipelines = {p}
  Data = {d}
  Uninit = Uninit
  MaxCalls = 4
  MayFail = {}
  None = None
INVARIANT BindingKept
CHECK_DEADLOCK FALSE
