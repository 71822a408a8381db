SPECIFICATION Spec
CONSTANTS
  MaxBoots = 3
  MaxFailures = 1
INVARIANTS OncePerBoot ReasonIsRight RebootIsReported
