CONSTANTS
  Size = 12
  Builds = {"plain", "SSE", "NEON"}
SPECIFICATION Spec
INVARIANTS RightWhereSupported LoadsAreAligned
