SPECIFICATION FairSpscSpec
CONSTANTS
  Cap = 4
  Items = {a, b}
  Zero = zero
INVARIANT NoSlotRace
PROPERTIES FifoSpec Drains
