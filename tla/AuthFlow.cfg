SPECIFICATION Spec
CONSTANTS
  Clients = {alice, bob}
  Accounts = {alice}
  Tickets = {t1}
  Tokens = {k1}
  Names = {n1}
  LoginSlots = {l1}
  WorldSlots = {v1}
  Nobody = Nobody
SYMMETRY Symmetry
INVARIANTS TypeOK KeyPassesOnce OneProofPerKey WorldUserProved HeldIsStored
