SPECIFICATION Spec
CONSTANTS
    Stacks = {1}
    Tags = {1}
    alice = alice
    bob = bob
    Users = {alice, bob}
    c1 = c1
    c2 = c2
    Creds = {c1}
    k1 = k1
    k2 = k2
    Skels = {k1, k2}
    NoCred = NoCred
    None = None
    Definitions <- MCDefinitions
    Initial <- MCInitial
    MaxUpsets = 1
INVARIANTS
    NoFileNothingRuns
