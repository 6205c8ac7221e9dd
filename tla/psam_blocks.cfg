SPECIFICATION Spec
CONSTANT Blocks = {0, 1, 2, 9}
INVARIANTS
    AllDecrypted
