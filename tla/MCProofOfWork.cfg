CONSTANTS
    DIGEST_LENGTH = 2
    NONCES = 2
    Digests <- MCDigests
    Difficulties <- MCDifficulties
SPECIFICATION Spec
INVARIANTS FoundIsLeast ReadsInDigest
PROPERTIES Finds
