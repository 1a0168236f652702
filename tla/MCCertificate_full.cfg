CONSTANTS
    MaxPairs = 3
    CertificateFaults = {"full"}
SPECIFICATION CertificateSpec
INVARIANTS Starts
CHECK_DEADLOCK FALSE
