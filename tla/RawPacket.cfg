\* Payloads of up to five octets.  Five octets of 195 are the shortest payload of
\* which the sum carries twice.
CONSTANTS
    Values = {1, 65, 195, 255}
    MaxPayload = 5
SPECIFICATION Spec
INVARIANTS ChecksumVerifies UdpChecksumVerifies
\* the payload is complete
CHECK_DEADLOCK FALSE
