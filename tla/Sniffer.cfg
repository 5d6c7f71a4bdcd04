\* A short list of devices, the longest that fits, and the shortest that does not.
\* All lengths of an IPv4 header.  The octets of an IPv6 address make it look like
\* ICMP, IGMP, TCP, UDP and none of them, with TCP headers of 0 and 60 octets, and
\* with the longest IP header behind which that TCP header is inside every frame,
\* the shortest behind which it is not, and the longest there is.  A query for the
\* root has 17 octets and the frame is padded; the other messages end with a line of
\* the dump and just behind one.  Frames of more than 90 octets are cut.
CONSTANTS
    DeviceLists <- MCDeviceLists
    NameLengths = {0, 3, 18, 19}
    HeaderLengths = {5, 6, 7, 8, 9, 10, 11, 12, 13, 14, 15}
    TrafficClasses = {0, 4, 5, 8, 15}
    SourceOctets = {1, 2, 6, 17, 255}
    OffsetOctets = {1, 255}
    MessageSizes = {17, 32, 33}
    BUF_SIZE = 90
    MaxPackets = 3
SPECIFICATION Spec
INVARIANTS TypeOK ListHoldsDevices ChosenDeviceIsOpened PayloadIsMessage DumpsStayInFrame EachOctetOnALine
\* the bound on the packets is reached, or the process has ended
CHECK_DEADLOCK FALSE
