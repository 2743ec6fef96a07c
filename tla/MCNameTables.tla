---------------------------- MODULE MCNameTables ----------------------------
(***************************************************************************)
(* Two builds for the name tables, with the values their headers give to   *)
(* the macros of the tables:                                               *)
(*   Linux, where IPPROTO_IP and IPPROTO_HOPOPTS are both 0;               *)
(*   a BSD that has the protocols of the assigned numbers 0 to 100 and     *)
(*   the address families of 4.4BSD, pseudo_AF_PIP among them.             *)
(* The numbers asked for are those around which the two builds differ,     *)
(* the protocols whose names the table shortens, numbers no build names    *)
(* and the numbers around m.                                               *)
(***************************************************************************)
EXTENDS NameTables

Valued(prefix, names, values) ==
    [mac \in {prefix \o names[i] : i \in DOMAIN names} |->
        values[CHOOSE i \in DOMAIN names : prefix \o names[i] = mac]]

Linux ==
    Valued("IPPROTO_",
           <<"IP", "HOPOPTS", "ICMP", "IGMP", "IPIP", "TCP", "EGP", "PUP",
             "UDP", "IDP", "TP", "IPV6", "ROUTING", "FRAGMENT", "RSVP", "GRE",
             "ESP", "AH", "ICMPV6", "NONE", "DSTOPTS", "MTP", "ENCAP", "RAW">>,
           <<0, 0, 1, 2, 4, 6, 8, 12, 17, 22, 29, 41, 43, 44, 46, 47, 50, 51,
             58, 59, 60, 92, 98, 255>>) @@
    Valued("AF_",
           <<"UNSPEC", "UNIX", "INET", "IPX", "APPLETALK", "X25", "INET6",
             "DECnet", "KEY", "ROUTE", "SNA">>,
           <<0, 1, 2, 4, 5, 9, 10, 12, 15, 16, 22>>)

\* The protocols 0 to 100 in the order of their numbers; HOPOPTS is 0 too.
BsdProtocols ==
    <<"IP", "ICMP", "IGMP", "GGP", "IPIP", "ST", "TCP", "ST", "EGP", "PIGP",
      "RCCMON", "NVPII", "PUP", "ARGUS", "EMCON", "XNET", "CHAOS", "UDP",
      "MUX", "MEAS", "HMP", "PRM", "IDP", "TRUNK1", "TRUNK2", "LEAF1",
      "LEAF2", "RDP", "IRTP", "TP", "BLT", "NSP", "INP", "SEP", "3PC", "IDPR",
      "XTP", "DDP", "CMTP", "TPXX", "IL", "IPV6", "SDRP", "ROUTING",
      "FRAGMENT", "IDRP", "RSVP", "GRE", "MHRP", "BHA", "ESP", "AH", "INLSP",
      "SWIPE", "NHRP">>

Bsd ==
    [mac \in {"IPPROTO_" \o BsdProtocols[i] : i \in DOMAIN BsdProtocols
                                              \ {6, 8}} |->
        (CHOOSE i \in DOMAIN BsdProtocols \ {6, 8} :
            "IPPROTO_" \o BsdProtocols[i] = mac) - 1] @@
    Valued("IPPROTO_",
           <<"ST", "HOPOPTS", "ICMPV6", "NONE", "DSTOPTS", "AHIP", "CFTP",
             "HELLO", "SATEXPAK", "KRYPTOLAN", "RVD", "IPPC", "ADFS",
             "SATMON", "VISA", "IPCV", "CPNX", "CPHB", "WSN", "PVP",
             "BRSATMON", "ND", "WBMON", "WBEXPAK", "EON", "VMTP", "SVMTP",
             "VINES", "TTP", "IGP", "DGP", "TCF", "IGRP", "OSPFIGP", "SRPC",
             "LARP", "MTP", "AX25", "IPEIP", "MICP", "SCCSP", "ETHERIP",
             "ENCAP", "APES", "GMTP", "RAW", "DIVERT">>,
           <<7, 0, 58, 59, 60, 61, 62, 63, 64, 65, 66, 67, 68, 69, 70, 71, 72,
             73, 74, 75, 76, 77, 78, 79, 80, 81, 82, 83, 84, 85, 86, 87, 88,
             89, 90, 91, 92, 93, 94, 95, 96, 97, 98, 99, 100, 255, 258>>) @@
    Valued("AF_",
           <<"UNSPEC", "UNIX", "INET", "IMPLINK", "PUP", "CHAOS", "NS", "ISO",
             "ECMA", "DATAKIT", "CCITT", "SNA", "DECnet", "DLI", "LAT",
             "HYLINK", "APPLETALK", "ROUTE", "LINK", "COIP", "CNT", "IPX",
             "SIP", "INET6">>,
           <<0, 1, 2, 3, 4, 5, 6, 7, 8, 9, 10, 11, 12, 13, 14, 15, 16, 17, 18,
             20, 21, 23, 24, 28>>) @@
    Valued("pseudo_AF_", <<"XTP", "RTIP", "PIP", "KEY">>, <<19, 22, 25, 27>>)

MCPlatforms == {Linux, Bsd}

MCProtocols ==
    {0, 1, 4, 6, 17, 23, 24, 44, 64, 65, 76, 98, 101, 143, 255, 258,
     99999, 100000, 200000, 999999, 1000000, 1100000}

MCFamilies == {0, 1, 2, 6, 10, 16, 17, 19, 22, 25, 27, 28, 31, 255}

MCAddresses == {0, 4096}

ASSUME Bsd["IPPROTO_TCP"] = 6 /\ Bsd["IPPROTO_NHRP"] = 54

=============================================================================
