----------------------------- MODULE NameTables -----------------------------
(***************************************************************************)
(* The names src/lib/print.c gives to numbers of the kernel:               *)
(* printiproto(), which writes the name of an Internet protocol to         *)
(* Lf->iproto, and printunkaf(), which writes the name of an address       *)
(* family to Namech; with them endnm() and print_kptr().                   *)
(*                                                                         *)
(* Both functions are one switch whose cases the preprocessor selects: a   *)
(* case is compiled when the headers of the platform define its macro.     *)
(* The platform is `build': the macros defined, each with its value.  A    *)
(* number no compiled case has is written as a number, with a mark.        *)
(*                                                                         *)
(* The cases are listed in the order of the source.  A protocol is listed  *)
(* by its macro without "IPPROTO_", a family by the text "%sAF_%s" makes   *)
(* of its case.                                                            *)
(***************************************************************************)
EXTENDS Integers, Sequences, SequencesExt, Functions, TLC, CStrings

CONSTANTS
    Platforms,      \* the builds considered: [macro -> value]
    IPROTOL,        \* the size of Lf->iproto
    Namechl,        \* the size of Namech
    Protocols,      \* the numbers printiproto() is called with
    Families,       \* the numbers printunkaf() is called with
    Addresses,      \* the kernel addresses print_kptr() is called with
    BufSizes,       \* the sizes of the buffers its callers pass
    NULL

ASSUME IPROTOL \in Nat /\ IPROTOL > 2
ASSUME Protocols \subseteq Nat /\ Families \subseteq Nat
ASSUME Addresses \subseteq Nat
ASSUME BufSizes \subseteq Nat \ {0}

VARIABLES
    build,          \* the platform of this build
    m,              \* the static of printiproto(): -1 until it is computed
    iproto,         \* Lf->iproto
    Namech,         \* the name buffer
    dbuf,           \* the static buffer of print_kptr()
    kptr,           \* what print_kptr() returned: [to, text]
    asked           \* the arguments of the last calls: [p, fam, ty]

nameVars == <<build, m, iproto, Namech, dbuf, kptr, asked>>

-----------------------------------------------------------------------------
(* The cases of printiproto() *)

IprotoCases1 ==
    <<"TCP", "UDP", "IP", "ICMP", "ICMPV6", "IGMP", "GGP", "EGP", "PUP",
      "IDP", "ND", "RAW", "HELLO", "PXP", "RAWIP", "RAWIF", "HOPOPTS",
      "IPIP", "ST", "PIGP", "RCCMON", "NVPII", "ARGUS", "EMCON", "XNET">>

IprotoCases2 ==
    <<"CHAOS", "MUX", "MEAS", "HMP", "PRM", "TRUNK1", "TRUNK2", "LEAF1",
      "LEAF2", "RDP", "IRTP", "TP", "BLT", "NSP", "INP", "SEP", "3PC",
      "IDPR", "XTP", "DDP", "CMTP", "TPXX", "IL", "IPV6", "SDRP">>

IprotoCases3 ==
    <<"ROUTING", "FRAGMENT", "IDRP", "RSVP", "GRE", "MHRP", "BHA", "ESP",
      "AH", "INLSP", "SWIPE", "NHRP", "NONE", "DSTOPTS", "AHIP", "CFTP",
      "SATEXPAK", "KRYPTOLAN", "RVD", "IPPC", "ADFS", "SATMON", "VISA",
      "IPCV", "CPNX">>

IprotoCases4 ==
    <<"CPHB", "WSN", "PVP", "BRSATMON", "WBMON", "WBEXPAK", "EON", "VMTP",
      "SVMTP", "VINES", "TTP", "IGP", "DGP", "TCF", "IGRP", "OSPFIGP",
      "SRPC", "LARP", "MTP", "AX25", "IPEIP", "MICP", "SCCSP", "ETHERIP",
      "ENCAP">>

IprotoCases5 == <<"APES", "GMTP", "DIVERT">>

IprotoCases ==
    IprotoCases1 \o IprotoCases2 \o IprotoCases3 \o IprotoCases4 \o
    IprotoCases5

\* Mutant: the name of the case is its macro.
FragmentWhole == "FRAGMENT" :> "FRAGMENT"

\* s of the four cases whose macro is too long for Lf->iproto.
FragmentName == "FRAGMENT" :> "FRAGMNT"

SatexpakName == "SATEXPAK" :> "SATEXPK"

KryptolanName == "KRYPTOLAN" :> "KRYPTOL"

BrsatmonName == "BRSATMON" :> "BRSATMN"

\* s of a case.
IprotoName(c) ==
    LET shortened == FragmentName @@ SatexpakName @@ KryptolanName
                        @@ BrsatmonName
    IN  IF c \in DOMAIN shortened THEN shortened[c] ELSE c

IprotoMacro(c) == "IPPROTO_" \o c

\* Mutant: the case of IPPROTO_IP is compiled whatever IPPROTO_HOPOPTS is.
IpUnlessNone == <<>>

\* The cases that are left out when another macro has their value.
IpUnless == "IPPROTO_IP" :> "IPPROTO_HOPOPTS"

EncapUnless == "IPPROTO_ENCAP" :> "IPPROTO_IPIP"

-----------------------------------------------------------------------------
(* The cases of printunkaf() *)

AfCases1 ==
    <<"AF_UNSPEC", "AF_UNIX", "AF_INET", "AF_INET6", "AF_IMPLINK", "AF_PUP",
      "AF_CHAOS", "AF_NS", "AF_ISO", "AF_NBS", "AF_ECMA", "AF_DATAKIT",
      "AF_CCITT", "AF_SNA", "AF_DECnet", "AF_DLI", "AF_LAT", "AF_HYLINK",
      "AF_APPLETALK", "AF_BSC", "AF_DSS", "AF_ROUTE", "AF_RAW", "AF_LINK",
      "pseudo_AF_XTP">>

AfCases2 ==
    <<"AF_RMP", "AF_COIP", "AF_CNT", "pseudo_AF_RTIP", "AF_NETMAN",
      "AF_INTF", "AF_NETWARE", "AF_NDD", "AF_NIT", "AF_802", "AF_X25",
      "AF_CTF", "AF_WAN", "AF_OSINET", "AF_GOSIP", "AF_SDL", "AF_IPX",
      "AF_SIP", "pseudo_AF_PIP", "AF_OTS", "pseudo_AF_BLUE", "AF_NDRV",
      "AF_SYSTEM">>

AfCases3 ==
    <<"AF_USER", "pseudo_AF_KEY", "AF_KEY", "AF_NCA", "AF_POLICY", "AF_PPP">>

AfCases == AfCases1 \o AfCases2 \o AfCases3

\* The macro of a case, where it is not the text of the case.
AfMacro(c) == IF c = "pseudo_AF_PIP" THEN "psuedo_AF_PIP" ELSE c

\* The cases that are left out when another macro has their value.
NbsUnless == "AF_NBS" :> "AF_ISO"

NitUnless == "AF_NIT" :> "AF_ROUTE"

Ieee802Unless == "AF_802" :> "AF_RAW"

\* The case that needs another macro, with another value.
AfNeeds == "AF_OSINET" :> "AF_INET"

-----------------------------------------------------------------------------
(* The switch the preprocessor leaves *)

\* #if defined(macro), and the test of the macro's value inside it.
IsCompiled(defs, macro, unless, needs) ==
    /\ macro \in DOMAIN defs
    /\ macro \in DOMAIN unless =>
          \/ unless[macro] \notin DOMAIN defs
          \/ defs[unless[macro]] # defs[macro]
    /\ macro \in DOMAIN needs =>
          /\ needs[macro] \in DOMAIN defs
          /\ defs[needs[macro]] # defs[macro]

\* The protocol cases of a build, in the order of the source.
IprotoCompiled(defs) ==
    SelectSeq(IprotoCases,
              LAMBDA c : IsCompiled(defs, IprotoMacro(c),
                                   IpUnless @@ EncapUnless, <<>>))

\* The family cases of a build.
AfCompiled(defs) ==
    SelectSeq(AfCases,
              LAMBDA c : IsCompiled(defs, AfMacro(c),
                                   NbsUnless @@ NitUnless @@ Ieee802Unless,
                                   AfNeeds))

\* switch (p): s of the case whose label is p, NULL at "default:".
IprotoOf(defs, p) ==
    LET hit == SelectInSeq(IprotoCompiled(defs),
                           LAMBDA c : defs[IprotoMacro(c)] = p)
    IN  IF hit = 0 THEN NULL ELSE IprotoName(IprotoCompiled(defs)[hit])

\* switch (fam): "%sAF_%s" of the case whose label is fam.
AfOf(defs, fam) ==
    LET hit == SelectInSeq(AfCompiled(defs),
                           LAMBDA c : defs[AfMacro(c)] = fam)
    IN  IF hit = 0 THEN NULL ELSE AfCompiled(defs)[hit]

\* The switches of the builds considered, worked out once for the numbers
\* the functions are called with.
Compiled ==
    [b \in Platforms |-> [iproto |-> IprotoCompiled(b), af |-> AfCompiled(b)]]

\* The labels of the cases of each switch: the values of their macros.
Labels ==
    [b \in Platforms |->
        [iproto |-> [i \in DOMAIN Compiled[b].iproto |->
                        b[IprotoMacro(Compiled[b].iproto[i])]],
         af     |-> [i \in DOMAIN Compiled[b].af |->
                        b[AfMacro(Compiled[b].af[i])]]]]

IprotoSwitch == [b \in Platforms |-> [p \in Protocols |-> IprotoOf(b, p)]]

AfSwitch == [b \in Platforms |-> [fam \in Families |-> AfOf(b, fam)]]

-----------------------------------------------------------------------------
(* printiproto() *)

\* Mutant: the names are cut two characters early.
NameWidthShort == IPROTOL - 3

\* The precision of "%.*s".
NameWidth == IPROTOL - 1

\* Mutant: the loop that computes m makes one round more.
LimitLong == 10 ^ (IPROTOL - 1)

\* for (i = 0, m = 1; i < IPROTOL - 2; i++) m *= 10
Limit == 10 ^ (IPROTOL - 2)

\* Mutant: the number is cut one digit early.
IsWholeEarly(limit, p) == (limit \div 10) > p

\* m > p: the number has room in Lf->iproto with its mark.
IsWhole(limit, p) == limit > p

\* "%d?" of a number that has room, "*%d?" of the low digits of one that
\* has not.
Marked(limit, p) ==
    IF IsWhole(limit, p) THEN Decimal(p) \o "?"
    ELSE "*" \o Decimal(p % (limit \div 10)) \o "?"

NameInit ==
    /\ build \in Platforms
    /\ m = -1
    /\ iproto = ""
    /\ Namech = ""
    /\ dbuf = ""
    /\ kptr = [to |-> NULL, text |-> ""]
    /\ asked = [p |-> NULL, fam |-> NULL, ty |-> NULL]

\* A case of the switch has the protocol.
IprotoKnown(p) ==
    /\ IprotoSwitch[build][p] # NULL
    /\ iproto' = Buffered(IPROTOL,
                         Precision(NameWidth, IprotoSwitch[build][p]))
    /\ asked' = [asked EXCEPT !.p = p]
    /\ UNCHANGED <<build, m, Namech, dbuf, kptr>>

\* No case has it: m is computed by the first call that comes here.
IprotoUnknown(p) ==
    /\ IprotoSwitch[build][p] = NULL
    /\ m' = IF m < 0 THEN Limit ELSE m
    /\ iproto' = Buffered(IPROTOL, Marked(m', p))
    /\ asked' = [asked EXCEPT !.p = p]
    /\ UNCHANGED <<build, Namech, dbuf, kptr>>

printiproto(p) == IprotoKnown(p) \/ IprotoUnknown(p)

-----------------------------------------------------------------------------
(* printunkaf(), endnm() and print_kptr() *)

\* What is written before the family: nothing when ty is 0.
Lead(ty, known) ==
    CASE ty = 0 -> ""
      [] known  -> "no further information on "
      [] OTHER  -> "no further information on family "

AfKnown(fam, ty) ==
    /\ AfSwitch[build][fam] # NULL
    /\ Namech' = Buffered(Namechl, Lead(ty, TRUE) \o AfSwitch[build][fam])
    /\ asked' = [asked EXCEPT !.fam = fam, !.ty = ty]
    /\ UNCHANGED <<build, m, iproto, dbuf, kptr>>

\* default: the family is written with "%#x".
AfUnknown(fam, ty) ==
    /\ AfSwitch[build][fam] = NULL
    /\ Namech' = Buffered(Namechl, Lead(ty, FALSE) \o HexAlt(fam))
    /\ asked' = [asked EXCEPT !.fam = fam, !.ty = ty]
    /\ UNCHANGED <<build, m, iproto, dbuf, kptr>>

printunkaf(fam, ty) == AfKnown(fam, ty) \/ AfUnknown(fam, ty)

\* endnm(): the index of the NUL of Namech and the room from there on.
endnm == [s |-> Len(Namech), sz |-> Namechl - Len(Namech)]

\* KA_T_FMT_X: the format of a kernel address, "%#x" with the length
\* modifier of the dialect.
KptrText(size, kp) == Buffered(size, HexAlt(kp))

\* print_kptr() with a buffer of the caller: the address is written to it
\* and dbuf is left as it is.
KptrToBuffer(kp, bufl) ==
    /\ kptr' = [to |-> "buf", text |-> KptrText(bufl, kp)]
    /\ UNCHANGED <<build, m, iproto, Namech, dbuf, asked>>

\* print_kptr() without one: the address is written to dbuf, which every
\* such call returns.
KptrToStatic(kp) ==
    /\ dbuf' = KptrText(32, kp)
    /\ kptr' = [to |-> "dbuf", text |-> dbuf']
    /\ UNCHANGED <<build, m, iproto, Namech, asked>>

print_kptr(kp) ==
    \/ \E bufl \in BufSizes : KptrToBuffer(kp, bufl)
    \/ KptrToStatic(kp)

-----------------------------------------------------------------------------

NameNext ==
    \/ \E p \in Protocols : printiproto(p)
    \/ \E fam \in Families, ty \in {0, 1} : printunkaf(fam, ty)
    \/ \E kp \in Addresses : print_kptr(kp)

NameSpec == NameInit /\ [][NameNext]_nameVars

-----------------------------------------------------------------------------
(* Properties *)

NameTypeOK ==
    /\ build \in Platforms
    /\ m \in {-1, 10 ^ (IPROTOL - 2)}
    /\ iproto \in STRING /\ Len(iproto) < IPROTOL
    /\ Namech \in STRING /\ endnm.sz >= 1
    /\ dbuf \in STRING /\ Len(dbuf) < 32
    /\ kptr.to \in {NULL, "buf", "dbuf"} /\ kptr.text \in STRING
    /\ kptr.to = "dbuf" => kptr.text = dbuf
    /\ asked.p \in Protocols \cup {NULL}
    /\ asked.fam \in Families \cup {NULL}
    /\ asked.ty \in {0, 1, NULL}

\* The switch of each function has no label twice on this build: where the
\* headers give two macros of a table one value, the preprocessor leaves
\* one of the two cases out.  It is about the "#if !defined(...) || ... !=
\* ..." around the cases of IPPROTO_IP, IPPROTO_ENCAP, AF_NBS, AF_NIT,
\* AF_802 and AF_OSINET; on the builds considered it is IPPROTO_IP and
\* IPPROTO_HOPOPTS that have one value.
LabelsAreDistinct ==
    /\ IsInjective(Labels[build].iproto)
    /\ IsInjective(Labels[build].af)

\* What printiproto() writes for a protocol it knows is the s of its case,
\* whole: the macro without its "IPPROTO_", or for four of the cases the
\* name the table writes shorter for that case.  Neither the "%.*s" of
\* IPROTOL - 1 characters nor the size of Lf->iproto cuts a name of the
\* table.
KnownNameIsWhole ==
    \A i \in DOMAIN Labels[build].iproto :
        Labels[build].iproto[i] = asked.p =>
            iproto = IprotoName(Compiled[build].iproto[i])

\* A protocol no case has keeps its number: Lf->iproto is the number and
\* the mark "?", whole, when the number is below m; above, it begins with
\* "*" and ends with "?".  It is about the limit m = 10^(IPROTOL - 2), the
\* test "m > p" and the size of Lf->iproto.
UnknownKeepsNumber ==
    (asked.p # NULL /\ IprotoSwitch[build][asked.p] = NULL) =>
        IF asked.p < 10 ^ (IPROTOL - 2) THEN iproto = Decimal(asked.p) \o "?"
        ELSE /\ SubSeq(iproto, 1, 1) = "*"
             /\ SubSeq(iproto, Len(iproto), Len(iproto)) = "?"

\* Two protocols are told apart: calls of printiproto() with two numbers
\* below m leave two texts in Lf->iproto, whether a case has the numbers or
\* not; and calls of printunkaf() with two families and one output type
\* leave two texts in Namech.
AskedApart ==
    /\ (/\ asked.p # NULL /\ asked'.p # NULL /\ asked.p # asked'.p
        /\ asked.p < 10 ^ (IPROTOL - 2) /\ asked'.p < 10 ^ (IPROTOL - 2))
       => iproto' # iproto
    /\ (/\ asked.fam # NULL /\ asked'.fam # NULL /\ asked.fam # asked'.fam
        /\ asked.ty = asked'.ty)
       => Namech' # Namech

NumbersAreToldApart == [][AskedApart]_nameVars

=============================================================================
