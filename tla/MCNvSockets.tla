----------------------------- MODULE MCNvSockets -----------------------------
(* Two settings for NvSockets.  In "table" two connections, made in either      *)
(* direction, and the listener need more slots than there are, and a peer       *)
(* writes a delimiter and a byte or two.  In "buffer" the program has one stream, and its peer    *)
(* writes enough to fill the slot's buffer and to overfill it, while the        *)
(* requests are below, at and above what fits.                                 *)
EXTENDS NvSockets

CONSTANTS
  FewSent, FewWanted   \* bound: bytes written and asked for in "table"

VARIABLE setting
settingVars == <<setting, vars>>

SettingInit == Init /\ setting \in {"table", "buffer"}

InTable ==
  /\ setting = "table"
  /\ Next
  /\ \A c \in Conn : /\ Len(net'[c].sent) <= FewSent
                      /\ \A i \in DOMAIN net'[c].sent : net'[c].sent[i] <=> i <= DelimLen
  /\ call'.want <= FewWanted

OneStream ==
  \E c \in Talker :
    \/ Connect(c) /\ \A d \in Conn : net[d].state = "none"
    \/ \E mark \in BOOLEAN : PeerWrites(c, mark)
    \/ \E how \in {"fin", "reset"} : PeerEnds(c, how)

InBuffer ==
  /\ setting = "buffer"
  /\ \/ OneStream \/ Runtime
     \/ \E h \in Handle :
          \/ \E impatient \in BOOLEAN : SetOption(h, impatient)
          \/ \E op \in {"recv", "until", "exact"} : \E size \in Sizes(op) : Begin(op, h, size)

SettingNext == (InTable \/ InBuffer) /\ UNCHANGED setting

SettingSpec == SettingInit /\ [][SettingNext]_settingVars /\ WF_settingVars(Runtime /\ UNCHANGED setting)

=============================================================================
