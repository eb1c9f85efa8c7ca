----------------------------- MODULE OpenFlow10 -----------------------------
(***************************************************************************)
(* The messages of openflow-1.0.h, and those of openflow-1.1-extensions.h  *)
(* the adapter knows: the sizes of their fields, from which it takes how   *)
(* long a message is, where its variable part begins and how many ports    *)
(* it lists.  A structure is the sequence of its fields and their sizes;   *)
(* one inside another is a field that is as long.                          *)
(*                                                                         *)
(* A structure ends at a multiple of the widest number in it.  An array of *)
(* length zero is left out: it begins behind the last field, at Extent,    *)
(* which is not always SizeOf.                                             *)
(***************************************************************************)
EXTENDS Integers, Sequences

LOCAL Seqs == INSTANCE SequencesExt

OFP_ETH_ALEN == 6
OFP_MAX_PORT_NAME_LEN == 16
OFP_MAX_TABLE_NAME_LEN == 32
DESC_STR_LEN == 256
SERIAL_NUM_LEN == 32

\* Bytes up to the end of the last field.
Extent(s) ==
    LET Add(n, field) == n + field[2] IN Seqs!FoldLeft(Add, 0, s)

\* The widest number; pads, addresses and names are arrays of bytes.
Arrays == {"pad", "pad1", "pad2", "hw_addr", "dl_addr", "dl_src", "dl_dst", "name",
           "mfr_desc", "hw_desc", "sw_desc", "serial_num", "dp_desc"}
Nested == {"header", "match", "desc", "prop_header"}

Widths(s) ==
    {1} \cup {s[i][2] : i \in {j \in DOMAIN s : s[j][1] \notin Arrays \cup Nested}}
        \cup {4 : i \in {j \in DOMAIN s : s[j][1] \in Nested}}

Align(s) == CHOOSE w \in Widths(s) : \A x \in Widths(s) : x <= w

\* sizeof()
SizeOf(s) == ((Extent(s) + Align(s) - 1) \div Align(s)) * Align(s)

\* The offset of the i-th field.
OffsetOf(s, i) == Extent(SubSeq(s, 1, i - 1))

-----------------------------------------------------------------------------
ofp_header == <<<<"version", 1>>, <<"type", 1>>, <<"length", 2>>, <<"xid", 4>>>>

\* What begins with a header.
Message(fields) == <<<<"header", SizeOf(ofp_header)>>>> \o fields

ofp_hello == Message(<< >>)

ofp_switch_config == Message(<<<<"flags", 2>>, <<"miss_send_len", 2>>>>)

ofp_phy_port ==
    <<<<"port_no", 2>>, <<"hw_addr", OFP_ETH_ALEN>>, <<"name", OFP_MAX_PORT_NAME_LEN>>,
      <<"config", 4>>, <<"state", 4>>, <<"curr", 4>>, <<"advertised", 4>>,
      <<"supported", 4>>, <<"peer", 4>>>>

ofp11_port ==
    <<<<"port_no", 4>>, <<"pad", 4>>, <<"hw_addr", OFP_ETH_ALEN>>, <<"pad2", 2>>,
      <<"name", OFP_MAX_PORT_NAME_LEN>>, <<"config", 4>>, <<"state", 4>>, <<"curr", 4>>,
      <<"advertised", 4>>, <<"supported", 4>>, <<"peer", 4>>,
      <<"curr_speed", 4>>, <<"max_speed", 4>>>>

ofp_switch_features ==
    Message(<<<<"datapath_id", 8>>, <<"n_buffers", 4>>, <<"n_tables", 1>>, <<"pad", 3>>,
              <<"capabilities", 4>>, <<"actions", 4>>>>)

ofp_port_status ==
    Message(<<<<"reason", 1>>, <<"pad", 7>>, <<"desc", SizeOf(ofp_phy_port)>>>>)

ofp_port_mod ==
    Message(<<<<"port_no", 2>>, <<"hw_addr", OFP_ETH_ALEN>>, <<"config", 4>>,
              <<"mask", 4>>, <<"advertise", 4>>, <<"pad", 4>>>>)

\* data begins at 18, before sizeof().
ofp_packet_in ==
    Message(<<<<"buffer_id", 4>>, <<"total_len", 2>>, <<"in_port", 2>>,
              <<"reason", 1>>, <<"pad", 1>>>>)

ofp11_packet_in ==
    Message(<<<<"buffer_id", 4>>, <<"in_port", 4>>, <<"in_phy_port", 4>>,
              <<"total_len", 2>>, <<"reason", 1>>, <<"table_id", 1>>>>)

-----------------------------------------------------------------------------
\* What begins with type and len, both of 16 bits.
Action(fields) == <<<<"type", 2>>, <<"len", 2>>>> \o fields

ofp_action_header == Action(<<<<"pad", 4>>>>)
ofp_action_output == Action(<<<<"port", 2>>, <<"max_len", 2>>>>)
ofp_action_vlan_vid == Action(<<<<"vlan_vid", 2>>, <<"pad", 2>>>>)
ofp_action_vlan_pcp == Action(<<<<"vlan_pcp", 1>>, <<"pad", 3>>>>)
ofp_action_dl_addr == Action(<<<<"dl_addr", OFP_ETH_ALEN>>, <<"pad", 6>>>>)
ofp_action_nw_addr == Action(<<<<"nw_addr", 4>>>>)
ofp_action_tp_port == Action(<<<<"tp_port", 2>>, <<"pad", 2>>>>)
ofp_action_nw_tos == Action(<<<<"nw_tos", 1>>, <<"pad", 3>>>>)

ofp_packet_out ==
    Message(<<<<"buffer_id", 4>>, <<"in_port", 2>>, <<"actions_len", 2>>>>)

ofp_match ==
    <<<<"wildcards", 4>>, <<"in_port", 2>>, <<"dl_src", OFP_ETH_ALEN>>,
      <<"dl_dst", OFP_ETH_ALEN>>, <<"dl_vlan", 2>>, <<"dl_vlan_pcp", 1>>, <<"pad1", 1>>,
      <<"dl_type", 2>>, <<"nw_tos", 1>>, <<"nw_proto", 1>>, <<"pad2", 2>>,
      <<"nw_src", 4>>, <<"nw_dst", 4>>, <<"tp_src", 2>>, <<"tp_dst", 2>>>>

ofp_flow_mod ==
    Message(<<<<"match", SizeOf(ofp_match)>>, <<"cookie", 8>>, <<"command", 2>>,
              <<"idle_timeout", 2>>, <<"hard_timeout", 2>>, <<"priority", 2>>,
              <<"buffer_id", 4>>, <<"out_port", 2>>, <<"flags", 2>>>>)

ofp_flow_removed ==
    Message(<<<<"match", SizeOf(ofp_match)>>, <<"cookie", 8>>, <<"priority", 2>>,
              <<"reason", 1>>, <<"pad", 1>>, <<"duration_sec", 4>>,
              <<"duration_nsec", 4>>, <<"idle_timeout", 2>>, <<"pad2", 2>>,
              <<"packet_count", 8>>, <<"byte_count", 8>>>>)

-----------------------------------------------------------------------------
(***************************************************************************)
(* What the adapter neither asks for nor sends: vendors, errors but for    *)
(* their codes, statistics, queues.                                        *)
(***************************************************************************)
ofp_error_msg == Message(<<<<"type", 2>>, <<"code", 2>>>>)
ofp_vendor_header == Message(<<<<"vendor", 4>>>>)
ofp_action_vendor_header == Action(<<<<"vendor", 4>>>>)
ofp_action_enqueue == Action(<<<<"port", 2>>, <<"pad", 6>>, <<"queue_id", 4>>>>)

ofp_stats_request == Message(<<<<"type", 2>>, <<"flags", 2>>>>)
ofp_stats_reply == Message(<<<<"type", 2>>, <<"flags", 2>>>>)

ofp_desc_stats ==
    <<<<"mfr_desc", DESC_STR_LEN>>, <<"hw_desc", DESC_STR_LEN>>,
      <<"sw_desc", DESC_STR_LEN>>, <<"serial_num", SERIAL_NUM_LEN>>,
      <<"dp_desc", DESC_STR_LEN>>>>

\* The flows a request is about.
Selects ==
    <<<<"match", SizeOf(ofp_match)>>, <<"table_id", 1>>, <<"pad", 1>>, <<"out_port", 2>>>>

ofp_flow_stats_request == Selects
ofp_aggregate_stats_request == Selects

ofp_flow_stats ==
    <<<<"length", 2>>, <<"table_id", 1>>, <<"pad", 1>>, <<"match", SizeOf(ofp_match)>>,
      <<"duration_sec", 4>>, <<"duration_nsec", 4>>, <<"priority", 2>>,
      <<"idle_timeout", 2>>, <<"hard_timeout", 2>>, <<"pad2", 6>>, <<"cookie", 8>>,
      <<"packet_count", 8>>, <<"byte_count", 8>>>>

ofp_aggregate_stats_reply ==
    <<<<"packet_count", 8>>, <<"byte_count", 8>>, <<"flow_count", 4>>, <<"pad", 4>>>>

ofp_table_stats ==
    <<<<"table_id", 1>>, <<"pad", 3>>, <<"name", OFP_MAX_TABLE_NAME_LEN>>,
      <<"wildcards", 4>>, <<"max_entries", 4>>, <<"active_count", 4>>,
      <<"lookup_count", 8>>, <<"matched_count", 8>>>>

ofp_port_stats_request == <<<<"port_no", 2>>, <<"pad", 6>>>>

ofp_port_stats ==
    <<<<"port_no", 2>>, <<"pad", 6>>, <<"rx_packets", 8>>, <<"tx_packets", 8>>,
      <<"rx_bytes", 8>>, <<"tx_bytes", 8>>, <<"rx_dropped", 8>>, <<"tx_dropped", 8>>,
      <<"rx_errors", 8>>, <<"tx_errors", 8>>, <<"rx_frame_err", 8>>,
      <<"rx_over_err", 8>>, <<"rx_crc_err", 8>>, <<"collisions", 8>>>>

ofp_queue_prop_header == <<<<"property", 2>>, <<"len", 2>>, <<"pad", 4>>>>

ofp_queue_prop_min_rate ==
    <<<<"prop_header", SizeOf(ofp_queue_prop_header)>>, <<"rate", 2>>, <<"pad", 6>>>>

ofp_packet_queue == <<<<"queue_id", 4>>, <<"len", 2>>, <<"pad", 2>>>>
ofp_queue_get_config_request == Message(<<<<"port", 2>>, <<"pad", 2>>>>)
ofp_queue_get_config_reply == Message(<<<<"port", 2>>, <<"pad", 6>>>>)
ofp_queue_stats_request == <<<<"port_no", 2>>, <<"pad", 2>>, <<"queue_id", 4>>>>

ofp_queue_stats ==
    <<<<"port_no", 2>>, <<"pad", 2>>, <<"queue_id", 4>>, <<"tx_bytes", 8>>,
      <<"tx_packets", 8>>, <<"tx_errors", 8>>>>

-----------------------------------------------------------------------------
(***************************************************************************)
(* The enumerations that say which structure a message is.  They are       *)
(* numbered from 0 in this order.                                          *)
(***************************************************************************)
ofp_type ==
    <<"HELLO", "ERROR", "ECHO_REQUEST", "ECHO_REPLY", "VENDOR",
      "FEATURES_REQUEST", "FEATURES_REPLY", "GET_CONFIG_REQUEST", "GET_CONFIG_REPLY",
      "SET_CONFIG",
      "PACKET_IN", "FLOW_REMOVED", "PORT_STATUS",
      "PACKET_OUT", "FLOW_MOD", "PORT_MOD",
      "STATS_REQUEST", "STATS_REPLY",
      "BARRIER_REQUEST", "BARRIER_REPLY",
      "QUEUE_GET_CONFIG_REQUEST", "QUEUE_GET_CONFIG_REPLY">>

ofp_action_type ==
    <<"OUTPUT", "SET_VLAN_VID", "SET_VLAN_PCP", "STRIP_VLAN", "SET_DL_SRC", "SET_DL_DST",
      "SET_NW_SRC", "SET_NW_DST", "SET_NW_TOS", "SET_TP_SRC", "SET_TP_DST", "ENQUEUE">>

ofp_flow_mod_command == <<"ADD", "MODIFY", "MODIFY_STRICT", "DELETE", "DELETE_STRICT">>

ofp_stats_types == <<"DESC", "FLOW", "AGGREGATE", "TABLE", "PORT", "QUEUE">>

NumberOf(enum, name) == (CHOOSE i \in DOMAIN enum : enum[i] = name) - 1

\* What a message begins with: the header alone where it says nothing else.
StructureOf(type) ==
    CASE type = "ERROR" -> ofp_error_msg
      [] type = "VENDOR" -> ofp_vendor_header
      [] type = "FEATURES_REPLY" -> ofp_switch_features
      [] type \in {"GET_CONFIG_REPLY", "SET_CONFIG"} -> ofp_switch_config
      [] type = "PACKET_IN" -> ofp_packet_in
      [] type = "FLOW_REMOVED" -> ofp_flow_removed
      [] type = "PORT_STATUS" -> ofp_port_status
      [] type = "PACKET_OUT" -> ofp_packet_out
      [] type = "FLOW_MOD" -> ofp_flow_mod
      [] type = "PORT_MOD" -> ofp_port_mod
      [] type = "STATS_REQUEST" -> ofp_stats_request
      [] type = "STATS_REPLY" -> ofp_stats_reply
      [] type = "QUEUE_GET_CONFIG_REQUEST" -> ofp_queue_get_config_request
      [] type = "QUEUE_GET_CONFIG_REPLY" -> ofp_queue_get_config_reply
      [] OTHER -> ofp_hello

ActionStructureOf(type) ==
    CASE type = "OUTPUT" -> ofp_action_output
      [] type = "SET_VLAN_VID" -> ofp_action_vlan_vid
      [] type = "SET_VLAN_PCP" -> ofp_action_vlan_pcp
      [] type \in {"SET_DL_SRC", "SET_DL_DST"} -> ofp_action_dl_addr
      [] type \in {"SET_NW_SRC", "SET_NW_DST"} -> ofp_action_nw_addr
      [] type = "SET_NW_TOS" -> ofp_action_nw_tos
      [] type \in {"SET_TP_SRC", "SET_TP_DST"} -> ofp_action_tp_port
      [] type = "ENQUEUE" -> ofp_action_enqueue
      [] OTHER -> ofp_action_header

\* What follows a request or a reply, once or in an array.
StatsBodies(type) ==
    CASE type = "DESC" -> [request |-> << >>, reply |-> ofp_desc_stats]
      [] type = "FLOW" -> [request |-> ofp_flow_stats_request, reply |-> ofp_flow_stats]
      [] type = "AGGREGATE" ->
            [request |-> ofp_aggregate_stats_request, reply |-> ofp_aggregate_stats_reply]
      [] type = "TABLE" -> [request |-> << >>, reply |-> ofp_table_stats]
      [] type = "PORT" -> [request |-> ofp_port_stats_request, reply |-> ofp_port_stats]
      [] type = "QUEUE" -> [request |-> ofp_queue_stats_request, reply |-> ofp_queue_stats]

\* What the log calls the message with this number.
ofp_msg_name(n) ==
    IF n + 1 \notin DOMAIN ofp_type THEN "OF MSG TYPE UNKNOWN"
    ELSE CASE ofp_type[n + 1] = "VENDOR" -> "OFPT_EXPERIMENTER"
           [] ofp_type[n + 1] = "FLOW_MOD" -> "OFPT_FLOW_MO"
           [] OTHER -> "OFPT_" \o ofp_type[n + 1]

\* The adapter's buffer for one connection.
YOF_BUF_LEN == 4096

\* Every message, with one body of its kind, fits that buffer, and a
\* FEATURES_REPLY with no more than 84 ports does.
ASSUME MessagesFit ==
    /\ \A i \in DOMAIN ofp_type : SizeOf(StructureOf(ofp_type[i])) \in 8 .. 96
    /\ \A i \in DOMAIN ofp_stats_types :
          LET b == StatsBodies(ofp_stats_types[i])
          IN /\ SizeOf(ofp_stats_request) + SizeOf(b.request) <= YOF_BUF_LEN
             /\ SizeOf(ofp_stats_reply) + SizeOf(b.reply) <= YOF_BUF_LEN
    /\ SizeOf(ofp_switch_features) + 84 * SizeOf(ofp_phy_port) <= YOF_BUF_LEN
    /\ SizeOf(ofp_switch_features) + 85 * SizeOf(ofp_phy_port) > YOF_BUF_LEN

\* "The length of an action *must* always be a multiple of eight."
ASSUME ActionsAligned ==
    \A i \in DOMAIN ofp_action_type : SizeOf(ActionStructureOf(ofp_action_type[i])) % 8 = 0

\* The numbers on the wire that both ends of a connection must agree on, and
\* names that tell the types apart.
ASSUME Numbers ==
    /\ NumberOf(ofp_type, "PACKET_IN") = 10 /\ NumberOf(ofp_type, "PACKET_OUT") = 13
    /\ NumberOf(ofp_type, "FLOW_MOD") = 14 /\ NumberOf(ofp_type, "QUEUE_GET_CONFIG_REPLY") = 21
    /\ NumberOf(ofp_action_type, "ENQUEUE") = 11 /\ NumberOf(ofp_flow_mod_command, "DELETE") = 3
    /\ NumberOf(ofp_stats_types, "QUEUE") = 5
    /\ \A i, j \in 0 .. 21 : ofp_msg_name(i) = ofp_msg_name(j) => i = j
    /\ \A i \in 0 .. 255 : ofp_msg_name(i) = ofp_msg_name(255) <=> i > 21

-----------------------------------------------------------------------------
\* The sizes the headers assert, and that every field begins where its number
\* may: no compiler puts anything in between.  The frame of a packet_in begins
\* two bytes before its structure ends.
Sizes ==
    {<<ofp_header, 8>>, <<ofp_switch_config, 12>>, <<ofp_phy_port, 48>>,
     <<ofp11_port, 64>>, <<ofp_switch_features, 32>>, <<ofp_port_status, 64>>,
     <<ofp_port_mod, 32>>, <<ofp_packet_in, 20>>, <<ofp11_packet_in, 24>>,
     <<ofp_action_header, 8>>, <<ofp_action_output, 8>>, <<ofp_action_vlan_vid, 8>>,
     <<ofp_action_vlan_pcp, 8>>, <<ofp_action_dl_addr, 16>>, <<ofp_action_nw_addr, 8>>,
     <<ofp_action_tp_port, 8>>, <<ofp_action_nw_tos, 8>>, <<ofp_packet_out, 16>>,
     <<ofp_match, 40>>, <<ofp_flow_mod, 72>>, <<ofp_flow_removed, 88>>,
     <<ofp_error_msg, 12>>, <<ofp_vendor_header, 12>>, <<ofp_action_vendor_header, 8>>,
     <<ofp_action_enqueue, 16>>, <<ofp_stats_request, 12>>, <<ofp_stats_reply, 12>>,
     <<ofp_desc_stats, 1056>>, <<ofp_flow_stats_request, 44>>, <<ofp_flow_stats, 88>>,
     <<ofp_aggregate_stats_request, 44>>, <<ofp_aggregate_stats_reply, 24>>,
     <<ofp_table_stats, 64>>, <<ofp_port_stats_request, 8>>, <<ofp_port_stats, 104>>,
     <<ofp_queue_prop_header, 8>>, <<ofp_queue_prop_min_rate, 16>>,
     <<ofp_packet_queue, 8>>, <<ofp_queue_get_config_request, 12>>,
     <<ofp_queue_get_config_reply, 16>>, <<ofp_queue_stats_request, 8>>,
     <<ofp_queue_stats, 32>>}

ASSUME Assertions ==
    /\ \A z \in Sizes :
          /\ SizeOf(z[1]) = z[2]
          /\ \A i \in DOMAIN z[1] :
                z[1][i][1] \notin Arrays \cup Nested => OffsetOf(z[1], i) % z[1][i][2] = 0
    /\ Extent(ofp_packet_in) = SizeOf(ofp_packet_in) - 2

=============================================================================
