-------------------------------- MODULE Yanc --------------------------------
(***************************************************************************)
(* From the text of a schema to a message for a switch.  An administrator  *)
(* tries the schema with yanc-schema and starts yanc (yanc.c), which reads *)
(* the schema and mounts the file system; when the files are there,        *)
(* applications and the adapter use them as FlowPath says.                 *)
(*                                                                         *)
(* yanc-schema is used only before yanc is started: the two share nothing. *)
(* Allocation does not fail, and fuse_mount() stands for all the calls of  *)
(* libfuse in schemafs_run().  After the mount, yanc goes on.              *)
(***************************************************************************)
EXTENDS FlowPath, SchemaText, CommandLines

CONSTANTS
    SchemaTexts,    \* texts given to yanc-schema
    SchemaFile,     \* the text in schema.txt
    StartLines,     \* command lines yanc is started with
    NoTool          \* yanc-schema is not running

VARIABLES
    tool,           \* yanc-schema's main(): at, text, schema, packed, out
    start           \* yanc's main(): at, opts, root, served

yancVars == <<vars, tool, start>>

YancInit ==
    /\ Init
    /\ tool = NoTool
    /\ start = [at |-> "started", opts |-> Y_OPTS_DEFAULT, root |-> << >>,
                served |-> << >>]

-----------------------------------------------------------------------------
\* schema_fparse() of the input file.
ToolParses(text) ==
    /\ tool = NoTool /\ start.at = "started"
    /\ tool' = [at |-> "parsed", text |-> text, schema |-> Parse(text),
                packed |-> << >>, out |-> << >>]

\* schema_pack() and schema_free(); a schema that did not parse is packed, too.
ToolPacks ==
    /\ tool # NoTool /\ tool.at = "parsed"
    /\ \E packed \in Pack(tool.schema) :
          tool' = [tool EXCEPT !.at = "packed", !.packed = packed, !.schema = << >>]

\* Option -t: schema_unpack() and schema_printf().
ToolUnpacks ==
    /\ tool # NoTool /\ tool.at = "packed"
    /\ tool' = [tool EXCEPT !.at = "unpacked", !.schema = Unpack(tool.packed)]

ToolPrints ==
    /\ tool # NoTool /\ tool.at = "unpacked"
    /\ tool' = [tool EXCEPT !.at = "printed", !.out = Lines(tool.schema, 0)]

\* fwrite() of the buffer, without -t, or the end of the test.
ToolEnds ==
    /\ tool # NoTool /\ tool.at \in {"packed", "printed"}
    /\ tool' = NoTool

ToolStep ==
    /\ (\E text \in SchemaTexts : ToolParses(text)) \/ ToolPacks \/ ToolUnpacks
          \/ ToolPrints \/ ToolEnds
    /\ UNCHANGED <<vars, start>>

-----------------------------------------------------------------------------
\* y_parse_cmdline(), and with opts.daemonize y_daemonize(), which leaves the
\* directory yanc was started in.
Daemonize(line) ==
    /\ start.at = "started"
    /\ y_parse_cmdline(line).exit = "none"
    /\ start' = [start EXCEPT !.at = "daemon", !.opts = y_parse_cmdline(line)]

\* An absolute path begins with an empty name.
Absolute(path) == Head(path) = ""

\* schema_fparse(): opts.schema_file is relative unless -S gives another.
ReadSchema ==
    /\ start.at = "daemon"
    /\ start' = [start EXCEPT !.at = "parsed",
                              !.root = IF start.opts.daemonize
                                             /\ ~Absolute(start.opts.schema_file)
                                       THEN << >> ELSE Parse(SchemaFile)]

\* The path of a file in the schema.
PathOf(f) ==
    CASE f[1] = "flow" -> <<"switches", "flows", f[2]>>
      [] f[1] = "out" -> <<"switches", "packet_out", f[2]>>
      [] f[1] = "out/actions" -> <<"switches", "packet_out", "actions", f[2]>>
      [] OTHER -> <<"switches", "flows", f[1], f[2]>>

\* schemafs_run(), also without a schema: then no file is there.  It goes on
\* in one thread, and main() is done with its options.
Mount ==
    /\ start.at = "parsed" /\ ~start.opts.multi_threaded
    /\ start' = [start EXCEPT !.at = "mounted", !.opts = Y_OPTS_DEFAULT, !.root = << >>,
                              !.served = IF start.root = << >> THEN << >>
                                         ELSE [f \in Files |-> Search(start.root, PathOf(f)).type]]

\* usage() or y_sig_handler(), or fork(), chdir(), setsid() or fuse_mount() fails.
Exit ==
    /\ start.at \in {"started", "daemon", "parsed"}
    /\ start' = [start EXCEPT !.at = "exited"]

StartStep ==
    /\ tool = NoTool
    /\ \/ \E line \in StartLines : Daemonize(line)
       \/ ReadSchema \/ Mount \/ Exit
    /\ UNCHANGED <<vars, tool>>

\* The files are there, with the types that TypedFile assumes.
AdapterRuns == start.served = TypeOf /\ AdapterStep /\ UNCHANGED <<tool, start>>
AppRuns ==
    /\ start.served = TypeOf /\ (AppWrites \/ AppSignals)
    /\ UNCHANGED <<tool, start>>

YancNext == ToolStep \/ StartStep \/ AdapterRuns \/ AppRuns

YancSpec == YancInit /\ [][YancNext]_yancVars

\* The adapter's thread runs, once there is a file system.
FairYanc == YancSpec /\ WF_yancVars(AdapterRuns)

(***************************************************************************)
(* Properties                                                              *)
(***************************************************************************)
Unsigned == {"u8", "u16", "u32", "u64"}

\* What yanc-schema -t reads back from what libschema.c packed is the schema
\* that schema.y parsed, entry for entry, if it fits into the first buffer;
\* and it prints them all, with their names and at their levels, and the types
\* at the front of its table as they are.
SchemaReadsBack ==
    tool # NoTool /\ tool.at = "printed" =>
        LET parsed == Parse(tool.text)
            cells == Cells(parsed)
        IN parsed # << >> /\ Len(cells) <= BufCells =>
              /\ tool.schema = parsed
              /\ Len(tool.out) = Len(cells)
              /\ \A i \in DOMAIN cells :
                    /\ tool.out[i].name = cells[i].name
                    /\ cells[i].type \in Unsigned => tool.out[i].type = cells[i].type

=============================================================================
