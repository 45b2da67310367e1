----------------------------- MODULE MCServices -----------------------------
(***************************************************************************)
(* What serves the turns, side by side: the evolution of memory and        *)
(* skills, the extensions and the import of skills, one MCP server, the    *)
(* commands of tool calls, and the channels.  They share no state: in each *)
(* behaviour one of them moves, which it is decided at first, and the      *)
(* others rest in one initial state.                                       *)
(***************************************************************************)
EXTENDS Evolution, Extensions, SkillImport, McpSession, Commands, Channels

VARIABLE moving

vars == <<moving, evolutionVars, extVars, importVars, mcpVars, commandVars, channelVars>>

(* Two plugins that bring the same server; one of their manifests is bad.  *)
TwoPlugins ==
  {[name |-> 1, byDefault |-> TRUE, server |-> "s"],
   [name |-> 2, byDefault |-> FALSE, server |-> "s"],
   [name |-> 2, byDefault |-> TRUE, server |-> "invalid"]}

(* Files that meet after their names are cleaned and their places chosen.  *)
MeetingFiles ==
  <<[path |-> <<"SKILL.md">>, kind |-> "skill"],
    [path |-> <<"a b.md">>, kind |-> "markdown"],
    [path |-> <<"a-b.md">>, kind |-> "markdown"],
    [path |-> <<"build!", "d.json">>, kind |-> "resource"],
    [path |-> <<"build", "d.json">>, kind |-> "resource"],
    [path |-> <<"d.json">>, kind |-> "resource"],
    [path |-> <<"e.exe">>, kind |-> "other"],
    [path |-> <<"p", "SKILL.md">>, kind |-> "skill"],
    [path |-> <<"p", "a b.md">>, kind |-> "markdown"],
    [path |-> <<"p", "requirements.txt">>, kind |-> "text"],
    [path |-> <<"p", "scripts", "run_python.py">>, kind |-> "script"],
    [path |-> <<"references", "a-b.md">>, kind |-> "markdown"],
    [path |-> <<"resources", "d.json">>, kind |-> "resource"],
    [path |-> <<"run_python.py">>, kind |-> "script"],
    [path |-> <<"scripts", "run_python.py">>, kind |-> "script"]>>

CleanedNames ==
  [name \in UNION {ToSet(MeetingFiles[i].path) : i \in DOMAIN MeetingFiles} |->
     CASE name = "a b.md" -> "a-b.md"
       [] name = "build!" -> "build"
       [] OTHER -> name]

(* All messages are of one chat.                                           *)
OneChat == [m \in Message |-> "chat"]

-----------------------------------------------------------------------------
Init ==
  /\ moving \in {"evolution", "extensions", "import", "mcp", "commands", "channels"}
  /\ EvolutionInit /\ ExtInit /\ McpInit /\ CommandInit /\ ChannelInit
  /\ moving # "evolution" => sessionRecord.length = Min(Earlier)
  /\ moving # "commands" => runner = "none"
  /\ ImportInit
  /\ moving # "import" => uploaded = {Head(Uploadable)}

EvolutionMoves ==
  /\ moving = "evolution" /\ EvolutionNext
  /\ UNCHANGED <<moving, extVars, importVars, mcpVars, commandVars, channelVars>>

ExtensionsMove ==
  /\ moving = "extensions" /\ ExtNext
  /\ UNCHANGED <<moving, evolutionVars, importVars, mcpVars, commandVars, channelVars>>

ImportMoves ==
  /\ moving = "import" /\ ImportNext
  /\ UNCHANGED <<moving, evolutionVars, extVars, mcpVars, commandVars, channelVars>>

McpMoves ==
  /\ moving = "mcp" /\ McpNext
  /\ UNCHANGED <<moving, evolutionVars, extVars, importVars, commandVars, channelVars>>

CommandsMove ==
  /\ moving = "commands" /\ CommandNext
  /\ UNCHANGED <<moving, evolutionVars, extVars, importVars, mcpVars, channelVars>>

ChannelsMove ==
  /\ moving = "channels" /\ ChannelNext
  /\ UNCHANGED <<moving, evolutionVars, extVars, importVars, mcpVars, commandVars>>

Next ==
  EvolutionMoves \/ ExtensionsMove \/ ImportMoves \/ McpMoves \/ CommandsMove \/ ChannelsMove

Spec == Init /\ [][Next]_vars
=============================================================================
