------------------------------- MODULE MCClient -------------------------------
(***************************************************************************)
(* The parts of the client that its one UI thread goes through one after   *)
(* another: the identity at start-up, the settings menu, the list of hosts,*)
(* the port mapping of a remote stream, the list of games, the bitrate     *)
(* control and the input of a running stream.  They share no variable, so  *)
(* one run checks each of them from its initial state, part says which.    *)
(***************************************************************************)
EXTENDS StreamRequest, HostList, GameLibrary, ClientIdentity, PortMapping, Input

VARIABLE part

MCPads ==
    {{}, {"L"}, {"R"}, {"Up"}, {"Circle"}, {"Cross"}, {"Stick"}, {"R", "Up"}, {"Start", "Select"},
     {"L", "Up"}, {"L", "Stick"}, {"Circle", "Cross"}, {"R", "Up", "Circle"}}
MCMappings == {[DefaultMapping EXCEPT !.nub = TRUE]}
MCBitrates == <<192, 480, 2560>>
MCSizes == {<<420, 238>>, <<400, 240>>}
MCEdited ==
    {[w |-> -5, h |-> 900, res |-> 3, fpsIdx |-> 0], [w |-> 380, h |-> 210, res |-> 7, fpsIdx |-> 4]}
MCListings ==
    {<<>>,
     <<[app |-> "p", url |-> "u1"], [app |-> "q", url |-> "u1"], [app |-> "r", url |-> "-"]>>,
     <<[app |-> "q", url |-> "u2"], [app |-> "p", url |-> "u1"]>>}
MCOptions ==
    {[cabac |-> TRUE, audio |-> TRUE, packet |-> 500, disable |-> FALSE,
      supported |-> Features, requested |-> {"video", "audio"}],
     [cabac |-> TRUE, audio |-> FALSE, packet |-> 1400, disable |-> FALSE,
      supported |-> {"video", "audio"}, requested |-> {"audio"}]}
MCPorts == <<1, 2, 3>>

(* A clean second, one with lost frames, silence.                          *)
Window(r, f, d, a, n, q) == [repaired |-> r, failed |-> f, dropped |-> d, attempts |-> a, frames |-> n, quiet |-> q]
MCWindows ==
    {Window(0, 0, 0, 0, 20, FALSE), Window(8, 2, 1, 4, 18, FALSE), Window(0, 0, 0, 0, 0, TRUE)}

ClientInit ==
    /\ part \in {"settings", "hosts", "games", "identity", "ports", "signal", "input"}
    /\ RequestInit /\ HostInit /\ GameInit /\ IdentityInit /\ PortInit /\ SignalInit /\ Init
    /\ part # "settings" => sFile = Written(Defaults, 0)
    /\ part # "ports" => \A port \in PortSet : uGateway[port] = "free"

ClientNext ==
    /\ UNCHANGED part
    /\ \/ /\ part = "settings" /\ RequestNext
          /\ UNCHANGED <<hostVars, gameVars, identityVars, portVars, signalVars, vars>>
       \/ /\ part = "hosts" /\ HostNext
          /\ UNCHANGED <<requestVars, gameVars, identityVars, portVars, signalVars, vars>>
       \/ /\ part = "games" /\ GameNext
          /\ UNCHANGED <<requestVars, hostVars, identityVars, portVars, signalVars, vars>>
       \/ /\ part = "identity" /\ IdentityNext
          /\ UNCHANGED <<requestVars, hostVars, gameVars, portVars, signalVars, vars>>
       \/ /\ part = "ports" /\ PortNext
          /\ UNCHANGED <<requestVars, hostVars, gameVars, identityVars, signalVars, vars>>
       \/ /\ part = "signal" /\ SignalNext
          /\ UNCHANGED <<requestVars, hostVars, gameVars, identityVars, portVars, vars>>
       \/ /\ part = "input" /\ Next
          /\ UNCHANGED <<requestVars, hostVars, gameVars, identityVars, portVars, signalVars>>

(* The stream loop is one thread that keeps running.                       *)
ClientSpec ==
    /\ ClientInit /\ [][ClientNext]_<<part, requestVars, hostVars, gameVars, identityVars, portVars, signalVars, vars>>
    /\ WF_vars(part = "input" /\ Loop)
=============================================================================
