------------------------------ MODULE HostList ------------------------------
(***************************************************************************)
(* The list of hosts, and what config.ini remembers of them: the hosts the *)
(* user entered, selected or scanned (manual), and the hosts that accepted *)
(* this client (paired).  Two copies of the pairings are written to the    *)
(* file: g_psp_config by a pairing or the settings menu, and               *)
(* g_last_loaded_config by every change of the manual hosts.               *)
(* Names, MAC addresses and the online mark are left out.                  *)
(***************************************************************************)
EXTENDS Integers, Sequences, FiniteSets, SequencesExt

CONSTANTS
    Ips,
    NoIp,           \* the empty string
    MaxManual,      \* MAX_MANUAL_HOSTS (8)
    MaxPaired,      \* slots of pairedHostIps (8)
    MaxHosts,       \* MAX_HOSTS (20)
    MaxVisible,     \* MAX_VISIBLE_HOSTS (5)
    MaxFound,       \* bound: new hosts that answer one scan by mDNS
    MaxFaults       \* bound: saves that fail or lose power, in one behaviour

ASSUME HostListAssumption ==
    /\ IsFiniteSet(Ips) /\ NoIp \notin Ips
    /\ {MaxManual, MaxPaired, MaxHosts, MaxVisible} \subseteq Nat \ {0} /\ {MaxFound, MaxFaults} \subseteq Nat

VARIABLES
    hScreen,        \* off, settings, list, scan or connect
    g_manual_hosts, hPaired,    \* of config.c, and of g_psp_config
    hLast,          \* the pairings of g_last_loaded_config
    hDisk,          \* config.ini: [manual, paired]
    g_hosts, g_selected_index, g_first_visible_index,
    g_last_paired_host,
    hTarget,        \* the selected host: [ip, paired]; g_is_paired follows paired
    hFaults

hostVars == <<hScreen, g_manual_hosts, hPaired, hLast, hDisk, g_hosts, g_selected_index,
              g_first_visible_index, g_last_paired_host, hTarget, hFaults>>
listVars == <<g_hosts, g_selected_index, g_first_visible_index>>
NoTarget == [ip |-> NoIp, paired |-> FALSE]

HostInit ==
    /\ hScreen = "off" /\ g_manual_hosts = <<>> /\ hPaired = <<>> /\ hLast = <<>>
    /\ hDisk = [manual |-> <<>>, paired |-> <<>>]
    /\ g_hosts = <<>> /\ g_selected_index = 0 /\ g_first_visible_index = 0
    /\ g_last_paired_host = NoIp /\ hTarget = NoTarget /\ hFaults = 0

(***************************************************************************)
(* saveConfig.  A file that cannot be opened keeps its contents, and the   *)
(* remembered copy too.  Power that fails leaves the manual hosts, which   *)
(* are written first, or part of them, or both with part of the pairings.  *)
(***************************************************************************)
PowerOff ==
    /\ hScreen' = "off" /\ g_manual_hosts' = <<>> /\ hPaired' = <<>> /\ hLast' = <<>>
    /\ g_hosts' = <<>> /\ g_selected_index' = 0 /\ g_first_visible_index' = 0
    /\ g_last_paired_host' = NoIp /\ hTarget' = NoTarget

(* A save of these lists is cut short.                                     *)
SaveLost(manual, paired) ==
    /\ hFaults < MaxFaults /\ hFaults' = hFaults + 1
    /\ hDisk' \in {[manual |-> m, paired |-> <<>>] : m \in Prefixes(manual)}
                    \cup {[manual |-> manual, paired |-> p] : p \in Prefixes(paired)}
    /\ PowerOff

SaveForgetsCopy(opened, manual, paired) ==
    /\ g_manual_hosts' = manual
    /\ hDisk' = IF opened THEN [manual |-> manual, paired |-> paired] ELSE hDisk
    /\ opened \/ hFaults < MaxFaults
    /\ hFaults' = IF opened THEN hFaults ELSE hFaults + 1
    /\ UNCHANGED hLast

Save(opened, manual, paired) ==
    /\ g_manual_hosts' = manual
    /\ hDisk' = IF opened THEN [manual |-> manual, paired |-> paired] ELSE hDisk
    /\ opened \/ hFaults < MaxFaults
    /\ hFaults' = IF opened THEN hFaults ELSE hFaults + 1
    /\ hLast' = IF opened THEN paired ELSE hLast
NotSaved == UNCHANGED <<g_manual_hosts, hDisk, hLast, hFaults>>

(* config_add_manual_host, config_add_paired_host (most recently used      *)
(* first), config_delete_manual_host                                       *)
ManualFull(ip) == ~Contains(g_manual_hosts, ip) /\ Len(g_manual_hosts) >= MaxManual
WithManual(ip) == IF Contains(g_manual_hosts, ip) THEN g_manual_hosts ELSE Append(g_manual_hosts, ip)
config_add_manual_host(ip, opened) ==
    IF ManualFull(ip) THEN NotSaved ELSE Save(opened, WithManual(ip), hLast)
WithoutIp(s, ip) == RemoveFirst(s, ip)
WithPaired(ip) ==
    LET s == <<ip>> \o WithoutIp(hPaired, ip) IN SubSeq(s, 1, IF Len(s) < MaxPaired THEN Len(s) ELSE MaxPaired)

(***************************************************************************)
(* The settings menu: entered at boot and from the list.                   *)
(***************************************************************************)
EnterSettings ==
    /\ hScreen \in {"off", "list"} /\ hScreen' = "settings"
    /\ g_manual_hosts' = hDisk.manual /\ hPaired' = hDisk.paired /\ hLast' = hDisk.paired
    /\ g_last_paired_host' = IF hDisk.paired # <<>> THEN Head(hDisk.paired) ELSE g_last_paired_host
    /\ g_hosts' = <<>> /\ g_selected_index' = 0 /\ g_first_visible_index' = 0
    /\ UNCHANGED <<hDisk, hTarget, hFaults>>

(***************************************************************************)
(* The list                                                                *)
(***************************************************************************)
ListedIps(s) == {s[i].ip : i \in DOMAIN s}
IndexOf(s, ip) == CHOOSE i \in DOMAIN s : s[i].ip = ip
Entry(ip, answers) == [ip |-> ip, paired |-> answers /\ Contains(hPaired, ip)]

addOrUpdateHost(s, e) == IF e.ip \in ListedIps(s) \/ Len(s) >= MaxHosts THEN s ELSE Append(s, e)

(* clampSelectionWindow                                                    *)
ClampFirst(count, sel, first) ==
    LET f == IF sel < first THEN sel
             ELSE IF sel >= first + MaxVisible THEN sel - (MaxVisible - 1) ELSE first
        maxFirst == IF count > MaxVisible THEN count - MaxVisible ELSE 0
    IN  IF f > maxFirst THEN maxFirst ELSE f

ListIs(s, sel) ==
    LET count == Len(s)
        i == IF count = 0 THEN 0 ELSE IF sel >= count THEN count - 1 ELSE sel
    IN  /\ g_hosts' = s
        /\ g_selected_index' = i
        /\ g_first_visible_index' = IF count = 0 THEN 0 ELSE ClampFirst(count, i, g_first_visible_index)

(* scanNetwork: the listed hosts that answer get their mark from the       *)
(* configuration; the hosts that answer by mDNS are added while there is   *)
(* room.  An answer matters only of a paired host.                         *)
Scanned(s, answering, found) ==
    LET probed == [i \in DOMAIN s |-> IF s[i].ip \in answering THEN Entry(s[i].ip, TRUE) ELSE s[i]]
        new == SetToSeq(found \ ListedIps(s))
        all == probed \o [i \in DOMAIN new |-> Entry(new[i], new[i] \in answering)]
    IN  SubSeq(all, 1, IF Len(all) < MaxHosts THEN Len(all) ELSE MaxHosts)

NewHosts == {S \in SUBSET Ips : Cardinality(S) <= MaxFound}

(* What a scan may make of the list s, with these hosts paired.            *)
Scans(s, paired) == {Scanned(s, answering, found) : answering \in SUBSET ToSet(paired), found \in NewHosts}

(* host_discovery_init: manual hosts, then a scan.  The selection is kept. *)
OpenList ==
    /\ hScreen' = "list"
    /\ LET manual == [i \in DOMAIN g_manual_hosts' |->
                        [ip |-> g_manual_hosts'[i], paired |-> Contains(hPaired', g_manual_hosts'[i])]]
       IN  \E s \in Scans(manual, hPaired') : ListIs(s, g_selected_index)

LeaveSettings(opened) ==
    /\ hScreen = "settings"
    /\ Save(opened, g_manual_hosts, hPaired)
    /\ UNCHANGED <<hPaired, g_last_paired_host, hTarget>>
    /\ OpenList

SkipSettings ==
    /\ hScreen = "settings"
    /\ NotSaved
    /\ UNCHANGED <<hPaired, g_last_paired_host, hTarget>>
    /\ OpenList

SettingsLosePower == hScreen = "settings" /\ SaveLost(g_manual_hosts, hPaired)

Move(d) ==
    /\ hScreen = "list" /\ g_selected_index + d \in 0..(Len(g_hosts) - 1)
    /\ ListIs(g_hosts, g_selected_index + d)
    /\ UNCHANGED <<hScreen, g_manual_hosts, hPaired, hLast, hDisk, g_last_paired_host, hTarget, hFaults>>

(* Square: scanNetwork, then quickSubnetScan, which tries the addresses    *)
(* that are not listed one by one until it is through or cancelled.        *)
Rescan ==
    /\ hScreen = "list" /\ hScreen' = "scan"
    /\ \E s \in Scans(g_hosts, hPaired) : ListIs(s, g_selected_index)
    /\ UNCHANGED <<g_manual_hosts, hPaired, hLast, hDisk, g_last_paired_host, hTarget, hFaults>>

ScanFinds(ip, answers, opened) ==
    /\ hScreen = "scan" /\ ip \notin ListedIps(g_hosts)
    /\ config_add_manual_host(ip, opened)
    /\ g_hosts' = addOrUpdateHost(g_hosts, Entry(ip, answers))
    /\ UNCHANGED <<hScreen, hPaired, g_selected_index, g_first_visible_index, g_last_paired_host, hTarget>>

ScanLosesPower(ip) ==
    /\ hScreen = "scan" /\ ip \notin ListedIps(g_hosts) /\ ~ManualFull(ip)
    /\ SaveLost(WithManual(ip), hLast)

ScanEnds ==
    /\ hScreen = "scan" /\ hScreen' = "list"
    /\ ListIs(g_hosts, g_selected_index)
    /\ UNCHANGED <<g_manual_hosts, hPaired, hLast, hDisk, g_last_paired_host, hTarget, hFaults>>

(* L+R and a confirmation.  A host that is not manual is only taken from   *)
(* the list; a pairing stays.                                              *)
Delete(opened) ==
    /\ hScreen = "list" /\ g_hosts # <<>>
    /\ LET ip == g_hosts[g_selected_index + 1].ip IN
          /\ IF Contains(g_manual_hosts, ip) THEN Save(opened, WithoutIp(g_manual_hosts, ip), hLast) ELSE NotSaved
          /\ ListIs(RemoveAt(g_hosts, g_selected_index + 1), g_selected_index)
    /\ UNCHANGED <<hScreen, hPaired, g_last_paired_host, hTarget>>

(* Triangle and an address: listed only when it was also saved.            *)
Add(ip, answers, opened) ==
    /\ hScreen = "list"
    /\ config_add_manual_host(ip, opened)
    /\ ListIs(IF ~opened \/ ManualFull(ip) THEN g_hosts
              ELSE LET s == addOrUpdateHost(g_hosts, Entry(ip, FALSE)) IN
                   IF answers /\ ip \in ListedIps(s) THEN [s EXCEPT ![IndexOf(s, ip)] = Entry(ip, TRUE)] ELSE s,
              g_selected_index)
    /\ UNCHANGED <<hScreen, hPaired, g_last_paired_host, hTarget>>

(* Cross: the host becomes the target and a manual host.                   *)
Select(opened) ==
    /\ hScreen = "list" /\ g_hosts # <<>> /\ hScreen' = "connect"
    /\ hTarget' = g_hosts[g_selected_index + 1]
    /\ config_add_manual_host(hTarget'.ip, opened)
    /\ UNCHANGED <<hPaired, g_last_paired_host, listVars>>

SelectLosesPower ==
    /\ hScreen = "list" /\ g_hosts # <<>> /\ ~ManualFull(g_hosts[g_selected_index + 1].ip)
    /\ SaveLost(WithManual(g_hosts[g_selected_index + 1].ip), hLast)

ExitApp == hScreen = "list" /\ PowerOff /\ UNCHANGED <<hDisk, hFaults>>

(***************************************************************************)
(* network_connect_all and what main does with its result (module Connect  *)
(* has the connection itself).  Afterwards the list is rebuilt when the    *)
(* connection failed, and shown as it was after a stream.                  *)
(***************************************************************************)
BackToList ==
    /\ hTarget' = NoTarget
    /\ \/ OpenList
       \/ hScreen' = "list" /\ UNCHANGED listVars

(* The saved pairing is used, or cannot be verified.  Either way main      *)
(* saves g_last_paired_host as the most recent one, which need not be the  *)
(* host that was selected.                                                 *)
ConnectPaired(opened) ==
    /\ hScreen = "connect" /\ hTarget.paired
    /\ IF g_last_paired_host = NoIp
       THEN NotSaved /\ UNCHANGED hPaired
       ELSE hPaired' = WithPaired(g_last_paired_host) /\ Save(opened, g_manual_hosts, hPaired')
    /\ BackToList
    /\ UNCHANGED g_last_paired_host

(* A new pairing succeeds, because there was none or the host refused it.  *)
ConnectPairs(opened) ==
    /\ hScreen = "connect"
    /\ g_last_paired_host' = hTarget.ip
    /\ hPaired' = WithPaired(hTarget.ip) /\ Save(opened, g_manual_hosts, hPaired')
    /\ BackToList

PairingLosesPower == hScreen = "connect" /\ SaveLost(g_manual_hosts, WithPaired(hTarget.ip))

(* No pairing: the saved one is refused, or the list of games is empty,    *)
(* and there is no new one.  The file is left as it is.                    *)
ConnectUnpaired ==
    /\ hScreen = "connect"
    /\ g_last_paired_host' \in {NoIp} \cup IF hTarget.paired THEN {} ELSE {g_last_paired_host}
    /\ NotSaved /\ UNCHANGED hPaired
    /\ BackToList

(* The launch is answered with 401: the host is taken from the pairings.   *)
LaunchRefused(opened) ==
    /\ hScreen = "connect"
    /\ g_last_paired_host' = NoIp
    /\ hPaired' = WithoutIp(hPaired, hTarget.ip) /\ Save(opened, g_manual_hosts, hPaired')
    /\ BackToList

HostNext ==
    \/ EnterSettings \/ SkipSettings \/ SettingsLosePower \/ ScanEnds \/ SelectLosesPower \/ ExitApp
    \/ PairingLosesPower \/ ConnectUnpaired \/ Rescan
    \/ \E opened \in BOOLEAN :
          \/ LeaveSettings(opened) \/ Delete(opened) \/ Select(opened)
          \/ ConnectPaired(opened) \/ ConnectPairs(opened) \/ LaunchRefused(opened)
          \/ \E ip \in Ips : \E answers \in {FALSE, Contains(hPaired, ip)} : ScanFinds(ip, answers, opened) \/ Add(ip, answers, opened)
    \/ \E d \in {-1, 1} : Move(d)
    \/ \E ip \in Ips : ScanLosesPower(ip)

(***************************************************************************)
(* Properties                                                              *)
(***************************************************************************)
(* As long as the power stays on, a host is forgotten only for a reason:   *)
(* config.ini and the memory lose a pairing when the host refuses it or    *)
(* the slots are full, and a manual host when the user deletes it,         *)
(* although two copies of the configuration are written back at different  *)
(* times and any save may fail (rememberLoadedConfig,                      *)
(* config_add_manual_host, config_add_paired_host).                        *)
Deletes(ip) == hScreen = "list" /\ g_hosts # <<>> /\ ip = g_hosts[g_selected_index + 1].ip /\ Len(g_hosts') < Len(g_hosts)
Refuses(ip) == hScreen = "connect" /\ ip = hTarget.ip
HostsKept ==
    [][hScreen' # "off" =>
         /\ \A ip \in ToSet(hPaired) \cap ToSet(hDisk.paired) :
               \/ ip \in ToSet(hPaired') \cap ToSet(hDisk'.paired)
               \/ Refuses(ip) \/ MaxPaired \in {Len(hPaired'), Len(hDisk'.paired)}
         /\ \A ip \in ToSet(g_manual_hosts) \cap ToSet(hDisk.manual) :
               ip \in ToSet(g_manual_hosts') \cap ToSet(hDisk'.manual) \/ Deletes(ip)]_hostVars

=============================================================================
