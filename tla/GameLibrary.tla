----------------------------- MODULE GameLibrary -----------------------------
(***************************************************************************)
(* The list of a host's applications with their box art: the fetch, the    *)
(* pool of icon buffers, the art cached on the memory stick and the index  *)
(* that says which art it is.  Art is a version of an application's        *)
(* picture, named by its URL (assumption about the host: other art has     *)
(* another URL).  Titles, scrolling and drawing are left out.              *)
(***************************************************************************)
EXTENDS Integers, Sequences, FiniteSets

CONSTANTS
    GameHosts,
    NoHost,
    AppIds,
    Urls,           \* what art is named by
    Listings,       \* the answers to /applist: sequences of [app, url]
    NoUrl,          \* the URL of an application that has none
    Fallbacks,      \* applications whose title has an embedded icon
    IconSlots,      \* STATIC_ICON_SLOTS (16)
    MaxCacheFaults  \* bound: writes to the cache that fail or lose power, in one behaviour

FallbackArt == "fallback"
ASSUME GameAssumption ==
    /\ NoHost \notin GameHosts /\ Urls \cap {"none", "torn"} = {} /\ Fallbacks \subseteq AppIds /\ {IconSlots, MaxCacheFaults} \subseteq Nat
    /\ \A l \in Listings :
          /\ l \in Seq([app : AppIds, url : Urls])
          /\ \A i, j \in DOMAIN l : l[i].app = l[j].app => i = j    \* assumption about the host

VARIABLES
    gScreen,        \* off, away, icons (game_list_download_icons is at work) or grid
    s_cached_host, empty_repaired,
    gGames,         \* s_game_list: the listed applications, while their icons are assigned
    s_tiles,        \* the tiles: the listed applications whose icon is assigned, with it
    s_selected,
    s_icon_pool,    \* the buffers in use, each [app, url] of the art in it
    gRaw,           \* the cache files: none, torn, or the url of the art
    gIndex,         \* s_entries: none, or [url, old] per application
    gIndexFile,     \* the index on the memory stick
    gFaults,
    gUnsaved        \* history: applications whose art and index entry were not both written

gameVars == <<gScreen, s_cached_host, empty_repaired, gGames, s_tiles, s_selected, s_icon_pool,
              gRaw, gIndex, gIndexFile, gFaults, gUnsaved>>
gridVars == <<s_cached_host, empty_repaired, s_selected>>
cacheVars == <<gRaw, gIndex, gIndexFile, gFaults, gUnsaved>>

NoEntry == [url |-> "none", old |-> FALSE]
EmptyIndex == [a \in AppIds |-> NoEntry]
Default == 0        \* g_default_icon; the buffers count from 1

GameInit ==
    /\ gScreen = "away" /\ s_cached_host = NoHost /\ empty_repaired = FALSE
    /\ gGames = <<>> /\ s_tiles = <<>> /\ s_selected = 0 /\ s_icon_pool = <<>>
    /\ gRaw = [a \in AppIds |-> "none"] /\ gIndex = EmptyIndex /\ gIndexFile = EmptyIndex
    /\ gFaults = 0 /\ gUnsaved = {}

(***************************************************************************)
(* game_list_init and game_list_fetch (three attempts): the pool is emptied*)
(* before anything is known of the answer.                                 *)
(***************************************************************************)
Fetch(listing) ==
    /\ s_icon_pool' = <<>> /\ s_tiles' = <<>> /\ s_selected' = 0
    /\ gGames' = listing
    /\ UNCHANGED cacheVars

(* game_grid_ui_run                                                        *)
EnterReusesAny(host) ==
    /\ gScreen = "away" /\ s_tiles # <<>>
    /\ gScreen' = "grid" /\ s_selected' = 0 /\ s_cached_host' = host
    /\ UNCHANGED <<empty_repaired, gGames, s_tiles, s_icon_pool, cacheVars>>

EnterReuses(host) ==
    /\ gScreen = "away" /\ s_tiles # <<>> /\ s_cached_host = host
    /\ gScreen' = "grid" /\ s_selected' = 0
    /\ UNCHANGED <<s_cached_host, empty_repaired, gGames, s_tiles, s_icon_pool, cacheVars>>

(* An empty answer is taken, once per host, for a sign of a lost pairing   *)
(* (result -3).                                                            *)
EnterFetches(host, listing) ==
    LET repaired == empty_repaired /\ s_cached_host = host IN
    /\ gScreen = "away" /\ ~(s_tiles # <<>> /\ s_cached_host = host)
    /\ s_cached_host' = host
    /\ empty_repaired' = (repaired \/ listing = <<>>)
    /\ gScreen' = IF listing # <<>> THEN "icons" ELSE IF repaired THEN "grid" ELSE "away"
    /\ Fetch(listing)

EnterFails(host) ==
    /\ gScreen = "away" /\ ~(s_tiles # <<>> /\ s_cached_host = host)
    /\ s_cached_host' = host
    /\ empty_repaired' = (empty_repaired /\ s_cached_host = host)
    /\ Fetch(<<>>)
    /\ UNCHANGED gScreen

(* Square; a failure leaves an empty grid.                                 *)
Refresh(listing) ==
    /\ gScreen = "grid"
    /\ Fetch(listing)
    /\ gScreen' = IF listing # <<>> THEN "icons" ELSE "grid"
    /\ UNCHANGED <<s_cached_host, empty_repaired>>

MoveTile(d) ==
    /\ gScreen = "grid" /\ s_selected + d \in 0..(Len(s_tiles) - 1)
    /\ s_selected' = s_selected + d
    /\ UNCHANGED <<gScreen, s_cached_host, empty_repaired, gGames, s_tiles, s_icon_pool, cacheVars>>

(* An application is launched, or the user goes back.                      *)
LeaveGrid ==
    /\ gScreen = "grid" /\ gScreen' = "away"
    /\ UNCHANGED <<s_cached_host, empty_repaired, gGames, s_tiles, s_selected, s_icon_pool, cacheVars>>

(***************************************************************************)
(* game_list_download_icons, one application at a time                     *)
(***************************************************************************)
Current == gGames[Len(s_tiles) + 1]
Advance ==
    LET done == Len(s_tiles') = Len(gGames) IN
    /\ gScreen' = IF done THEN "grid" ELSE "icons"
    /\ gGames' = IF done THEN <<>> ELSE gGames
SlotFree == Len(s_icon_pool) < IconSlots

TakesSlot(art) ==
    /\ SlotFree
    /\ s_icon_pool' = Append(s_icon_pool, art)
    /\ s_tiles' = Append(s_tiles, [app |-> Current.app, url |-> Current.url, host |-> s_cached_host,
                                   icon |-> Len(s_icon_pool) + 1])
    /\ Advance

(* icon_cache_needs_update                                                 *)
Stale(g) == g.url # NoUrl /\ (gIndex[g.app] = NoEntry \/ gIndex[g.app].url # g.url \/ gIndex[g.app].old)

(* game_list_load_cached_icon: a file of another size is not used.         *)
Cached(g) == SlotFree /\ gRaw[g.app] \notin {"none", "torn"}

IconFromCache ==
    /\ gScreen = "icons" /\ ~Stale(Current) /\ Cached(Current)
    /\ TakesSlot([app |-> Current.app, url |-> gRaw[Current.app]])
    /\ UNCHANGED <<gridVars, cacheVars>>

NeedsDownload == gScreen = "icons" /\ (Stale(Current) \/ ~Cached(Current))

(* The art arrives and is decoded, written to the cache and entered in the *)
(* index, whether or not either file could be opened.                      *)
IconDownloaded(rawOpened, indexOpened) ==
    /\ NeedsDownload
    /\ TakesSlot(Current)
    /\ gFaults' = IF rawOpened /\ indexOpened THEN gFaults ELSE gFaults + 1
    /\ gFaults' <= MaxCacheFaults
    /\ gRaw' = IF rawOpened THEN [gRaw EXCEPT ![Current.app] = Current.url] ELSE gRaw
    /\ gUnsaved' = IF rawOpened /\ indexOpened THEN gUnsaved \ {Current.app} ELSE gUnsaved \cup {Current.app}
    /\ gIndex' = [gIndex EXCEPT ![Current.app] = [url |-> Current.url, old |-> FALSE]]
    /\ gIndexFile' = IF indexOpened THEN gIndex' ELSE gIndexFile
    /\ UNCHANGED gridVars

(* Nothing arrives, it cannot be decoded, or there is no buffer for it.    *)
IconMissing ==
    /\ NeedsDownload
    /\ IF Current.app \in Fallbacks /\ SlotFree
       THEN TakesSlot([app |-> Current.app, url |-> FallbackArt])
       ELSE /\ s_tiles' = Append(s_tiles, [app |-> Current.app, url |-> Current.url,
                                           host |-> s_cached_host, icon |-> Default])
            /\ Advance
            /\ UNCHANGED s_icon_pool
    /\ UNCHANGED <<gridVars, cacheVars>>

(***************************************************************************)
(* Time and power.  The cache is too old after ICON_CACHE_MAX_AGE_DAYS.    *)
(* Power may fail while art is written, between the two files, or while    *)
(* the index, which then is empty, is written.                             *)
(***************************************************************************)
WeekPasses ==
    /\ gScreen = "away" /\ \E a \in AppIds : gIndex[a] # NoEntry
    /\ gIndex' = [a \in AppIds |-> IF gIndex[a] = NoEntry THEN NoEntry ELSE [gIndex[a] EXCEPT !.old = TRUE]]
    /\ gIndexFile' = [a \in AppIds |-> IF gIndexFile[a] = NoEntry THEN NoEntry ELSE [gIndexFile[a] EXCEPT !.old = TRUE]]
    /\ UNCHANGED <<gScreen, gridVars, gGames, gFaults, s_tiles, s_icon_pool, gRaw, gUnsaved>>

Off ==
    /\ gFaults < MaxCacheFaults /\ gFaults' = gFaults + 1
    /\ gScreen' = "away" /\ s_cached_host' = NoHost /\ empty_repaired' = FALSE
    /\ gGames' = <<>> /\ s_tiles' = <<>> /\ s_selected' = 0 /\ s_icon_pool' = <<>>

ArtLosesPower ==
    /\ NeedsDownload /\ SlotFree
    /\ \E art \in {"torn", Current.url} : gRaw' = [gRaw EXCEPT ![Current.app] = art]
    /\ gIndex' = gIndexFile
    /\ gUnsaved' = gUnsaved \cup {Current.app}
    /\ Off /\ UNCHANGED gIndexFile

IndexLosesPower ==
    /\ NeedsDownload /\ SlotFree
    /\ gRaw' = [gRaw EXCEPT ![Current.app] = Current.url]
    /\ gUnsaved' = gUnsaved \ {Current.app}
    /\ gIndexFile' = EmptyIndex /\ gIndex' = EmptyIndex
    /\ Off

GameNext ==
    \/ IconFromCache \/ IconMissing \/ WeekPasses \/ ArtLosesPower \/ IndexLosesPower \/ LeaveGrid
    \/ \E rawOpened, indexOpened \in BOOLEAN : IconDownloaded(rawOpened, indexOpened)
    \/ \E d \in {-1, 1} : MoveTile(d)
    \/ \E l \in Listings : Refresh(l)
    \/ \E h \in GameHosts :
          EnterReuses(h) \/ EnterFails(h) \/ \E l \in Listings : EnterFetches(h, l)

(***************************************************************************)
(* Properties                                                              *)
(***************************************************************************)
(* Every tile shows its own application of the host that was selected,     *)
(* with the art its URL names, an embedded icon or the default, never the  *)
(* art of another tile and never a half written picture, although buffers, *)
(* files and index survive refreshes, changes of host and power losses.    *)
(* (Excepted are the applications whose art or index entry could not be    *)
(* written: then the index may name one picture and the file hold another.)*)
TilesSound ==
    /\ \A i \in DOMAIN s_tiles :
          /\ s_tiles[i].host = s_cached_host
          /\ s_tiles[i].icon # Default =>
                LET art == s_icon_pool[s_tiles[i].icon] IN
                /\ art.app = s_tiles[i].app
                /\ art.url # "torn"
                /\ s_tiles[i].url # NoUrl /\ s_tiles[i].app \notin gUnsaved =>
                      art.url \in {s_tiles[i].url, FallbackArt}
    /\ \A i, j \in DOMAIN s_tiles :
          i # j /\ s_tiles[i].icon = s_tiles[j].icon => s_tiles[i].icon = Default
=============================================================================
