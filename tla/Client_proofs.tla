---------------------------- MODULE Client_proofs ----------------------------
(***************************************************************************)
(* What the client keeps between its runs, shows of a host and asks of a   *)
(* stream, for every value of the constants: the identity, the tiles of the*)
(* list of games, the bitrate, the format that is streamed, the hosts that *)
(* are remembered, and that nothing of a stream survives it.               *)
(***************************************************************************)
EXTENDS ClientIdentity, GameLibrary, StreamRequest, HostList, Lifecycle, SequenceTheorems, FiniteSetTheorems, WellFoundedInduction, TLAPS

(***************************************************************************)
(* The identity.  A key on the card belongs to the certificate beside it,  *)
(* and is never there without one, because the certificate is written      *)
(* first and both are made anew only while the key is missing.             *)
(***************************************************************************)
IdentityTypes ==
    /\ iStep \in {"off", "cert", "key", "uid", "load", "ready", "halted"}
    /\ iRuns \in Nat /\ {iCert, iKey, iUid} \subseteq Nat \cup {Missing, Truncated}
    /\ s_uid \in Nat \cup {Missing} /\ iFirst \in (Nat \cup {Missing}) \X (Nat \cup {Missing}) \X (Nat \cup {Missing})
    /\ iUidLost \in BOOLEAN

KeyFollowsCert ==
    /\ iKey # Missing => iCert # Missing
    /\ iKey \notin {Missing, Truncated} => iCert = iKey

\* Where the files are in the order they are made and read.
FilesMade ==
    /\ iStep \in {"cert", "key"} => iKey = Missing
    /\ iStep = "key" => iCert = iRuns
    /\ iStep = "uid" => iCert = iRuns /\ iKey = iRuns
    /\ iStep \in {"load", "ready"} => Missing \notin {iCert, iKey}
    /\ iStep \in {"cert", "key", "uid", "load", "ready"} => s_uid # Missing

\* A client that was ready once never makes an identity again; unless it could not write the id,
\* the id in memory is the one on the card.
IdentityKept ==
    /\ iFirst # NotReady =>
          /\ iFirst[1] = iCert /\ iFirst[2] = iKey /\ iKey \notin {Missing, Truncated}
          /\ iStep \notin {"cert", "key", "uid"}
          /\ iUidLost \/ (iUid = iFirst[3] /\ ValidUid)
    /\ iStep \in {"load", "ready"} => iUidLost \/ (iUid = s_uid /\ ValidUid)
    /\ iStep = "ready" => iFirst # NotReady

IdentityIInv == IdentityTypes /\ KeyFollowsCert /\ FilesMade /\ IdentityKept

LEMMA IdentityInitInv == IdentityInit => IdentityIInv
<1> SUFFICES ASSUME IdentityInit PROVE IdentityIInv
  OBVIOUS
<1>1. IdentityTypes
  BY DEF IdentityInit, IdentityTypes, NotReady
<1>2. KeyFollowsCert /\ FilesMade /\ IdentityKept
  BY DEF IdentityInit, KeyFollowsCert, FilesMade, IdentityKept
<1> QED BY <1>1, <1>2 DEF IdentityIInv

LEMMA IdentityStep == IdentityIInv /\ [IdentityNext]_identityVars => IdentityIInv'
<1> SUFFICES ASSUME IdentityIInv, [IdentityNext]_identityVars PROVE IdentityIInv'
  OBVIOUS
<1> USE DEF IdentityIInv, IdentityTypes, KeyFollowsCert, FilesMade, IdentityKept, ValidUid, Missing, Truncated, fileVars
<1>1. CASE BootWithFiles
  <2>1. CASE ValidUid
    BY <1>1, <2>1 DEF BootWithFiles
  <2>2. CASE ~ValidUid
    <3>1. s_uid' = 0 /\ iUid' \in {0, iUid} /\ iStep' = "load" /\ UNCHANGED <<iCert, iKey, iRuns, iFirst>>
      BY <1>1, <2>2 DEF BootWithFiles, LEGACY_UID_VALUE
    <3>2. iUidLost' \in BOOLEAN /\ (iUidLost => iUidLost') /\ (iUid' # 0 => iUidLost')
      BY <1>1, <2>2 DEF BootWithFiles, LEGACY_UID_VALUE
    <3>3. Missing \notin {iCert, iKey}
      BY <1>1 DEF BootWithFiles
    <3>4. iFirst # NotReady => iUidLost
      BY <2>2
    <3> QED BY <3>1, <3>2, <3>3, <3>4
  <2> QED BY <2>1, <2>2
<1>2. CASE BootGenerates
  BY <1>2 DEF BootGenerates
<1>3. CASE WriteCert
  BY <1>3 DEF WriteCert
<1>4. CASE WriteKey
  BY <1>4 DEF WriteKey
<1>5. CASE WriteFails
  BY <1>5 DEF WriteFails
<1>6. CASE Load
  <2>1. CASE iStep' = "halted"
    BY <1>6, <2>1 DEF Load
  <2>2. CASE iStep' = "ready" /\ iFirst = NotReady
    <3>1. iFirst' = <<iCert, iKey, s_uid>> /\ iCert = iKey /\ iKey \in Nat
      BY <1>6, <2>2 DEF Load
    <3>2. iFirst' # NotReady /\ iFirst'[1] = iCert /\ iFirst'[2] = iKey /\ iFirst'[3] = s_uid
      BY <3>1 DEF NotReady
    <3> QED BY <1>6, <2>2, <3>1, <3>2 DEF Load
  <2>3. CASE iStep' = "ready" /\ iFirst # NotReady
    BY <1>6, <2>3 DEF Load
  <2> QED BY <1>6, <2>1, <2>2, <2>3 DEF Load
<1>7. CASE EndOfPower
  <2>1. /\ iStep' = "off" /\ s_uid' = Missing /\ UNCHANGED <<iRuns, iFirst, iUidLost>>
        /\ iCert' # iCert => iStep = "cert" /\ iCert' = Truncated
        /\ iKey' # iKey => iStep = "key" /\ iKey' = Truncated
        /\ iUid' # iUid => iStep = "uid" /\ iUid' = Truncated
    BY <1>7 DEF EndOfPower
  <2>2. IdentityTypes'
    BY <2>1
  <2>3. KeyFollowsCert' /\ FilesMade'
    BY <2>1
  <2>4. IdentityKept'
    BY <2>1
  <2> QED BY <2>2, <2>3, <2>4
<1>8. ASSUME NEW written \in BOOLEAN, WriteUid(written) PROVE IdentityIInv'
  <2>1. /\ iStep = "uid" /\ iStep' = "load" /\ UNCHANGED <<iCert, iKey, s_uid, iRuns, iFirst>>
        /\ iUid' \in {s_uid, iUid, Truncated} /\ iUidLost' \in BOOLEAN
        /\ ~iUidLost' => iUid' = s_uid
    <3>1. CASE written
      BY <1>8, <3>1 DEF WriteUid
    <3>2. CASE ~written
      BY <1>8, <3>2 DEF WriteUid
    <3> QED BY <3>1, <3>2
  <2>2. iFirst = NotReady /\ s_uid \in Nat
    BY <2>1
  <2> QED BY <2>1, <2>2
<1>9. CASE NoMoreRuns \/ UNCHANGED identityVars
  BY <1>9 DEF NoMoreRuns, identityVars
<1> QED BY <1>1, <1>2, <1>3, <1>4, <1>5, <1>6, <1>7, <1>8, <1>9 DEF IdentityNext

(***************************************************************************)
(* However often power fails and a write fails while client_identity_      *)
(* ensure makes the three files, a client that starts is the one the hosts *)
(* paired with.                                                            *)
(***************************************************************************)
THEOREM IdentityIsStable == IdentityInit /\ [][IdentityNext]_identityVars => []IdentityStable
<1>1. IdentityIInv => IdentityStable
  BY DEF IdentityIInv, IdentityTypes, KeyFollowsCert, FilesMade, IdentityKept, IdentityStable, Missing, Truncated
<1> QED BY <1>1, IdentityInitInv, IdentityStep, PTL

(***************************************************************************)
(* The list of games: what the tiles, the buffers and the cache have to do *)
(* with each other.                                                        *)
(***************************************************************************)

Listed == [app : AppIds, url : Urls]
Arts == [app : AppIds, url : Urls \cup {FallbackArt}]
Tiles == [app : AppIds, url : Urls, host : GameHosts \cup {NoHost}, icon : Nat]
Entries == [url : Urls \cup {"none"}, old : BOOLEAN]

GameTypeOK ==
    /\ gScreen \in {"away", "icons", "grid"}
    /\ s_cached_host \in GameHosts \cup {NoHost}
    /\ gGames \in Seq(Listed) /\ s_tiles \in Seq(Tiles) /\ s_icon_pool \in Seq(Arts)
    /\ gRaw \in [AppIds -> Urls \cup {"none", "torn"}] /\ gIndex \in [AppIds -> Entries] /\ gIndexFile \in [AppIds -> Entries]
    /\ gUnsaved \subseteq AppIds

\* While icons are assigned, the tiles are those of the first games of the list.
Assigning ==
    gScreen = "icons" =>
        /\ gGames \in Listings /\ Len(s_tiles) < Len(gGames)
        /\ \A i \in 1 .. Len(s_tiles) : s_tiles[i].app = gGames[i].app

\* The index, here and on the memory stick, names the art that is in the file.
IndexHonest ==
    \A a \in AppIds \ gUnsaved :
        /\ gIndex[a] # NoEntry => gRaw[a] = gIndex[a].url
        /\ gIndexFile[a] # NoEntry => gRaw[a] = gIndexFile[a].url

\* A tile with its buffer, and no two tiles with one.
TileSound(t, host, pool, unsaved) ==
    /\ t.host = host
    /\ t.icon # Default =>
          /\ t.icon <= Len(pool)
          /\ pool[t.icon].app = t.app
          /\ t.url # NoUrl /\ t.app \notin unsaved => pool[t.icon].url \in {t.url, FallbackArt}
Shown ==
    /\ \A i \in 1 .. Len(s_tiles) : TileSound(s_tiles[i], s_cached_host, s_icon_pool, gUnsaved)
    /\ \A i, j \in 1 .. Len(s_tiles) : i # j /\ s_tiles[i].icon = s_tiles[j].icon => s_tiles[i].icon = Default

GameIInv == GameTypeOK /\ Assigning /\ IndexHonest /\ Shown

\* The invariant gives what the tiles promise (art on the stick may be torn, art in a buffer never).
LEMMA ShownIsSound == GameIInv => TilesSound
<1> SUFFICES ASSUME GameIInv PROVE TilesSound
  OBVIOUS
<1>1. s_tiles \in Seq(Tiles) /\ s_icon_pool \in Seq(Arts) /\ DOMAIN s_tiles = 1 .. Len(s_tiles)
  BY DEF GameIInv, GameTypeOK
<1>2. ASSUME NEW i \in DOMAIN s_tiles
      PROVE  /\ s_tiles[i].host = s_cached_host
             /\ s_tiles[i].icon # Default =>
                LET art == s_icon_pool[s_tiles[i].icon] IN
                /\ art.app = s_tiles[i].app
                /\ art.url # "torn"
                /\ s_tiles[i].url # NoUrl /\ s_tiles[i].app \notin gUnsaved =>
                      art.url \in {s_tiles[i].url, FallbackArt}
  <2>1. TileSound(s_tiles[i], s_cached_host, s_icon_pool, gUnsaved) /\ s_tiles[i] \in Tiles
    BY <1>1 DEF GameIInv, Shown
  <2>2. CASE s_tiles[i].icon # Default
    <3>1. s_tiles[i].icon \in 1 .. Len(s_icon_pool)
      BY <1>1, <2>1, <2>2 DEF TileSound, Tiles, Default
    <3>2. s_icon_pool[s_tiles[i].icon].url # "torn"
      <4>1. s_icon_pool[s_tiles[i].icon] \in Arts
        BY <1>1, <3>1
      <4> QED BY <4>1, GameAssumption DEF Arts, FallbackArt
    <3> QED BY <2>1, <2>2, <3>2 DEF TileSound
  <2>3. CASE s_tiles[i].icon = Default
    BY <2>1, <2>3 DEF TileSound
  <2> QED BY <2>2, <2>3
<1> QED BY <1>1, <1>2 DEF GameIInv, Shown, TilesSound

\* Before the first list there is neither tile nor cached art.
LEMMA GameInitInv == GameInit => GameIInv
<1> SUFFICES ASSUME GameInit PROVE GameIInv
  OBVIOUS
<1>1. gGames = <<>> /\ s_tiles = <<>> /\ s_icon_pool = <<>> /\ gScreen = "away" /\ gUnsaved = {} /\ s_cached_host = NoHost
  BY DEF GameInit
<1>2. gRaw \in [AppIds -> Urls \cup {"none", "torn"}] /\ gIndex \in [AppIds -> Entries] /\ gIndexFile \in [AppIds -> Entries]
  <2>1. NoEntry \in Entries
    BY DEF NoEntry, Entries
  <2> QED BY <2>1 DEF GameInit, EmptyIndex
<1>3. GameTypeOK
  BY <1>1, <1>2 DEF GameTypeOK
<1>4. IndexHonest
  BY DEF GameInit, IndexHonest, EmptyIndex
<1> QED BY <1>1, <1>3, <1>4 DEF GameIInv, Assigning, Shown

\* A list that was fetched starts with no tile.
LEMMA FetchKeeps ==
  ASSUME GameIInv, NEW l \in Listings \cup {<<>>}, Fetch(l),
         s_cached_host' \in GameHosts \cup {NoHost},
         gScreen' \in {"away", "icons", "grid"}, gScreen' = "icons" => l \in Listings /\ l # <<>>
  PROVE  GameIInv'
<1>1. /\ s_icon_pool' = <<>> /\ s_tiles' = <<>> /\ gGames' = l
      /\ UNCHANGED <<gRaw, gIndex, gIndexFile, gUnsaved>>
  BY DEF Fetch, cacheVars
<1>2. l \in Seq(Listed)
  <2>1. CASE l = <<>>
    BY <2>1
  <2>2. CASE l \in Listings
    BY <2>2, GameAssumption DEF Listed
  <2> QED BY <2>1, <2>2
<1>3. GameTypeOK'
  BY <1>1, <1>2 DEF GameIInv, GameTypeOK
<1>4. Assigning'
  <2>1. gScreen' = "icons" => Len(l) > 0
    BY <1>2
  <2> QED BY <1>1, <2>1 DEF Assigning
<1>5. IndexHonest'
  BY <1>1 DEF GameIInv, IndexHonest
<1>6. Shown'
  BY <1>1 DEF Shown
<1> QED BY <1>3, <1>4, <1>5, <1>6 DEF GameIInv

\* The next tile of the list keeps the tiles sound, whatever it shows, as long as its buffer is its
\* own and holds its own art.
LEMMA TileKeeps ==
  ASSUME GameTypeOK, Assigning, Shown, gScreen = "icons", NEW art \in Arts, NEW icon \in Nat,
         s_tiles' = Append(s_tiles, [app |-> Current.app, url |-> Current.url, host |-> s_cached_host, icon |-> icon]),
         \/ icon = Default /\ s_icon_pool' = s_icon_pool
         \/ icon = Len(s_icon_pool) + 1 /\ s_icon_pool' = Append(s_icon_pool, art),
         Advance, UNCHANGED s_cached_host,
         gUnsaved' \subseteq AppIds, gUnsaved \ {Current.app} \subseteq gUnsaved',
         art.app = Current.app,
         Current.url # NoUrl /\ Current.app \notin gUnsaved' => art.url \in {Current.url, FallbackArt}
  PROVE  /\ Assigning' /\ Shown'
         /\ gScreen' \in {"icons", "grid"} /\ gGames' \in Seq(Listed) /\ s_tiles' \in Seq(Tiles) /\ s_icon_pool' \in Seq(Arts)
<1> DEFINE tile == [app |-> Current.app, url |-> Current.url, host |-> s_cached_host, icon |-> icon]
           n == Len(s_tiles)
<1>1. /\ s_tiles \in Seq(Tiles) /\ s_icon_pool \in Seq(Arts) /\ gGames \in Seq(Listed) /\ n \in Nat /\ n < Len(gGames)
      /\ gGames \in Listings
  BY DEF GameTypeOK, Assigning
<1>2. Current = gGames[n + 1] /\ Current \in Listed
  BY <1>1 DEF Current
<1>3. tile \in Tiles
  BY <1>2 DEF Tiles, Listed, GameTypeOK
<1>4. s_tiles' = Append(s_tiles, tile) /\ tile.app = Current.app /\ tile.url = Current.url /\ tile.host = s_cached_host /\ tile.icon = icon
  OBVIOUS
<1> HIDE DEF tile
<1>5. /\ s_tiles' \in Seq(Tiles) /\ Len(s_tiles') = n + 1 /\ s_tiles'[n + 1] = tile
      /\ \A i \in 1 .. n : s_tiles'[i] = s_tiles[i]
  BY <1>1, <1>3, <1>4
<1>6. /\ s_icon_pool' \in Seq(Arts) /\ Len(s_icon_pool) <= Len(s_icon_pool')
      /\ \A k \in 1 .. Len(s_icon_pool) : s_icon_pool'[k] = s_icon_pool[k]
      /\ icon # Default => icon = Len(s_icon_pool) + 1 /\ icon = Len(s_icon_pool') /\ s_icon_pool'[icon] = art
  <2>1. CASE icon = Default /\ s_icon_pool' = s_icon_pool
    BY <1>1, <2>1
  <2>2. CASE icon = Len(s_icon_pool) + 1 /\ s_icon_pool' = Append(s_icon_pool, art)
    BY <1>1, <2>2
  <2> QED BY <2>1, <2>2
<1>7. gScreen' \in {"icons", "grid"} /\ gGames' \in Seq(Listed)
  BY <1>1 DEF Advance
<1>8. Assigning'
  <2>1. ASSUME gScreen' = "icons" PROVE gGames' = gGames /\ n + 1 < Len(gGames)
    BY <1>1, <1>5, <2>1 DEF Advance
  <2>2. \A i \in 1 .. n : s_tiles[i].app = gGames[i].app
    BY DEF Assigning
  <2>3. \A i \in 1 .. n + 1 : s_tiles'[i].app = gGames[i].app
    <3> SUFFICES ASSUME NEW i \in 1 .. n + 1 PROVE s_tiles'[i].app = gGames[i].app
      OBVIOUS
    <3>1. CASE i = n + 1
      BY <1>2, <1>4, <1>5, <3>1
    <3>2. CASE i \in 1 .. n
      BY <1>5, <2>2, <3>2
    <3> QED BY <1>1, <3>1, <3>2
  <2> QED BY <1>1, <1>5, <2>1, <2>3 DEF Assigning
<1>9. \A i \in 1 .. n : s_tiles[i].app # Current.app
  <2> SUFFICES ASSUME NEW i \in 1 .. n PROVE s_tiles[i].app # Current.app
    OBVIOUS
  <2>1. s_tiles[i].app = gGames[i].app /\ i \in DOMAIN gGames /\ n + 1 \in DOMAIN gGames /\ i # n + 1
    BY <1>1 DEF Assigning
  <2> QED BY <1>1, <1>2, <2>1, GameAssumption
<1>10. \A i \in 1 .. n : s_tiles[i] \in Tiles /\ TileSound(s_tiles[i], s_cached_host, s_icon_pool, gUnsaved)
  BY <1>1 DEF Shown
<1>11. \A i \in 1 .. n + 1 : TileSound(s_tiles'[i], s_cached_host', s_icon_pool', gUnsaved')
  <2> SUFFICES ASSUME NEW i \in 1 .. n + 1 PROVE TileSound(s_tiles'[i], s_cached_host', s_icon_pool', gUnsaved')
    OBVIOUS
  <2>1. CASE i = n + 1
    <3>1. s_tiles'[i] = tile
      BY <1>5, <2>1
    <3>2. TileSound(tile, s_cached_host', s_icon_pool', gUnsaved')
      BY <1>4, <1>6 DEF TileSound
    <3> QED BY <3>1, <3>2
  <2>2. CASE i \in 1 .. n
    <3> DEFINE t == s_tiles[i]
    <3>1. s_tiles'[i] = t /\ t \in Tiles /\ TileSound(t, s_cached_host, s_icon_pool, gUnsaved) /\ t.app # Current.app
      BY <1>5, <1>9, <1>10, <2>2
    <3> HIDE DEF t
    <3>2. t.app \notin gUnsaved' => t.app \notin gUnsaved
      BY <3>1
    <3>3. t.icon # Default => t.icon \in 1 .. Len(s_icon_pool)
      BY <1>1, <3>1 DEF TileSound, Tiles, Default
    <3>4. TileSound(t, s_cached_host', s_icon_pool', gUnsaved')
      <4>1. t.host = s_cached_host'
        BY <3>1 DEF TileSound
      <4>2. ASSUME t.icon # Default
            PROVE  /\ t.icon <= Len(s_icon_pool')
                   /\ s_icon_pool'[t.icon].app = t.app
                   /\ t.url # NoUrl /\ t.app \notin gUnsaved' => s_icon_pool'[t.icon].url \in {t.url, FallbackArt}
        BY <1>1, <1>6, <3>1, <3>2, <3>3, <4>2 DEF TileSound
      <4> QED BY <4>1, <4>2 DEF TileSound
    <3> QED BY <3>1, <3>4
  <2> QED BY <1>1, <2>1, <2>2
<1>12. \A i, j \in 1 .. n + 1 : i # j /\ s_tiles'[i].icon = s_tiles'[j].icon => s_tiles'[i].icon = Default
  <2>1. \A i \in 1 .. n : s_tiles'[i].icon = s_tiles[i].icon /\ (s_tiles[i].icon # Default => s_tiles[i].icon # icon)
    <3> SUFFICES ASSUME NEW i \in 1 .. n
                 PROVE  s_tiles'[i].icon = s_tiles[i].icon /\ (s_tiles[i].icon # Default => s_tiles[i].icon # icon)
      OBVIOUS
    <3>1. s_tiles[i].icon # Default => s_tiles[i].icon \in Nat /\ s_tiles[i].icon <= Len(s_icon_pool)
      BY <1>10 DEF TileSound, Tiles
    <3> QED BY <1>1, <1>5, <1>6, <3>1
  <2>2. s_tiles'[n + 1].icon = icon
    BY <1>4, <1>5
  <2>3. \A i \in 1 .. n + 1 : i = n + 1 \/ i \in 1 .. n
    BY <1>1
  <2> QED BY <2>1, <2>2, <2>3 DEF Shown
<1>13. Shown'
  BY <1>5, <1>11, <1>12 DEF Shown
<1> QED BY <1>5, <1>6, <1>7, <1>8, <1>13

\* The application whose icon is next is one of the list.
LEMMA CurrentListed ==
  ASSUME GameIInv, gScreen = "icons"
  PROVE  Current \in Listed
<1>1. gGames \in Seq(Listed) /\ s_tiles \in Seq(Tiles) /\ Len(s_tiles) < Len(gGames)
  BY DEF GameIInv, GameTypeOK, Assigning
<1>2. Len(s_tiles) + 1 \in 1 .. Len(gGames)
  BY <1>1
<1> QED BY <1>1, <1>2, ElementOfSeq DEF Current

\* What an assigned icon does to the art, the files and the index.
LEMMA IconFromCacheKeeps ==
  ASSUME GameIInv, IconFromCache
  PROVE  GameIInv'
<1>1. /\ gScreen = "icons" /\ ~Stale(Current) /\ Cached(Current)
      /\ TakesSlot([app |-> Current.app, url |-> gRaw[Current.app]])
      /\ UNCHANGED <<s_cached_host, gRaw, gIndex, gIndexFile, gUnsaved>>
  BY DEF IconFromCache, gridVars, cacheVars
<1>2. Current \in Listed /\ GameTypeOK /\ Assigning /\ Shown /\ IndexHonest
  BY <1>1, CurrentListed DEF GameIInv
<1> DEFINE art == [app |-> Current.app, url |-> gRaw[Current.app]]
<1>3. art \in Arts /\ art.app = Current.app /\ art.url = gRaw[Current.app]
  BY <1>1, <1>2 DEF GameTypeOK, Cached, Arts, Listed
<1>4. Current.url # NoUrl /\ Current.app \notin gUnsaved => art.url = Current.url
  BY <1>1, <1>2, <1>3 DEF Stale, IndexHonest, Listed
<1>5. /\ s_tiles' = Append(s_tiles, [app |-> Current.app, url |-> Current.url, host |-> s_cached_host, icon |-> Len(s_icon_pool) + 1])
      /\ s_icon_pool' = Append(s_icon_pool, art) /\ Advance
  BY <1>1 DEF TakesSlot
<1>6. Len(s_icon_pool) + 1 \in Nat
  BY <1>2 DEF GameTypeOK
<1> HIDE DEF art
<1>7. /\ Assigning' /\ Shown'
      /\ gScreen' \in {"icons", "grid"} /\ gGames' \in Seq(Listed) /\ s_tiles' \in Seq(Tiles) /\ s_icon_pool' \in Seq(Arts)
  BY <1>1, <1>2, <1>3, <1>4, <1>5, <1>6, TileKeeps DEF GameTypeOK
<1>8. GameTypeOK'
  BY <1>1, <1>2, <1>7 DEF GameTypeOK
<1>9. IndexHonest'
  BY <1>1, <1>2 DEF IndexHonest
<1> QED BY <1>7, <1>8, <1>9 DEF GameIInv

\* Art that arrives is entered in the index, whether or not the two files could be written.
LEMMA IconDownloadedKeeps ==
  ASSUME GameIInv, NEW rawOpened \in BOOLEAN, NEW indexOpened \in BOOLEAN, IconDownloaded(rawOpened, indexOpened)
  PROVE  GameIInv'
<1>1. /\ gScreen = "icons"
      /\ TakesSlot(Current)
      /\ gRaw' = IF rawOpened THEN [gRaw EXCEPT ![Current.app] = Current.url] ELSE gRaw
      /\ gUnsaved' = IF rawOpened /\ indexOpened THEN gUnsaved \ {Current.app} ELSE gUnsaved \cup {Current.app}
      /\ gIndex' = [gIndex EXCEPT ![Current.app] = [url |-> Current.url, old |-> FALSE]]
      /\ gIndexFile' = IF indexOpened THEN gIndex' ELSE gIndexFile
      /\ s_cached_host' = s_cached_host
  BY DEF IconDownloaded, NeedsDownload, gridVars
<1>2. Current \in Listed /\ GameTypeOK /\ Assigning /\ Shown /\ IndexHonest
  BY <1>1, CurrentListed DEF GameIInv
<1>3. Current \in Arts /\ Current.app \in AppIds /\ Current.url \in Urls
  BY <1>2 DEF Listed, Arts
<1>4. /\ s_tiles' = Append(s_tiles, [app |-> Current.app, url |-> Current.url, host |-> s_cached_host, icon |-> Len(s_icon_pool) + 1])
      /\ s_icon_pool' = Append(s_icon_pool, Current) /\ Advance
  BY <1>1 DEF TakesSlot
<1>5. Len(s_icon_pool) + 1 \in Nat
  BY <1>2 DEF GameTypeOK
<1>6. gUnsaved' \subseteq AppIds /\ gUnsaved \ {Current.app} \subseteq gUnsaved'
  BY <1>1, <1>2, <1>3 DEF GameTypeOK
<1>7. /\ Assigning' /\ Shown'
      /\ gScreen' \in {"icons", "grid"} /\ gGames' \in Seq(Listed) /\ s_tiles' \in Seq(Tiles) /\ s_icon_pool' \in Seq(Arts)
  BY <1>1, <1>2, <1>3, <1>4, <1>5, <1>6, TileKeeps
<1> DEFINE entry == [url |-> Current.url, old |-> FALSE]
<1>8. entry \in Entries /\ entry.url = Current.url
  BY <1>3 DEF Entries
<1>9. gIndex' = [gIndex EXCEPT ![Current.app] = entry]
  BY <1>1
<1> HIDE DEF entry
<1>10. GameTypeOK'
  BY <1>1, <1>2, <1>3, <1>6, <1>7, <1>8, <1>9 DEF GameTypeOK
<1>11. IndexHonest'
  <2> SUFFICES ASSUME NEW a \in AppIds \ gUnsaved'
               PROVE  /\ gIndex'[a] # NoEntry => gRaw'[a] = gIndex'[a].url
                      /\ gIndexFile'[a] # NoEntry => gRaw'[a] = gIndexFile'[a].url
    BY DEF IndexHonest
  <2>1. CASE a = Current.app
    <3>1. rawOpened /\ indexOpened
      BY <1>1, <2>1
    <3>2. gRaw'[a] = Current.url /\ gIndex'[a] = entry /\ gIndexFile' = gIndex'
      BY <1>1, <1>2, <1>9, <2>1, <3>1 DEF GameTypeOK
    <3> QED BY <1>8, <3>2
  <2>2. CASE a # Current.app
    <3>1. a \in AppIds \ gUnsaved
      BY <1>6, <2>2
    <3>2. gRaw'[a] = gRaw[a] /\ gIndex'[a] = gIndex[a] /\ gIndexFile'[a] \in {gIndex[a], gIndexFile[a]}
      BY <1>1, <1>2, <1>9, <2>2 DEF GameTypeOK
    <3> QED BY <1>2, <3>1, <3>2 DEF IndexHonest
  <2> QED BY <2>1, <2>2
<1> QED BY <1>7, <1>10, <1>11 DEF GameIInv

\* Art that does not arrive leaves an embedded icon or the default.
LEMMA IconMissingKeeps ==
  ASSUME GameIInv, IconMissing
  PROVE  GameIInv'
<1>1. /\ gScreen = "icons"
      /\ UNCHANGED <<s_cached_host, gRaw, gIndex, gIndexFile, gUnsaved>>
  BY DEF IconMissing, NeedsDownload, gridVars, cacheVars
<1>2. Current \in Listed /\ GameTypeOK /\ Assigning /\ Shown /\ IndexHonest
  BY <1>1, CurrentListed DEF GameIInv
<1> DEFINE art == [app |-> Current.app, url |-> FallbackArt]
<1>3. art \in Arts /\ art.app = Current.app /\ art.url = FallbackArt
  BY <1>2 DEF Arts, Listed
<1>4. \E icon \in Nat :
         /\ s_tiles' = Append(s_tiles, [app |-> Current.app, url |-> Current.url, host |-> s_cached_host, icon |-> icon])
         /\ \/ icon = Default /\ s_icon_pool' = s_icon_pool
            \/ icon = Len(s_icon_pool) + 1 /\ s_icon_pool' = Append(s_icon_pool, art)
         /\ Advance
  <2>1. CASE Current.app \in Fallbacks /\ SlotFree
    <3>1. Len(s_icon_pool) + 1 \in Nat
      BY <1>2 DEF GameTypeOK
    <3>2. TakesSlot(art)
      BY <2>1 DEF IconMissing
    <3> QED BY <3>1, <3>2 DEF TakesSlot
  <2>2. CASE ~(Current.app \in Fallbacks /\ SlotFree)
    <3>1. /\ s_tiles' = Append(s_tiles, [app |-> Current.app, url |-> Current.url, host |-> s_cached_host, icon |-> Default])
          /\ Advance /\ UNCHANGED s_icon_pool
      BY <2>2 DEF IconMissing
    <3>2. Default \in Nat
      BY DEF Default
    <3> QED BY <3>1, <3>2
  <2> QED BY <2>1, <2>2
<1> HIDE DEF art
<1>5. /\ Assigning' /\ Shown'
      /\ gScreen' \in {"icons", "grid"} /\ gGames' \in Seq(Listed) /\ s_tiles' \in Seq(Tiles) /\ s_icon_pool' \in Seq(Arts)
  BY <1>1, <1>2, <1>3, <1>4, TileKeeps DEF GameTypeOK
<1>6. GameTypeOK'
  BY <1>1, <1>2, <1>5 DEF GameTypeOK
<1>7. IndexHonest'
  BY <1>1, <1>2 DEF IndexHonest
<1> QED BY <1>5, <1>6, <1>7 DEF GameIInv

\* A week that passes makes the entries old and leaves what they name.
LEMMA WeekKeeps ==
  ASSUME GameIInv, WeekPasses
  PROVE  GameIInv'
<1> DEFINE aged(index) == [a \in AppIds |-> IF index[a] = NoEntry THEN NoEntry ELSE [index[a] EXCEPT !.old = TRUE]]
<1>1. ASSUME NEW index \in [AppIds -> Entries]
      PROVE  /\ aged(index) \in [AppIds -> Entries]
             /\ \A a \in AppIds : aged(index)[a] # NoEntry => index[a] # NoEntry /\ aged(index)[a].url = index[a].url
  <2>1. \A e \in Entries : [e EXCEPT !.old = TRUE] \in Entries /\ [e EXCEPT !.old = TRUE].url = e.url
    BY DEF Entries
  <2>2. NoEntry \in Entries
    BY DEF NoEntry, Entries
  <2> QED BY <2>1, <2>2
<1>2. /\ gIndex' = aged(gIndex) /\ gIndexFile' = aged(gIndexFile) /\ gScreen = "away"
      /\ UNCHANGED <<gScreen, s_cached_host, gGames, s_tiles, s_icon_pool, gRaw, gUnsaved>>
  BY DEF WeekPasses, gridVars
<1> HIDE DEF aged
<1>3. gIndex \in [AppIds -> Entries] /\ gIndexFile \in [AppIds -> Entries]
  BY DEF GameIInv, GameTypeOK
<1>4. GameTypeOK'
  BY <1>1, <1>2, <1>3 DEF GameIInv, GameTypeOK
<1>5. IndexHonest'
  BY <1>1, <1>2, <1>3 DEF GameIInv, IndexHonest
<1>6. Assigning' /\ Shown'
  BY <1>2 DEF GameIInv, Assigning, Shown
<1> QED BY <1>4, <1>5, <1>6 DEF GameIInv

\* Power may fail while art is written, or while the index is.
LEMMA PowerKeeps ==
  ASSUME GameIInv, ArtLosesPower \/ IndexLosesPower
  PROVE  GameIInv'
<1>1. /\ gScreen' = "away" /\ s_cached_host' = NoHost
      /\ gGames' = <<>> /\ s_tiles' = <<>> /\ s_icon_pool' = <<>> /\ gScreen = "icons"
  BY DEF ArtLosesPower, IndexLosesPower, Off, NeedsDownload
<1>2. Current \in Listed /\ Current.app \in AppIds /\ Current.url \in Urls /\ GameTypeOK /\ IndexHonest
  BY <1>1, CurrentListed DEF GameIInv, Listed
<1>3. Assigning' /\ Shown'
  BY <1>1 DEF Assigning, Shown
<1>31. gGames' \in Seq(Listed) /\ s_tiles' \in Seq(Tiles) /\ s_icon_pool' \in Seq(Arts)
  BY <1>1
<1>32. gScreen' \in {"away", "icons", "grid"} /\ s_cached_host' \in GameHosts \cup {NoHost}
  BY <1>1
<1>4. CASE ArtLosesPower
  <2>1. PICK art \in {"torn", Current.url} : gRaw' = [gRaw EXCEPT ![Current.app] = art]
    BY <1>4 DEF ArtLosesPower
  <2>2. gIndex' = gIndexFile /\ gIndexFile' = gIndexFile /\ gUnsaved' = gUnsaved \cup {Current.app}
    BY <1>4 DEF ArtLosesPower
  <2>21. gRaw' \in [AppIds -> Urls \cup {"none", "torn"}]
    <3>1. art \in Urls \cup {"none", "torn"}
      BY <1>2, <2>1
    <3>2. gRaw \in [AppIds -> Urls \cup {"none", "torn"}]
      BY <1>2 DEF GameTypeOK
    <3> QED BY <1>2, <2>1, <3>1, <3>2
  <2>22. gIndex' \in [AppIds -> Entries] /\ gIndexFile' \in [AppIds -> Entries] /\ gUnsaved' \subseteq AppIds
    BY <1>2, <2>2 DEF GameTypeOK
  <2>3. GameTypeOK'
    BY <1>31, <1>32, <2>21, <2>22 DEF GameTypeOK
  <2>4. IndexHonest'
    BY <1>2, <2>1, <2>2 DEF GameTypeOK, IndexHonest
  <2> QED BY <1>3, <2>3, <2>4 DEF GameIInv
<1>5. CASE IndexLosesPower
  <2>1. /\ gRaw' = [gRaw EXCEPT ![Current.app] = Current.url] /\ gUnsaved' = gUnsaved \ {Current.app}
        /\ gIndexFile' = EmptyIndex /\ gIndex' = EmptyIndex
    BY <1>5 DEF IndexLosesPower
  <2>2. EmptyIndex \in [AppIds -> Entries] /\ \A a \in AppIds : EmptyIndex[a] = NoEntry
    BY DEF EmptyIndex, NoEntry, Entries
  <2>3. GameTypeOK'
    BY <1>31, <1>32, <1>2, <2>1, <2>2 DEF GameTypeOK
  <2>4. IndexHonest'
    BY <2>1, <2>2 DEF IndexHonest
  <2> QED BY <1>3, <2>3, <2>4 DEF GameIInv
<1> QED BY <1>4, <1>5

\* Every step of the list of games keeps the invariant.
LEMMA GameStep == GameIInv /\ [GameNext]_gameVars => GameIInv'
<1> SUFFICES ASSUME GameIInv, [GameNext]_gameVars PROVE GameIInv'
  OBVIOUS
<1>0. s_cached_host \in GameHosts \cup {NoHost} /\ gScreen \in {"away", "icons", "grid"}
  BY DEF GameIInv, GameTypeOK
<1>1. CASE IconFromCache
  BY <1>1, IconFromCacheKeeps
<1>2. CASE IconMissing
  BY <1>2, IconMissingKeeps
<1>3. CASE WeekPasses
  BY <1>3, WeekKeeps
<1>4. CASE ArtLosesPower \/ IndexLosesPower
  BY <1>4, PowerKeeps
<1>5. ASSUME NEW rawOpened \in BOOLEAN, NEW indexOpened \in BOOLEAN, IconDownloaded(rawOpened, indexOpened) PROVE GameIInv'
  BY <1>5, IconDownloadedKeeps
<1>6. ASSUME gScreen \in {"away", "grid"}, gScreen' \in {"away", "grid"}, s_cached_host' = s_cached_host,
             UNCHANGED <<gGames, s_tiles, s_icon_pool, gRaw, gIndex, gIndexFile, gUnsaved>>
      PROVE  GameIInv'
  BY <1>6 DEF GameIInv, GameTypeOK, Assigning, IndexHonest, Shown
<1>7. CASE LeaveGrid
  BY <1>6, <1>7 DEF LeaveGrid, cacheVars
<1>8. ASSUME NEW d \in {-1, 1}, MoveTile(d) PROVE GameIInv'
  BY <1>6, <1>8 DEF MoveTile, cacheVars
<1>9. ASSUME NEW l \in Listings, Refresh(l) PROVE GameIInv'
  BY <1>0, <1>9, FetchKeeps DEF Refresh
<1>10. ASSUME NEW h \in GameHosts, EnterReuses(h) PROVE GameIInv'
  BY <1>6, <1>10 DEF EnterReuses, cacheVars
<1>11. ASSUME NEW h \in GameHosts, EnterFails(h) PROVE GameIInv'
  BY <1>0, <1>11, FetchKeeps DEF EnterFails
<1>12. ASSUME NEW h \in GameHosts, NEW l \in Listings, EnterFetches(h, l) PROVE GameIInv'
  BY <1>0, <1>12, FetchKeeps DEF EnterFetches
<1>13. CASE UNCHANGED gameVars
  BY <1>13 DEF gameVars, GameIInv, GameTypeOK, Assigning, IndexHonest, Shown
<1> QED BY <1>1, <1>2, <1>3, <1>4, <1>5, <1>7, <1>8, <1>9, <1>10, <1>11, <1>12, <1>13 DEF GameNext

\* Every tile shows its own application with its own art, whatever the lists, the number of buffers
\* and the failures of the memory stick (game_list_download_icons, icon_cache).
THEOREM TilesAreSound == GameInit /\ [][GameNext]_gameVars => []TilesSound
  BY GameInitInv, GameStep, ShownIsSound, PTL

(***************************************************************************)
(* The bitrate.  While the sum of the errors of the controller is small    *)
(* enough, one step of it cannot give back what a burst takes: an update   *)
(* adds 25 to the sum at most, so it is for two hours of updates.          *)
(***************************************************************************)
WindupUpdates == 7200

RateTypes ==
    /\ base_bitrate \in Nat /\ current_bitrate \in Nat /\ adapt_cooldown_cap \in Nat /\ beforeDrop \in Nat
    /\ base_bitrate # 0 => base_bitrate >= BITRATE_MIN_KBPS
    /\ coolLeft \in 0 .. ADAPT_DROP_COOLDOWN /\ greenFor \in -1 .. ADAPT_GREEN_HOLDOFF
    /\ adapt_consecutive_drops \in Nat /\ adapt_drop_events \in Nat

\* What the controller has added up.
Summed ==
    /\ updates \in Nat /\ updates <= MaxUpdates
    /\ pid_integral \in Int /\ pid_integral <= 25 * updates
    /\ pid_error_prev \in -75 .. 25

LinkTypes ==
    /\ s_conn_quality.quality \in EXCELLENT .. CRITICAL /\ s_conn_quality.repair \in 0 .. 100
    /\ decodedFrames \in Nat /\ prevDecoded \in Nat

\* What a burst left holds: it is less than before, or at the floor.
Held ==
    /\ base_bitrate = 0 => coolLeft = 0
    /\ base_bitrate # 0 =>
          /\ current_bitrate >= AdaptiveFloor(base_bitrate) /\ current_bitrate <= base_bitrate
          /\ coolLeft > 0 =>
                /\ adapt_cooldown_cap < beforeDrop \/ adapt_cooldown_cap <= AdaptiveFloor(base_bitrate)
                /\ current_bitrate < beforeDrop \/ current_bitrate = AdaptiveFloor(base_bitrate)

SignalIInv == RateTypes /\ Summed /\ LinkTypes /\ Held

\* The floor is a bitrate the encoder can be set to.
LEMMA FloorFits ==
  ASSUME NEW base \in Nat, base >= BITRATE_MIN_KBPS
  PROVE  AdaptiveFloor(base) \in Nat /\ AdaptiveFloor(base) >= BITRATE_MIN_KBPS /\ AdaptiveFloor(base) <= base
<1> DEFINE fifths == (base * 2) \div 5
<1>1. fifths \in Nat /\ fifths <= base
  OBVIOUS
<1>2. AtLeast(fifths, 224) \in Nat
  BY <1>1 DEF AtLeast
<1> DEFINE floor == IF base <= 256 THEN 96 ELSE IF base <= 320 THEN 128
                    ELSE IF base <= 384 THEN 160 ELSE IF base <= 512 THEN 192 ELSE AtLeast(fifths, 224)
<1>3. floor \in Nat
  BY <1>2
<1>4. AdaptiveFloor(base) = AtLeast(AtMost(AtLeast(floor, ADAPT_STREAM_FLOOR_KBPS), base), BITRATE_MIN_KBPS)
  BY DEF AdaptiveFloor, BITRATE_MIN_KBPS
<1> HIDE DEF floor
<1> QED BY <1>3, <1>4 DEF AtLeast, AtMost, BITRATE_MIN_KBPS, ADAPT_STREAM_FLOOR_KBPS

\* A share in per cent.
LEMMA Share ==
  ASSUME NEW n \in Nat, n > 0, NEW x \in Nat, x <= n
  PROVE  (x * 100) \div n \in 0 .. 100
<1> DEFINE q == (x * 100) \div n
<1>1. q \in Nat /\ n * q <= x * 100
  OBVIOUS
<1>2. ASSUME q >= 101 PROVE FALSE
  <2>1. n * q >= n * 101
    BY <1>1, <1>2
  <2> QED BY <1>1, <2>1
<1> QED BY <1>1, <1>2

\* A share is a natural number.
LEMMA ShareNat ==
  ASSUME NEW n \in Nat, n > 0, NEW x \in Nat
  PROVE  (x * 100) \div n \in Nat
OBVIOUS

\* The share of repairs of a second is one.
LEMMA MeasuredRepair ==
  ASSUME SignalAssumption, LinkTypes, NEW w \in Windows
  PROVE  Measured(w).repair \in 0 .. 100
<1> DEFINE repaired == IF w.attempts = 0 THEN 100 ELSE (AtLeast(w.attempts - w.dropped, 0) * 100) \div w.attempts
           events == w.frames + w.dropped
           shown == AtMost(repaired, (w.frames * 100) \div events)
<1>1. w.attempts \in Nat /\ w.dropped \in Nat /\ w.frames \in Nat
  BY DEF SignalAssumption
<1>2. repaired \in 0 .. 100
  <2>1. AtLeast(w.attempts - w.dropped, 0) \in Nat /\ AtLeast(w.attempts - w.dropped, 0) <= w.attempts
    BY <1>1 DEF AtLeast
  <2>2. CASE w.attempts = 0
    BY <2>2
  <2>3. CASE w.attempts # 0
    BY <1>1, <2>1, <2>3, Share
  <2> QED BY <2>2, <2>3
<1>3. ASSUME events > 0 PROVE shown \in 0 .. 100
  <2>1. (w.frames * 100) \div events \in Nat
    BY <1>1, <1>3, ShareNat
  <2> HIDE DEF repaired
  <2> QED BY <1>2, <2>1 DEF AtMost
<1>4. Measured(w).repair \in {0, 100, repaired} \/ (events > 0 /\ Measured(w).repair = shown)
  BY DEF Measured
<1> HIDE DEF repaired, shown
<1> QED BY <1>2, <1>3, <1>4

\* The judgement is one of the five.
LEMMA JudgedRange == ASSUME NEW w, NEW m PROVE Judged(w, m) \in EXCELLENT .. CRITICAL
BY DEF Judged, AtLeast, EXCELLENT, GOOD, FAIR, POOR, CRITICAL

\* A judgement of the link leaves the bitrate.
LEMMA JudgeKeeps ==
  ASSUME SignalAssumption, SignalIInv, NEW w \in Windows, JudgeLink(w)
  PROVE  SignalIInv'
<1>1. LinkTypes /\ w.frames \in Nat
  BY DEF SignalIInv, SignalAssumption
<1>2. Measured(w).repair \in 0 .. 100
  BY <1>1, MeasuredRepair
<1>3. s_conn_quality'.repair = Measured(w).repair
      /\ s_conn_quality'.quality \in {Judged(w, Measured(w)), s_conn_quality.quality}
  BY DEF JudgeLink
<1>4. decodedFrames' \in Nat /\ prevDecoded' \in Nat
  BY <1>1 DEF JudgeLink, LinkTypes
<1>5. LinkTypes'
  BY <1>1, <1>2, <1>3, <1>4, JudgedRange DEF LinkTypes
<1>6. RateTypes' /\ Summed' /\ Held'
  BY DEF SignalIInv, RateTypes, Summed, Held, JudgeLink
<1> QED BY <1>5, <1>6 DEF SignalIInv

\* The composite quality is a percentage.
LEMMA CompositeRange ==
  ASSUME LinkTypes, NEW percent \in 0 .. 100
  PROVE  Composite(percent) \in 0 .. 100
<1> DEFINE q == s_conn_quality.quality
           r == s_conn_quality.repair
           weighed == percent * 20 + (100 - 25 * q) * 45 + r * 35
<1>1. q \in 0 .. 4 /\ r \in 0 .. 100
  BY DEF LinkTypes, EXCELLENT, CRITICAL
<1>2. Composite(percent) = weighed \div 100
  BY DEF Composite
<1> HIDE DEF q, r
<1>3. weighed \in 0 .. 10000
  BY <1>1
<1> HIDE DEF weighed
<1> QED BY <1>2, <1>3

\* Division towards zero keeps below a bound what is below it.
LEMMA TenthBelow == ASSUME NEW x \in Int PROVE Quotient(100 * x, PID_SCALE) \in Int /\ 10 * Quotient(100 * x, PID_SCALE) <= x + 10
BY DEF Quotient, PID_SCALE
\* The controller's output in kbps, for an output below 31 of them.
LEMMA ThousandthBelow ==
  ASSUME NEW x \in Int, x < 31000
  PROVE  Quotient(x, PID_SCALE) \in Int /\ Quotient(x, PID_SCALE) <= 30
BY DEF Quotient, PID_SCALE

\* One step of the controller adds less than the 32 kbps a burst takes.
LEMMA PidGain ==
  ASSUME pid_error_prev \in -75 .. 25, NEW error \in -75 .. 25, NEW sum \in Int, sum <= 25 * WindupUpdates
  PROVE  PidDelta(error, sum) \in Int /\ PidDelta(error, sum) <= 30
<1> DEFINE tenth == Quotient(100 * sum, PID_SCALE)
           x == 300 * error + tenth + 50 * (error - pid_error_prev)
           q == Quotient(x, PID_SCALE)
<1>1. tenth \in Int /\ 10 * tenth <= sum + 10
  BY TenthBelow
<1>2. PidDelta(error, sum) = AtLeast(AtMost(q, PID_MAX_DELTA_KBPS), -PID_MAX_DELTA_KBPS)
  BY DEF PidDelta
<1> HIDE DEF tenth
<1>3. x \in Int /\ x < 31000
  BY <1>1 DEF WindupUpdates
<1> HIDE DEF x
<1>4. q \in Int /\ q <= 30
  BY <1>3, ThousandthBelow
<1> HIDE DEF q
<1> QED BY <1>2, <1>4 DEF AtLeast, AtMost, PID_MAX_DELTA_KBPS

\* What a burst leaves of a bitrate the controller has just raised.
LEMMA DroppedRange ==
  ASSUME NEW rate \in Nat, NEW floor \in Nat, adapt_drop_events \in Nat, adapt_consecutive_drops \in Nat
  PROVE  /\ FastDrop(rate, floor) \in Nat /\ FastDrop(rate, floor) <= rate
         /\ DropWindow(rate, floor) \in Nat /\ (DropWindow(rate, floor) <= rate \/ DropWindow(rate, floor) = floor)
<1> DEFINE eighth == rate \div (IF adapt_drop_events >= 3 THEN 4 ELSE 8)
           half == rate \div 2
<1>1. eighth \in Nat /\ half \in Nat
  OBVIOUS
<1>2. FastDrop(rate, floor) = IF adapt_consecutive_drops >= ADAPT_FAST_DROP_THRESHOLD
                              THEN AtMost(AtLeast(half, floor), rate) ELSE rate
  BY DEF FastDrop
<1>3. DropWindow(rate, floor) = IF adapt_drop_events >= 2 THEN AtLeast(rate - AtLeast(eighth, 32), floor) ELSE rate
  BY DEF DropWindow
<1> HIDE DEF eighth, half
<1> QED BY <1>1, <1>2, <1>3 DEF AtLeast, AtMost

\* After a burst the bitrate is lower than before the controller raised it, or at the floor.
LEMMA BurstLowers ==
  ASSUME NEW rate \in Nat, NEW pid \in Nat, NEW floor \in Nat,
         adapt_drop_events \in Nat, adapt_consecutive_drops \in Nat,
         pid <= rate + 30, rate >= BITRATE_MIN_KBPS, Burst
  PROVE  LET d == DropWindow(FastDrop(pid, floor), floor) IN d < rate \/ d <= floor
<1> DEFINE f == FastDrop(pid, floor)
           d == DropWindow(f, floor)
<1>1. f \in Nat /\ f <= pid /\ d \in Nat /\ (d <= f \/ d = floor)
  BY DroppedRange
<1>2. CASE adapt_consecutive_drops >= ADAPT_FAST_DROP_THRESHOLD
  <2>1. f = AtMost(AtLeast(pid \div 2, floor), pid)
    BY <1>2 DEF FastDrop
  <2> DEFINE half == pid \div 2
  <2>2. half \in Nat /\ 2 * half <= pid
    OBVIOUS
  <2>3. f = AtMost(AtLeast(half, floor), pid)
    BY <2>1
  <2> HIDE DEF half, f
  <2>4. half < rate
    BY <2>2 DEF BITRATE_MIN_KBPS
  <2>5. f < rate \/ f <= floor
    BY <2>3, <2>2, <2>4 DEF AtLeast, AtMost
  <2> HIDE DEF d
  <2>6. d < rate \/ d <= floor
    BY <1>1, <2>5
  <2> QED BY <2>6 DEF d, f
<1>3. CASE adapt_drop_events >= 2 /\ ~(adapt_consecutive_drops >= ADAPT_FAST_DROP_THRESHOLD)
  <2> DEFINE eighth == pid \div (IF adapt_drop_events >= 3 THEN 4 ELSE 8)
  <2>1. f = pid /\ d = AtLeast(pid - AtLeast(eighth, 32), floor)
    BY <1>3 DEF FastDrop, DropWindow
  <2>2. eighth \in Nat
    OBVIOUS
  <2> HIDE DEF f, d, eighth
  <2>3. pid - AtLeast(eighth, 32) < rate
    BY <2>2 DEF AtLeast
  <2>4. d < rate \/ d <= floor
    BY <2>1, <2>2, <2>3 DEF AtLeast
  <2> QED BY <2>4 DEF f, d
<1> QED BY <1>2, <1>3 DEF Burst

\* An update of the bitrate keeps it between the floor and the base, and below the cap of a cooldown.
LEMMA UpdateKeeps ==
  ASSUME SignalAssumption, MaxUpdates <= WindupUpdates, SignalIInv,
         NEW percent \in 0 .. 100, NEW degrading \in BOOLEAN, Signal_update(percent, degrading)
  PROVE  SignalIInv'
<1> DEFINE quality == Composite(percent)
           error == quality - TargetQuality
           sum == AtLeast(AtMost(pid_integral + error, PID_INTEGRAL_MAX), -PID_INTEGRAL_MAX)
           floor == AdaptiveFloor(base_bitrate)
           ceiling == AtLeast(AtMost(quality * ADAPT_CEILING_QUALITY_MULT, ADAPT_CEILING_MAX_KBPS), floor)
           delta == PidDelta(error, sum)
           pid == AtMost(AtLeast(current_bitrate + delta, BITRATE_MIN_KBPS), base_bitrate)
           dropped == DropWindow(FastDrop(pid, floor), floor)
           left == IF Burst THEN ADAPT_DROP_COOLDOWN ELSE AtLeast(coolLeft - 1, 0)
           cap == IF Burst THEN dropped ELSE adapt_cooldown_cap
           held == HoldCap(dropped, cap, left)
           green == greenFor'
           recovered == Recover(held, green, ceiling)
           losing == degrading /\ (adapt_drop_events > 0 \/ s_conn_quality.loss >= 80)
           spared == AvoidIdr(recovered, losing)
<1>1. /\ RateTypes /\ Summed /\ LinkTypes /\ Held
      /\ base_bitrate # 0 /\ updates < MaxUpdates /\ MaxUpdates \in Nat
      /\ ADAPT_DROP_COOLDOWN \in Nat /\ ADAPT_DROP_COOLDOWN > 0 /\ ADAPT_GREEN_HOLDOFF \in Nat /\ ADAPT_GREEN_HOLDOFF > 0
  BY DEF SignalIInv, SignalAssumption, Signal_update
<1>2. /\ updates' = updates + 1 /\ pid_integral' = sum /\ pid_error_prev' = error
      /\ coolLeft' = left /\ adapt_cooldown_cap' = cap
      /\ current_bitrate' = FinalClamp(spared, floor, ceiling)
      /\ beforeDrop' = IF Burst THEN current_bitrate ELSE IF left = 0 THEN 0 ELSE beforeDrop
      /\ adapt_drop_events' = 0
      /\ UNCHANGED <<base_bitrate, linkVars>>
  BY DEF Signal_update
<1>3. green \in -1 .. ADAPT_GREEN_HOLDOFF /\ (left > 0 => green = -1)
  BY <1>1 DEF Signal_update, RateTypes, AtMost
<1>4. adapt_consecutive_drops' \in Nat
  BY <1>1 DEF Signal_update, RateTypes
<1>5. quality \in 0 .. 100 /\ error \in -75 .. 25
  BY <1>1, CompositeRange DEF TargetQuality
<1> HIDE DEF quality, error
<1>6. sum \in Int /\ sum <= 25 * (updates + 1) /\ sum <= 25 * WindupUpdates
  BY <1>1, <1>5 DEF Summed, AtLeast, AtMost, PID_INTEGRAL_MAX, PID_SCALE, WindupUpdates
<1> HIDE DEF sum
<1>7. delta \in Int /\ delta <= 30
  BY <1>1, <1>5, <1>6, PidGain DEF Summed
<1> HIDE DEF delta
<1>8. floor \in Nat /\ floor >= BITRATE_MIN_KBPS /\ floor <= base_bitrate
  BY <1>1, FloorFits DEF RateTypes
<1>9. current_bitrate \in Nat /\ base_bitrate \in Nat /\ current_bitrate >= floor /\ current_bitrate <= base_bitrate
  BY <1>1 DEF RateTypes, Held
<1> HIDE DEF floor
<1>10. pid \in Nat /\ pid <= current_bitrate + 30
  BY <1>7, <1>8, <1>9 DEF AtLeast, AtMost, BITRATE_MIN_KBPS
<1> HIDE DEF pid
<1>11. dropped \in Nat
  BY <1>1, <1>8, <1>10, DroppedRange DEF RateTypes
<1>12. Burst => dropped < current_bitrate \/ dropped <= floor
  BY <1>1, <1>8, <1>9, <1>10, BurstLowers DEF RateTypes, BITRATE_MIN_KBPS
<1> HIDE DEF dropped
<1>13. left \in 0 .. ADAPT_DROP_COOLDOWN /\ (left > 0 /\ ~Burst => coolLeft > 0)
  BY <1>1 DEF RateTypes, AtLeast
<1>14. cap \in Nat
  BY <1>1, <1>11 DEF RateTypes
<1>15. beforeDrop' \in Nat
  BY <1>1, <1>2 DEF RateTypes
<1>16. left > 0 => cap < beforeDrop' \/ cap <= floor
  BY <1>1, <1>2, <1>12, <1>13 DEF Held, floor
<1> HIDE DEF left, cap
<1>17. held \in Nat /\ (left > 0 => held <= cap)
  BY <1>11, <1>13, <1>14 DEF HoldCap, AtMost
<1> HIDE DEF held, green
<1>18. ceiling \in Nat /\ ceiling >= floor
  BY <1>5, <1>8 DEF AtLeast, AtMost, ADAPT_CEILING_QUALITY_MULT, ADAPT_CEILING_MAX_KBPS
<1> HIDE DEF ceiling
<1>19. recovered \in Int /\ (left > 0 => recovered <= held)
  BY <1>1, <1>3, <1>9, <1>13, <1>17, <1>18 DEF Recover, AtMost, ADAPT_SLOW_RECOVER_KBPS
<1> HIDE DEF recovered, losing
<1>20. spared \in Int /\ (left > 0 => spared <= held)
  <2> DEFINE tenth == recovered \div 10
  <2>1. tenth \in Int
    BY <1>19
  <2>2. spared = IF losing THEN recovered - AtLeast(tenth, 25) ELSE recovered
    BY DEF AvoidIdr
  <2> HIDE DEF tenth, spared
  <2> QED BY <1>13, <1>17, <1>19, <2>1, <2>2 DEF AtLeast
<1> HIDE DEF spared
<1>21. /\ current_bitrate' \in Nat /\ current_bitrate' >= floor /\ current_bitrate' <= base_bitrate
       /\ left > 0 => current_bitrate' <= cap \/ current_bitrate' = floor
  BY <1>2, <1>8, <1>9, <1>13, <1>14, <1>17, <1>18, <1>20 DEF FinalClamp, AtLeast, AtMost
<1>22. RateTypes'
  BY <1>1, <1>2, <1>3, <1>4, <1>13, <1>14, <1>15, <1>21 DEF RateTypes, green
<1>23. Summed'
  BY <1>1, <1>2, <1>5, <1>6 DEF Summed
<1>24. LinkTypes'
  BY <1>1, <1>2 DEF LinkTypes, linkVars
<1>25. base_bitrate' = base_bitrate /\ AdaptiveFloor(base_bitrate') = floor
  BY <1>2 DEF floor
<1>26. left > 0 => current_bitrate' < beforeDrop' \/ current_bitrate' = floor
  BY <1>8, <1>14, <1>15, <1>16, <1>21
<1>27. Held'
  BY <1>1, <1>2, <1>16, <1>21, <1>25, <1>26 DEF Held
<1> QED BY <1>22, <1>23, <1>24, <1>27 DEF SignalIInv

\* A bitrate of the settings is one a stream may be launched with.
LEMMA LaunchFits ==
  ASSUME NEW rate \in Nat PROVE LaunchBitrate(rate) \in Nat /\ LaunchBitrate(rate) >= BITRATE_MIN_KBPS
BY DEF LaunchBitrate, AtLeast, BITRATE_MIN_KBPS

\* Before the first stream there is no bitrate.
LEMMA SignalInitInv == SignalAssumption /\ SignalInit => SignalIInv
<1> SUFFICES ASSUME SignalAssumption, SignalInit PROVE SignalIInv
  OBVIOUS
<1>1. RateTypes /\ Held
  BY DEF SignalInit, SignalAssumption, RateTypes, Held
<1>2. Summed /\ LinkTypes
  BY DEF SignalInit, SignalAssumption, Summed, LinkTypes, EXCELLENT, FAIR, CRITICAL
<1> QED BY <1>1, <1>2 DEF SignalIInv

\* Every step keeps the invariant, for as many updates as two hours have.
LEMMA SignalStep == SignalAssumption /\ MaxUpdates <= WindupUpdates /\ SignalIInv /\ [SignalNext]_signalVars => SignalIInv'
<1> SUFFICES ASSUME SignalAssumption, MaxUpdates <= WindupUpdates, SignalIInv, [SignalNext]_signalVars PROVE SignalIInv'
  OBVIOUS
<1>1. ASSUME NEW rate \in ConfiguredRates, Signal_init(rate) PROVE SignalIInv'
  <2> DEFINE launch == LaunchBitrate(rate)
  <2>1. launch \in Nat /\ launch >= BITRATE_MIN_KBPS
    BY LaunchFits DEF SignalAssumption
  <2>2. AdaptiveFloor(launch) \in Nat /\ AdaptiveFloor(launch) <= launch
    BY <2>1, FloorFits
  <2>3. base_bitrate' = launch /\ current_bitrate' = launch /\ adapt_cooldown_cap' = launch /\ decodedFrames' = 0
    BY <1>1 DEF Signal_init
  <2> HIDE DEF launch
  <2>4. RateTypes'
    BY <1>1, <2>1, <2>3 DEF SignalIInv, RateTypes, Signal_init
  <2>5. coolLeft' = 0
    BY <1>1 DEF SignalIInv, Held, Signal_init
  <2>6. Held'
    BY <2>1, <2>2, <2>3, <2>5 DEF Held
  <2>7. Summed' /\ LinkTypes'
    BY <1>1, <2>3 DEF SignalIInv, Summed, LinkTypes, Signal_init
  <2> QED BY <2>4, <2>6, <2>7 DEF SignalIInv
<1>2. CASE Signal_shutdown
  BY <1>2 DEF SignalAssumption, SignalIInv, RateTypes, Summed, LinkTypes, Held, Signal_shutdown, linkVars
<1>3. CASE ReportFrameDrop
  BY <1>3 DEF SignalIInv, RateTypes, Summed, LinkTypes, Held, ReportFrameDrop, linkVars, AtMost
<1>4. CASE ReportFrameOk
  BY <1>4 DEF SignalIInv, RateTypes, Summed, LinkTypes, Held, ReportFrameOk, linkVars
<1>5. ASSUME NEW w \in Windows, JudgeLink(w) PROVE SignalIInv'
  BY <1>5, JudgeKeeps
<1>6. ASSUME NEW percent \in Percents, NEW degrading \in BOOLEAN, Signal_update(percent, degrading) PROVE SignalIInv'
  BY <1>6, UpdateKeeps DEF SignalAssumption
<1>7. CASE UNCHANGED signalVars
  BY <1>7 DEF signalVars, linkVars, SignalIInv, RateTypes, Summed, LinkTypes, Held
<1> QED BY <1>1, <1>2, <1>3, <1>4, <1>5, <1>6, <1>7 DEF SignalNext

\* The bitrate stays between the floor and that of the launch, and what a burst of lost frames took
\* is not given back within the cooldown, in a behaviour of two hours (signal_strength_update).
THEOREM BurstsHold ==
  ASSUME MaxUpdates <= WindupUpdates
  PROVE  SignalInit /\ [][SignalNext]_signalVars => []BurstHolds
<1>1. SignalIInv => BurstHolds
  <2> SUFFICES ASSUME SignalIInv, base_bitrate # 0 PROVE BurstHolds
    BY DEF BurstHolds
  <2>1. AdaptiveFloor(base_bitrate) \in Nat
    BY FloorFits DEF SignalIInv, RateTypes
  <2> QED BY <2>1 DEF SignalIInv, RateTypes, Held, BurstHolds
<1> QED BY <1>1, SignalAssumption, SignalInitInv, SignalStep, PTL

(***************************************************************************)
(* The settings and what a stream is asked for.                            *)
(***************************************************************************)
Sizes == {<<300, 170>>, <<360, 204>>, <<420, 238>>, <<480, 272>>}
Configs == [preset : 0 .. 3, res : 0 .. 3, w : Nat, h : Nat, fpsIdx : 0 .. 5, fps : 1 .. 144, bitrate : MIN_BITRATE .. MAX_BITRATE]
Files == [lines : 0 .. 7,
          c : [preset : 0 .. 3, res : Int, w : Int, h : Int, fpsIdx : 0 .. 5, fps : 1 .. 144, bitrate : MIN_BITRATE .. MAX_BITRATE]]
Rows == [preset : 0 .. 3, res : 0 .. 3, fpsIdx : 0 .. 5, fps : 0 .. 144, bitrate : 0 .. MAX_BITRATE]

\* What can be streamed, and is what the rows of the menu say.
Usable(c) ==
    /\ c \in Configs /\ SizeOf(c) \in Sizes
    /\ c.fpsIdx # FPS_CUSTOM_INDEX => c.fps = FPS_VALUES[c.fpsIdx]
    /\ c.res # Custom => SizeOf(c) = PresetSizes[c.res]

\* The least distance is somewhere, and there first.
LEMMA NearestExists ==
  ASSUME NEW T \in SUBSET Nat, T # {}, NEW d \in [T -> Nat]
  PROVE  \E i \in T : \A j \in T : d[i] < d[j] \/ (d[i] = d[j] /\ i <= j)
<1> DEFINE less == {ss \in Nat \X Nat : ss[1] < ss[2]}
           far == {d[j] : j \in T}
<1>1. IsWellFoundedOn(less, Nat)
  BY NatLessThanWellFounded DEF OpToRel
<1>2. \A x, y \in Nat : <<x, y>> \in less <=> x < y
  OBVIOUS
<1> HIDE DEF less
<1>3. PICK m \in far : \A y \in far : ~(<<y, m>> \in less)
  <2>1. far \subseteq Nat /\ far # {}
    OBVIOUS
  <2> HIDE DEF far
  <2> QED BY <1>1, <2>1, WFMin
<1> DEFINE near == {j \in T : d[j] = m}
<1>4. PICK i \in near : \A y \in near : ~(<<y, i>> \in less)
  <2>1. near \subseteq Nat /\ near # {}
    BY <1>3
  <2> HIDE DEF near
  <2> QED BY <1>1, <2>1, WFMin
<1>5. i \in T /\ d[i] = m /\ i \in Nat /\ m \in Nat
  BY <1>4
<1>6. ASSUME NEW j \in T PROVE m <= d[j]
  <2>1. d[j] \in Nat /\ d[j] \in far
    OBVIOUS
  <2> HIDE DEF far
  <2>2. ~(d[j] < m)
    BY <1>2, <1>3, <1>5, <2>1
  <2> QED BY <1>5, <2>1, <2>2
<1>7. ASSUME NEW j \in T, d[j] = m PROVE i <= j
  <2>1. j \in Nat /\ j \in near
    BY <1>7
  <2> HIDE DEF near
  <2>2. ~(j < i)
    BY <1>2, <1>4, <1>5, <2>1
  <2> QED BY <1>5, <2>1, <2>2
<1> QED BY <1>5, <1>6, <1>7

\* The row of a size is a row, and that of a preset is its own.
LEMMA PresetRow ==
  ASSUME NEW w \in Int, NEW h \in Int
  PROVE  NearestPreset(w, h) \in 0 .. 2
<1> DEFINE d == [i \in 0 .. 2 |-> Abs(PresetSizes[i][1] - w) + Abs(PresetSizes[i][2] - h)]
<1>1. \A i \in 0 .. 2 : PresetSizes[i][1] \in Nat /\ PresetSizes[i][2] \in Nat
  BY DEF PresetSizes
<1>2. d \in [0 .. 2 -> Nat]
  BY <1>1 DEF Abs
<1>3. \E i \in 0 .. 2 : \A j \in 0 .. 2 : d[i] < d[j] \/ (d[i] = d[j] /\ i <= j)
  BY <1>2, NearestExists
<1> QED BY <1>3 DEF NearestPreset, Nearest

\* ... and it is the preset itself when the size is that of one.
LEMMA PresetIsNearest ==
  ASSUME NEW r \in 0 .. 2
  PROVE  NearestPreset(PresetSizes[r][1], PresetSizes[r][2]) = r
<1>1. \A i \in 0 .. 2 : PresetSizes[i] = IF i = 0 THEN <<480, 272>> ELSE IF i = 1 THEN <<360, 204>> ELSE <<300, 170>>
  BY DEF PresetSizes
<1>2. \A i \in 0 .. 2 : LET d == Abs(PresetSizes[i][1] - PresetSizes[r][1]) + Abs(PresetSizes[i][2] - PresetSizes[r][2])
                        IN d \in Nat /\ (d = 0 <=> i = r)
  BY <1>1 DEF Abs
<1> QED BY <1>2 DEF NearestPreset, Nearest

\* Normalising whatever size is typed makes a size of the 480 x 272 family.
LEMMA NormalizeMakes ==
  ASSUME NEW w \in Int, NEW h \in Int
  PROVE  Normalize(w, h) \in Sizes
<1> DEFINE fromW == ((IF w > 0 THEN w ELSE 480) + 15) \div 30
           fromH == ((IF h > 0 THEN h ELSE 272) + 8) \div 17
           x == (fromW + fromH + 1) \div 2
           scale == Clamp(Even(x), 10, 16)
<1>1. fromW \in Int /\ fromH \in Int
  OBVIOUS
<1>2. x \in Int
  <2> HIDE DEF fromW, fromH
  <2> QED BY <1>1
<1>3. Normalize(w, h) = <<30 * scale, 17 * scale>>
  BY DEF Normalize
<1> HIDE DEF x
<1>4. Even(x) \in Int /\ Even(x) % 2 = 0
  BY <1>2 DEF Even
<1>5. scale \in {10, 12, 14, 16}
  <2> DEFINE e == Even(x)
  <2> HIDE DEF e
  <2>1. e \in Int /\ e % 2 = 0
    BY <1>4 DEF e
  <2>2. Clamp(e, 10, 16) \in {10, 12, 14, 16}
    BY <2>1 DEF Clamp
  <2> QED BY <2>2 DEF e
<1> QED BY <1>3, <1>5 DEF Sizes

\* ... and normalising such a size again leaves it alone.
LEMMA NormalizeKeeps ==
  ASSUME NEW size \in Sizes
  PROVE  Normalize(size[1], size[2]) = size
BY DEF Sizes, Normalize, Clamp, Even

\* A bitrate in bounds.
LEMMA RateRange ==
  ASSUME NEW b, b \in MIN_BITRATE .. MAX_BITRATE
  PROVE  b \in Nat /\ b \in 0 .. MAX_BITRATE /\ b >= MIN_BITRATE /\ Clamp(b, MIN_BITRATE, MAX_BITRATE) = b
BY DEF Clamp, MIN_BITRATE, MAX_BITRATE

\* What loadConfig reads of any file can be streamed, whatever lines it has lost.
LEMMA LoadedUsable ==
  ASSUME NEW file \in Files
  PROVE  Usable(loadConfig(file))
<1>1. file.lines \in 0 .. 7 /\ file.c.preset \in 0 .. 3 /\ file.c.res \in Int /\ file.c.w \in Int /\ file.c.h \in Int
      /\ file.c.fpsIdx \in 0 .. 5 /\ file.c.fps \in 1 .. 144 /\ file.c.bitrate \in MIN_BITRATE .. MAX_BITRATE
  BY DEF Files
<1> DEFINE size == LoadSize(file)
           fps == LoadFps(file)
           rate == IF Has(file, "bitrate") THEN Clamp(file.c.bitrate, MIN_BITRATE, MAX_BITRATE) ELSE Defaults.bitrate
           preset == IF ~Has(file, "presetIndex") THEN size.res
                     ELSE IF file.c.preset \in 0 .. 3 THEN file.c.preset ELSE Defaults.preset
<1>2. /\ size.res \in 0 .. 3 /\ <<size.w, size.h>> \in Sizes
      /\ size.res # Custom => <<size.w, size.h>> = PresetSizes[size.res]
  <2> DEFINE w == IF Has(file, "width") THEN file.c.w ELSE Defaults.w
             h == IF Has(file, "height") THEN file.c.h ELSE Defaults.h
             read == IF Has(file, "resolutionIndex") THEN file.c.res ELSE Defaults.res
             near == NearestPreset(w, h)
             res == IF read = Custom THEN Custom ELSE near
             made == IF res = Custom THEN Normalize(w, h) ELSE PresetSizes[res]
  <2>1. w \in Int /\ h \in Int
    BY <1>1 DEF Defaults
  <2>2. near \in 0 .. 2 /\ Normalize(w, h) \in Sizes
    <3> HIDE DEF w, h
    <3> QED BY <2>1, PresetRow, NormalizeMakes
  <2>3. size = [res |-> res, w |-> made[1], h |-> made[2]]
    BY DEF LoadSize
  <2> HIDE DEF w, h, near, read, size
  <2>4. res \in 0 .. 3 /\ (res # Custom => res \in 0 .. 2)
    BY <2>2 DEF Custom
  <2>5. made \in Sizes
    BY <2>2, <2>4 DEF PresetSizes, Sizes
  <2> HIDE DEF res
  <2>6. made = <<made[1], made[2]>>
    BY <2>5 DEF Sizes
  <2> QED BY <2>3, <2>4, <2>5, <2>6
<1>3. fps.fpsIdx \in 0 .. 5 /\ fps.fps \in 1 .. 144 /\ (fps.fpsIdx # FPS_CUSTOM_INDEX => fps.fps = FPS_VALUES[fps.fpsIdx])
  <2>1. \A i \in 0 .. 4 : FPS_VALUES[i] \in 1 .. 144
    BY DEF FPS_VALUES
  <2>2. FpsIndexOf(file.c.fps) \in 0 .. 5
        /\ (FpsIndexOf(file.c.fps) # FPS_CUSTOM_INDEX => file.c.fps = FPS_VALUES[FpsIndexOf(file.c.fps)])
    BY DEF FpsIndexOf, FPS_CUSTOM_INDEX
  <2>3. Defaults.fpsIdx = 2 /\ Defaults.fps = 20 /\ FPS_VALUES[2] = 20
    BY DEF Defaults, FPS_VALUES
  <2>4. CASE Has(file, "fpsIndex")
    BY <1>1, <2>1, <2>4 DEF LoadFps, FPS_CUSTOM_INDEX
  <2>5. CASE ~Has(file, "fpsIndex") /\ Has(file, "fps")
    BY <1>1, <2>2, <2>5 DEF LoadFps
  <2>6. CASE ~Has(file, "fpsIndex") /\ ~Has(file, "fps")
    BY <2>3, <2>6 DEF LoadFps
  <2> QED BY <2>4, <2>5, <2>6
<1>4. rate \in MIN_BITRATE .. MAX_BITRATE
  <2>1. \A n \in Int : Clamp(n, MIN_BITRATE, MAX_BITRATE) \in MIN_BITRATE .. MAX_BITRATE
    BY DEF Clamp, MIN_BITRATE, MAX_BITRATE
  <2>2. Defaults.bitrate \in MIN_BITRATE .. MAX_BITRATE
    BY DEF Defaults, MIN_BITRATE, MAX_BITRATE
  <2>3. file.c.bitrate \in Int \/ ~ Has(file, "bitrate")
    BY <1>1
  <2> QED BY <2>1, <2>2, <2>3
<1>5. preset \in 0 .. 3
  BY <1>1, <1>2 DEF Defaults
<1>6. loadConfig(file) = [preset |-> preset, res |-> size.res, w |-> size.w, h |-> size.h,
                          fpsIdx |-> fps.fpsIdx, fps |-> fps.fps, bitrate |-> rate]
  BY DEF loadConfig
<1> HIDE DEF size, fps, rate, preset
<1>7. size.w \in Nat /\ size.h \in Nat
  BY <1>2 DEF Sizes
<1> QED BY <1>2, <1>3, <1>4, <1>5, <1>6, <1>7 DEF Usable, Configs, SizeOf

\* A file with all its lines gives back what the menu wrote.
LEMMA LoadInverts ==
  ASSUME NEW c, Usable(c)
  PROVE  loadConfig(Written(c, 7)) = c
<1> DEFINE file == Written(c, 7)
<1>1. /\ c \in Configs /\ <<c.w, c.h>> \in Sizes /\ file.c = c /\ file.lines = 7
      /\ c.fpsIdx # FPS_CUSTOM_INDEX => c.fps = FPS_VALUES[c.fpsIdx]
      /\ c.res # Custom => <<c.w, c.h>> = PresetSizes[c.res]
  BY DEF Usable, SizeOf, Written
<1>2. \A key \in {"width", "height", "resolutionIndex", "presetIndex", "fps", "fpsIndex", "bitrate"} : Has(file, key)
  BY DEF Has, Keys, Written
<1> HIDE DEF file
<1>3. LoadSize(file) = [res |-> c.res, w |-> c.w, h |-> c.h]
  <2>1. LoadSize(file) = LET res == IF c.res = Custom THEN Custom ELSE NearestPreset(c.w, c.h)
                             size == IF res = Custom THEN Normalize(c.w, c.h) ELSE PresetSizes[res]
                         IN  [res |-> res, w |-> size[1], h |-> size[2]]
    BY <1>1, <1>2 DEF LoadSize
  <2>2. CASE c.res = Custom
    <3>1. Normalize(c.w, c.h) = <<c.w, c.h>>
      BY <1>1, NormalizeKeeps
    <3> QED BY <2>1, <2>2, <3>1
  <2>3. CASE c.res # Custom
    <3>1. c.res \in 0 .. 2 /\ PresetSizes[c.res] = <<c.w, c.h>>
      BY <1>1, <2>3 DEF Configs, Custom
    <3>2. NearestPreset(PresetSizes[c.res][1], PresetSizes[c.res][2]) = c.res
      BY <3>1, PresetIsNearest
    <3>3. NearestPreset(c.w, c.h) = c.res
      BY <3>1, <3>2
    <3> QED BY <2>1, <2>3, <3>1, <3>3
  <2> QED BY <2>2, <2>3
<1>4. LoadFps(file) = [fpsIdx |-> c.fpsIdx, fps |-> c.fps]
  BY <1>1, <1>2 DEF LoadFps, Configs, FPS_CUSTOM_INDEX
<1>5. Clamp(c.bitrate, MIN_BITRATE, MAX_BITRATE) = c.bitrate
  <2>1. c.bitrate \in MIN_BITRATE .. MAX_BITRATE
    BY <1>1 DEF Configs
  <2> QED BY <2>1, RateRange
<1>6. loadConfig(file) = [preset |-> c.preset, res |-> c.res, w |-> c.w, h |-> c.h,
                          fpsIdx |-> c.fpsIdx, fps |-> c.fps, bitrate |-> c.bitrate]
  BY <1>1, <1>2, <1>3, <1>4, <1>5 DEF loadConfig, Configs
<1>7. c = [preset |-> c.preset, res |-> c.res, w |-> c.w, h |-> c.h,
           fpsIdx |-> c.fpsIdx, fps |-> c.fps, bitrate |-> c.bitrate]
  BY <1>1 DEF Configs
<1> QED BY <1>6, <1>7 DEF file

\* The rows of the menu, while it is open, can be saved.
MenuUsable ==
    /\ g_menu_state \in Rows
    /\ sAt = "menu" => /\ g_menu_state.bitrate >= MIN_BITRATE
                       /\ g_menu_state.fpsIdx = FPS_CUSTOM_INDEX => g_menu_state.fps >= 1

SettingsIInv ==
    /\ sAt \in {"boot", "menu", "away"} /\ sFile \in Files /\ customSlot \in Sizes /\ sKept \in BOOLEAN
    /\ Usable(g_psp_config) /\ MenuUsable
    /\ sAt = "menu" => sKept
    /\ sAt # "boot" /\ sKept => loadConfig(sFile) = g_psp_config

\* The session expects what is set, unless the Custom row was retyped.
RequestIInv ==
    /\ SettingsIInv /\ moved \in BOOLEAN
    /\ sent.on => sAt = "away"
    /\ sAt = "away" /\ ~moved => expected = SizeOf(g_psp_config)
    /\ AnnouncedAgrees

\* A file edited by hand, or none, is a file.
LEMMA SettingsInitInv == SettingsAssumption /\ SettingsInit => SettingsIInv
<1> SUFFICES ASSUME SettingsAssumption, SettingsInit PROVE SettingsIInv
  OBVIOUS
<1>1. Defaults \in Configs /\ Usable(Defaults)
  BY DEF Defaults, Configs, Usable, SizeOf, Sizes, FPS_VALUES, PresetSizes, FPS_CUSTOM_INDEX, Custom, MIN_BITRATE, MAX_BITRATE
<1>2. sFile \in Files
  <2>1. Written(Defaults, 0) \in Files
    BY DEF Written, Files, Defaults, MIN_BITRATE, MAX_BITRATE
  <2>2. ASSUME NEW e \in EditedFiles PROVE Edited(e) \in Files
    <3>1. e.w \in Int /\ e.h \in Int /\ e.res \in Int /\ e.fpsIdx \in 0 .. 4
      BY DEF SettingsAssumption
    <3>2. Len(Keys) = 7
      BY DEF Keys
    <3> DEFINE D == Defaults
               Values == [preset : 0 .. 3, res : Int, w : Int, h : Int, fpsIdx : 0 .. 5, fps : 1 .. 144,
                          bitrate : MIN_BITRATE .. MAX_BITRATE]
    <3>3. D \in Values
      BY DEF Defaults, MIN_BITRATE, MAX_BITRATE
    <3> HIDE DEF D
    <3>4. [D EXCEPT !.w = e.w, !.h = e.h, !.res = e.res, !.fpsIdx = e.fpsIdx] \in Values
      <4>1. \A x \in Values, v \in Int : /\ [x EXCEPT !.w = v] \in Values
                                       /\ [x EXCEPT !.h = v] \in Values
                                       /\ [x EXCEPT !.res = v] \in Values
        OBVIOUS
      <4>2. \A x \in Values, v \in 0 .. 5 : [x EXCEPT !.fpsIdx = v] \in Values
        OBVIOUS
      <4>3. e.fpsIdx \in 0 .. 5
        BY <3>1
      <4> HIDE DEF Values
      <4> QED BY <3>1, <3>3, <4>1, <4>2, <4>3
    <3> QED BY <3>2, <3>4 DEF Edited, Written, Files, D
  <2> QED BY <2>1, <2>2 DEF SettingsInit
<1>3. customSlot \in Sizes /\ g_menu_state \in Rows
  BY DEF SettingsInit, Sizes, Rows, MAX_BITRATE
<1> QED BY <1>1, <1>2, <1>3 DEF SettingsInit, SettingsIInv, MenuUsable

\* Opening the menu reads the file.
LEMMA OpenKeeps ==
  ASSUME SettingsIInv, OpenMenu
  PROVE  SettingsIInv'
<1> DEFINE c == loadConfig(sFile)
<1>1. /\ sAt' = "menu" /\ sFile' = sFile /\ sKept' = TRUE /\ g_psp_config' = c
      /\ customSlot' = (IF c.res = Custom THEN <<c.w, c.h>> ELSE customSlot)
      /\ g_menu_state' = [preset |-> c.preset, res |-> c.res, fpsIdx |-> c.fpsIdx,
                          fps |-> IF c.fpsIdx = FPS_CUSTOM_INDEX THEN c.fps ELSE g_menu_state.fps,
                          bitrate |-> c.bitrate]
  BY DEF OpenMenu
<1>2. Usable(c)
  BY LoadedUsable DEF SettingsIInv
<1> HIDE DEF c
<1>3. /\ c.preset \in 0 .. 3 /\ c.res \in 0 .. 3 /\ c.fpsIdx \in 0 .. 5 /\ c.fps \in 1 .. 144
      /\ c.bitrate \in MIN_BITRATE .. MAX_BITRATE /\ <<c.w, c.h>> \in Sizes
  BY <1>2 DEF Usable, Configs, SizeOf
<1>4. g_menu_state.fps \in 0 .. 144
  BY DEF SettingsIInv, MenuUsable, Rows
<1>5. MenuUsable'
  <2> DEFINE f == IF c.fpsIdx = FPS_CUSTOM_INDEX THEN c.fps ELSE g_menu_state.fps
  <2>1. f \in 0 .. 144 /\ (c.fpsIdx = FPS_CUSTOM_INDEX => f >= 1)
    BY <1>3, <1>4
  <2>2. c.bitrate \in 0 .. MAX_BITRATE /\ c.bitrate >= MIN_BITRATE
    BY <1>3, RateRange
  <2>3. g_menu_state' = [preset |-> c.preset, res |-> c.res, fpsIdx |-> c.fpsIdx, fps |-> f, bitrate |-> c.bitrate]
    BY <1>1
  <2> HIDE DEF f
  <2>4. g_menu_state' \in Rows
    BY <1>3, <2>1, <2>2, <2>3 DEF Rows
  <2>5. g_menu_state'.bitrate = c.bitrate /\ g_menu_state'.fpsIdx = c.fpsIdx /\ g_menu_state'.fps = f
    BY <2>3
  <2> QED BY <2>1, <2>2, <2>4, <2>5 DEF MenuUsable
<1>6. customSlot' \in Sizes
  BY <1>1, <1>3 DEF SettingsIInv
<1> QED BY <1>1, <1>2, <1>5, <1>6 DEF SettingsIInv, c

\* What a press may make of the rows.
LEMMA PressKeeps ==
  ASSUME SettingsIInv, Press, g_menu_state' \in Rows, g_menu_state'.bitrate >= MIN_BITRATE,
         g_menu_state'.fpsIdx = FPS_CUSTOM_INDEX => g_menu_state'.fps >= 1
  PROVE  SettingsIInv'
BY DEF SettingsIInv, MenuUsable, Press

\* The rows of presets, resolutions and frame rates go round.
LEMMA RowsKeep ==
  ASSUME SettingsIInv, NEW d \in {-1, 1}, StepPreset(d) \/ StepResolution(d) \/ StepFps(d)
  PROVE  SettingsIInv'
<1>1. /\ Press /\ sAt = "menu" /\ g_menu_state \in Rows /\ g_menu_state.bitrate >= MIN_BITRATE
      /\ g_menu_state.fpsIdx = FPS_CUSTOM_INDEX => g_menu_state.fps >= 1
  BY DEF SettingsIInv, MenuUsable, StepPreset, StepResolution, StepFps, Press
<1>2. /\ g_menu_state.preset \in 0 .. 3 /\ g_menu_state.res \in 0 .. 3 /\ g_menu_state.fpsIdx \in 0 .. 5
      /\ g_menu_state.fps \in 0 .. 144 /\ g_menu_state.bitrate \in MIN_BITRATE .. MAX_BITRATE
  BY <1>1 DEF Rows, MIN_BITRATE
<1>3. CASE StepPreset(d)
  <2> DEFINE i == (g_menu_state.preset + d) % 4
  <2>1. i \in 0 .. 3
    BY <1>2
  <2>2. g_menu_state' = IF i = Custom THEN [g_menu_state EXCEPT !.preset = i, !.res = i]
                        ELSE [preset |-> i, res |-> i, fpsIdx |-> PresetFps[i], fps |-> 0, bitrate |-> PresetBitrate[i]]
    BY <1>3 DEF StepPreset
  <2> HIDE DEF i
  <2>3. CASE i = Custom
    <3>1. g_menu_state' = [g_menu_state EXCEPT !.preset = i, !.res = i]
      BY <2>2, <2>3
    <3>2. g_menu_state' \in Rows /\ g_menu_state'.bitrate = g_menu_state.bitrate
          /\ g_menu_state'.fpsIdx = g_menu_state.fpsIdx /\ g_menu_state'.fps = g_menu_state.fps
      BY <1>1, <2>1, <3>1 DEF Rows
    <3> QED BY <1>1, <3>2, PressKeeps
  <2>4. CASE i # Custom
    <3>1. i \in 0 .. 2 /\ PresetFps[i] \in 1 .. 3 /\ PresetBitrate[i] \in 384 .. 576
      BY <2>1, <2>4 DEF Custom, PresetFps, PresetBitrate
    <3>2. /\ g_menu_state'.fpsIdx = PresetFps[i] /\ g_menu_state'.bitrate = PresetBitrate[i] /\ g_menu_state' \in Rows
      BY <2>1, <2>2, <2>4, <3>1 DEF Rows, MAX_BITRATE
    <3> QED BY <1>1, <3>1, <3>2, PressKeeps DEF MIN_BITRATE, FPS_CUSTOM_INDEX
  <2> QED BY <2>3, <2>4
<1>4. CASE StepResolution(d)
  <2>1. (g_menu_state.res + d) % 4 \in 0 .. 3
    BY <1>2
  <2>2. g_menu_state' = [g_menu_state EXCEPT !.res = (g_menu_state.res + d) % 4]
    BY <1>4 DEF StepResolution
  <2>3. g_menu_state' \in Rows /\ g_menu_state'.bitrate = g_menu_state.bitrate
        /\ g_menu_state'.fpsIdx = g_menu_state.fpsIdx /\ g_menu_state'.fps = g_menu_state.fps
    BY <1>1, <2>1, <2>2 DEF Rows
  <2> QED BY <1>1, <2>3, PressKeeps
<1>5. CASE StepFps(d)
  <2> DEFINE i == (g_menu_state.fpsIdx + d) % 6
             f == IF i = FPS_CUSTOM_INDEX /\ g_menu_state.fps = 0 THEN 24 ELSE g_menu_state.fps
  <2>1. i \in 0 .. 5 /\ f \in 0 .. 144 /\ (i = FPS_CUSTOM_INDEX => f >= 1)
    BY <1>2
  <2>2. g_menu_state' = [g_menu_state EXCEPT !.fpsIdx = i, !.fps = f]
    BY <1>5 DEF StepFps
  <2> HIDE DEF i, f
  <2>3. g_menu_state' \in Rows /\ g_menu_state'.bitrate = g_menu_state.bitrate
        /\ g_menu_state'.fpsIdx = i /\ g_menu_state'.fps = f
    BY <1>1, <2>1, <2>2 DEF Rows
  <2> QED BY <1>1, <2>1, <2>3, PressKeeps
<1> QED BY <1>3, <1>4, <1>5

\* The bitrate goes to the next one of the ladder, from the nearest.
LEMMA BitrateKeeps ==
  ASSUME SettingsAssumption, SettingsIInv, NEW d \in {-1, 1}, StepBitrate(d)
  PROVE  SettingsIInv'
<1> DEFINE B == BITRATE_PRESETS
           rate == g_menu_state.bitrate
           far == [j \in DOMAIN B |-> Abs(B[j] - rate)]
           i == Nearest(DOMAIN B, LAMBDA j : Abs(B[j] - rate))
<1>1. /\ Press /\ sAt = "menu" /\ g_menu_state \in Rows /\ rate \in Nat
      /\ g_menu_state.fpsIdx = FPS_CUSTOM_INDEX => g_menu_state.fps >= 1
  BY DEF SettingsIInv, MenuUsable, Rows, StepBitrate, Press
<1>2. B \in Seq(MIN_BITRATE .. MAX_BITRATE) /\ Len(B) \in Nat /\ Len(B) >= 1 /\ DOMAIN B = 1 .. Len(B)
  BY DEF SettingsAssumption
<1>3. far \in [DOMAIN B -> Nat] /\ DOMAIN B \subseteq Nat /\ DOMAIN B # {}
  <2>1. ASSUME NEW j \in DOMAIN B PROVE Abs(B[j] - rate) \in Nat
    <3>1. B[j] \in MIN_BITRATE .. MAX_BITRATE
      BY <1>2, ElementOfSeq
    <3>2. B[j] \in Nat
      BY <3>1, RateRange
    <3> QED BY <1>1, <3>2 DEF Abs
  <2> QED BY <1>2, <2>1
<1>4. \E k \in DOMAIN B : \A j \in DOMAIN B : far[k] < far[j] \/ (far[k] = far[j] /\ k <= j)
  <2> HIDE DEF far
  <2> QED BY <1>3, NearestExists
<1>5. i \in DOMAIN B
  BY <1>4 DEF Nearest
<1>6. g_menu_state' = [g_menu_state EXCEPT !.bitrate = B[Clamp(i + d, 1, Len(B))]]
  BY DEF StepBitrate
<1> HIDE DEF i
<1> DEFINE k == Clamp(i + d, 1, Len(B))
           next == B[k]
<1>7. k \in 1 .. Len(B)
  <2> DEFINE n == Len(B)
  <2>1. i \in Int /\ n \in Nat /\ n >= 1
    BY <1>2, <1>5
  <2> HIDE DEF n
  <2>2. Clamp(i + d, 1, n) \in 1 .. n
    BY <2>1 DEF Clamp
  <2> QED BY <2>2 DEF n
<1> HIDE DEF k
<1>8. next \in MIN_BITRATE .. MAX_BITRATE
  BY <1>2, <1>7, ElementOfSeq
<1>9. next \in 0 .. MAX_BITRATE /\ g_menu_state' = [g_menu_state EXCEPT !.bitrate = next]
  BY <1>6, <1>8, RateRange DEF k
<1> HIDE DEF next
<1>10. g_menu_state' \in Rows /\ g_menu_state'.bitrate = next
       /\ g_menu_state'.fpsIdx = g_menu_state.fpsIdx /\ g_menu_state'.fps = g_menu_state.fps
  BY <1>1, <1>9 DEF Rows
<1>11. next >= MIN_BITRATE
  BY <1>8, RateRange
<1> QED BY <1>1, <1>10, <1>11, PressKeeps

\* What the open menu saves can be streamed.
LEMMA MenuSaves ==
  ASSUME SettingsIInv, sAt = "menu"
  PROVE  Usable(FromMenu)
<1> DEFINE m == g_menu_state
           size == IF m.res = Custom THEN customSlot ELSE PresetSizes[m.res]
           f == IF m.fpsIdx = FPS_CUSTOM_INDEX THEN m.fps ELSE FPS_VALUES[m.fpsIdx]
<1>1. /\ m.preset \in 0 .. 3 /\ m.res \in 0 .. 3 /\ m.fpsIdx \in 0 .. 5 /\ m.fps \in 0 .. 144
      /\ m.bitrate \in 0 .. MAX_BITRATE /\ m.bitrate >= MIN_BITRATE
      /\ m.fpsIdx = FPS_CUSTOM_INDEX => m.fps >= 1
      /\ customSlot \in Sizes
  BY DEF SettingsIInv, MenuUsable, Rows
<1>2. size \in Sizes /\ (m.res # Custom => size = PresetSizes[m.res])
  <2>1. \A r \in 0 .. 2 : PresetSizes[r] \in Sizes
    BY DEF PresetSizes, Sizes
  <2> QED BY <1>1, <2>1 DEF Custom
<1>3. f \in 1 .. 144 /\ (m.fpsIdx # FPS_CUSTOM_INDEX => f = FPS_VALUES[m.fpsIdx])
  <2>1. \A i \in 0 .. 4 : FPS_VALUES[i] \in 1 .. 144
    BY DEF FPS_VALUES
  <2> QED BY <1>1, <2>1 DEF FPS_CUSTOM_INDEX
<1>4. m.bitrate \in MIN_BITRATE .. MAX_BITRATE
  <2> DEFINE b == m.bitrate
  <2>1. b \in 0 .. MAX_BITRATE /\ b >= MIN_BITRATE
    BY <1>1
  <2> HIDE DEF b
  <2>2. b \in MIN_BITRATE .. MAX_BITRATE
    BY <2>1 DEF MIN_BITRATE, MAX_BITRATE
  <2> QED BY <2>2 DEF b
<1>5. FromMenu = [preset |-> m.preset, res |-> m.res, w |-> size[1], h |-> size[2],
                  fpsIdx |-> m.fpsIdx, fps |-> f, bitrate |-> m.bitrate]
  BY DEF FromMenu
<1> HIDE DEF size, f
<1>6. size = <<size[1], size[2]>> /\ size[1] \in Nat /\ size[2] \in Nat
  BY <1>2 DEF Sizes
<1>7. FromMenu \in Configs
  BY <1>1, <1>3, <1>4, <1>5, <1>6 DEF Configs
<1>8. SizeOf(FromMenu) = size
  BY <1>5, <1>6 DEF SizeOf
<1> QED BY <1>2, <1>3, <1>5, <1>7, <1>8 DEF Usable

\* A configuration may be written, up to any line.
LEMMA WrittenIsFile ==
  ASSUME NEW c, Usable(c), NEW lines \in 0 .. 7
  PROVE  Written(c, lines) \in Files
BY DEF Usable, Configs, Written, Files

\* Every step of the menu keeps the invariant.
LEMMA SettingsStep ==
  ASSUME SettingsAssumption, SettingsIInv, SettingsNext
  PROVE  SettingsIInv'
<1>0. Len(Keys) = 7
  BY DEF Keys
<1>1. CASE OpenMenu
  BY <1>1, OpenKeeps
<1>2. CASE LeaveMenu
  BY <1>2 DEF LeaveMenu, SettingsIInv, MenuUsable
<1>3. ASSUME NEW d \in {-1, 1}, StepPreset(d) \/ StepResolution(d) \/ StepFps(d) PROVE SettingsIInv'
  BY <1>3, RowsKeep
<1>4. ASSUME NEW d \in {-1, 1}, StepBitrate(d) PROVE SettingsIInv'
  BY <1>4, BitrateKeeps
<1>5. ASSUME NEW size \in EnteredSizes, EnterSize(size) PROVE SettingsIInv'
  <2>1. size[1] \in Int /\ size[2] \in Int
    BY DEF SettingsAssumption
  <2>2. customSlot' \in Sizes
    BY <1>5, <2>1, NormalizeMakes DEF EnterSize
  <2> QED BY <1>5, <2>2 DEF EnterSize, SettingsIInv, MenuUsable
<1>6. ASSUME NEW fps \in EnteredFps, EnterFps(fps) PROVE SettingsIInv'
  <2>0. fps \in 1 .. 144
    BY <1>6 DEF EnterFps
  <2>1. g_menu_state \in Rows /\ g_menu_state' = [g_menu_state EXCEPT !.fps = fps] /\ fps \in 0 .. 144
    BY <1>6, <2>0 DEF EnterFps, SettingsIInv, MenuUsable
  <2>2. g_menu_state' \in Rows /\ g_menu_state'.fps = fps /\ g_menu_state'.bitrate = g_menu_state.bitrate
    BY <2>1 DEF Rows
  <2>21. sAt = "menu" /\ g_menu_state.bitrate >= MIN_BITRATE
    BY <1>6 DEF EnterFps, SettingsIInv, MenuUsable
  <2>22. fps >= 1
    BY <2>0
  <2>3. MenuUsable'
    BY <2>2, <2>21, <2>22 DEF MenuUsable
  <2> QED BY <1>6, <2>3 DEF EnterFps, SettingsIInv
<1>7. ASSUME NEW opened \in BOOLEAN, SaveAndLeave(opened) PROVE SettingsIInv'
  <2>1. Usable(FromMenu) /\ Written(FromMenu, 7) \in Files
    BY <1>7, MenuSaves, WrittenIsFile DEF SaveAndLeave
  <2>2. loadConfig(Written(FromMenu, 7)) = FromMenu
    BY <2>1, LoadInverts
  <2>3. /\ sAt' = "away" /\ g_psp_config' = FromMenu /\ sKept' = opened /\ customSlot' = customSlot
        /\ g_menu_state' = g_menu_state /\ sFile' = IF opened THEN Written(FromMenu, 7) ELSE sFile
    BY <1>0, <1>7 DEF SaveAndLeave
  <2>4. sKept' => loadConfig(sFile') = g_psp_config'
    BY <2>2, <2>3
  <2>5. MenuUsable'
    BY <2>3 DEF SettingsIInv, MenuUsable
  <2>6. sKept' \in BOOLEAN
    BY <2>3
  <2> QED BY <2>1, <2>3, <2>4, <2>5, <2>6 DEF SettingsIInv
<1>8. ASSUME NEW lines \in 0 .. (Len(Keys) - 1), SaveLosesPower(lines) PROVE SettingsIInv'
  <2>1. Usable(FromMenu) /\ Written(FromMenu, lines) \in Files
    BY <1>0, <1>8, MenuSaves, WrittenIsFile DEF SaveLosesPower
  <2>2. customSlot' \in Sizes
    BY <1>8 DEF SaveLosesPower, Sizes
  <2>3. g_menu_state' \in Rows
    <3>1. g_menu_state \in Rows /\ g_menu_state' = [g_menu_state EXCEPT !.fps = 0]
      BY <1>8 DEF SaveLosesPower, SettingsIInv, MenuUsable
    <3> QED BY <3>1 DEF Rows
  <2> QED BY <1>8, <2>1, <2>2, <2>3 DEF SaveLosesPower, SettingsIInv, MenuUsable
<1> QED BY <1>1, <1>2, <1>3, <1>4, <1>5, <1>6, <1>7, <1>8 DEF SettingsNext

\* The fixup of the launch leaves what can be streamed, and the size if a row has it.
LEMMA FixupFits ==
  ASSUME NEW c, Usable(c), customSlot \in Sizes
  PROVE  /\ Usable(LaunchFixup(c)) /\ Row(LaunchFixup(c).res) = SizeOf(LaunchFixup(c))
         /\ (c.res = Custom => customSlot = SizeOf(c)) => SizeOf(LaunchFixup(c)) = SizeOf(c)
<1> DEFINE rows == {i \in 0 .. Custom : Row(i) = SizeOf(c)}
<1>1. /\ c \in Configs /\ SizeOf(c) \in Sizes /\ SizeOf(c) = <<c.w, c.h>>
      /\ c.fpsIdx # FPS_CUSTOM_INDEX => c.fps = FPS_VALUES[c.fpsIdx]
      /\ c.res # Custom => SizeOf(c) = PresetSizes[c.res]
  BY DEF Usable, SizeOf
<1>2. \A i \in 0 .. 3 : Row(i) \in Sizes /\ (i # Custom => Row(i) = PresetSizes[i])
  BY DEF Row, PresetSizes, Sizes, Custom
<1>3. CASE rows # {}
  <2> DEFINE first == CHOOSE i \in rows : \A j \in rows : i <= j
  <2>1. LaunchFixup(c) = [c EXCEPT !.res = first]
    BY <1>3 DEF LaunchFixup
  <2>2. \E i \in rows : \A j \in rows : i <= j
    <3> DEFINE same == [i \in rows |-> 0]
    <3>1. rows \subseteq Nat /\ same \in [rows -> Nat]
      BY DEF Custom
    <3>2. \E i \in rows : \A j \in rows : same[i] < same[j] \/ (same[i] = same[j] /\ i <= j)
      <4> HIDE DEF rows, same
      <4> QED BY <1>3, <3>1, NearestExists
    <3>3. \A i, j \in rows : ~(same[i] < same[j])
      OBVIOUS
    <3> QED BY <3>2, <3>3
  <2>3. first \in rows
    <3> HIDE DEF rows
    <3> QED BY <2>2
  <2>4. first \in 0 .. 3 /\ Row(first) = SizeOf(c)
    BY <2>3 DEF Custom
  <2> HIDE DEF first
  <2>5. LET x == [c EXCEPT !.res = first]
        IN  x \in Configs /\ x.res = first /\ x.w = c.w /\ x.h = c.h /\ x.fpsIdx = c.fpsIdx /\ x.fps = c.fps
    BY <1>1, <2>4 DEF Configs
  <2>6. SizeOf(LaunchFixup(c)) = SizeOf(c)
    BY <2>1, <2>5 DEF SizeOf
  <2> QED BY <1>1, <1>2, <2>1, <2>4, <2>5, <2>6 DEF Usable
<1>4. CASE rows = {}
  <2> DEFINE size == Row(c.res)
  <2>1. LaunchFixup(c) = [c EXCEPT !.w = size[1], !.h = size[2]]
    BY <1>4 DEF LaunchFixup
  <2>2. c.res \in 0 .. 3
    BY <1>1 DEF Configs
  <2>3. size \in Sizes /\ (c.res # Custom => size = PresetSizes[c.res])
    BY <1>2, <2>2
  <2> HIDE DEF size
  <2>4. size = <<size[1], size[2]>> /\ size[1] \in Nat /\ size[2] \in Nat
    BY <2>3 DEF Sizes
  <2>5. LET x == [c EXCEPT !.w = size[1], !.h = size[2]]
        IN  x \in Configs /\ x.res = c.res /\ x.w = size[1] /\ x.h = size[2] /\ x.fpsIdx = c.fpsIdx /\ x.fps = c.fps
    BY <1>1, <2>4 DEF Configs
  <2>6. SizeOf(LaunchFixup(c)) = size
    BY <2>1, <2>4, <2>5 DEF SizeOf
  <2>7. c.res \notin rows
    BY <1>4
  <2>8. c.res = Custom /\ customSlot # SizeOf(c)
    BY <1>1, <2>2, <2>7 DEF Row, Custom
  <2> QED BY <1>1, <2>1, <2>3, <2>5, <2>6, <2>8 DEF Usable, size
<1> QED BY <1>3, <1>4

\* A packet is whole chunks, within bounds with the header of encrypted video.
LEMMA PacketFits ==
  ASSUME NEW o \in StreamOptions, StreamRequestAssumption
  PROVE  /\ PacketSize(o) % 16 = 0
         /\ PacketSize(o) + (IF "video" \in EncToUse(o) THEN 32 ELSE 0) \in MIN_STREAM_PACKET_SIZE .. MAX_STREAM_PACKET_SIZE
<1> DEFINE p == o.packet
           chunks == p - (p % 16)
           rounded == AtMost(AtLeast(chunks, MIN_STREAM_PACKET_SIZE), MAX_STREAM_PACKET_SIZE)
<1>1. p \in Nat
  BY DEF StreamRequestAssumption
<1>2. PacketSize(o) = IF "video" \in EncToUse(o) THEN rounded - 32 ELSE rounded
  BY DEF PacketSize
<1> HIDE DEF p
<1>3. chunks \in Nat /\ chunks % 16 = 0
  BY <1>1
<1> HIDE DEF chunks
<1>4. rounded \in 512 .. 1392 /\ rounded % 16 = 0
  BY <1>3 DEF AtLeast, AtMost, MIN_STREAM_PACKET_SIZE, MAX_STREAM_PACKET_SIZE
<1> HIDE DEF rounded
<1>5. (rounded - 32) % 16 = 0
  BY <1>4
<1> QED BY <1>2, <1>4, <1>5 DEF MIN_STREAM_PACKET_SIZE, MAX_STREAM_PACKET_SIZE

\* The bitrate that is announced is a base for the controller.
LEMMA RateFits ==
  ASSUME NEW c, Usable(c), NEW o, NEW size
  PROVE  /\ SurvivalCap(c, o, size) \in Nat /\ SurvivalCap(c, o, size) >= BITRATE_MIN_KBPS
         /\ LaunchBitrate(SurvivalCap(c, o, size)) = SurvivalCap(c, o, size)
<1>1. c.bitrate \in Nat
  BY RateRange DEF Usable, Configs
<1>2. LaunchBitrate(c.bitrate) \in Nat /\ LaunchBitrate(c.bitrate) >= BITRATE_MIN_KBPS
  BY <1>1, LaunchFits
<1> DEFINE rate == LaunchBitrate(c.bitrate)
           cap == SurvivalCap(c, o, size)
<1>3. cap \in {rate, AtMost(rate, 192)}
  BY DEF SurvivalCap
<1> HIDE DEF rate, cap
<1>4. rate \in Nat /\ rate >= BITRATE_MIN_KBPS
  BY <1>2 DEF rate
<1>5. cap \in Nat /\ cap >= BITRATE_MIN_KBPS
  BY <1>3, <1>4 DEF AtMost, BITRATE_MIN_KBPS
<1>6. LaunchBitrate(cap) = cap
  BY <1>5 DEF LaunchBitrate, AtLeast, BITRATE_MIN_KBPS
<1> QED BY <1>5, <1>6 DEF cap

\* A stream that is requested tells everyone the same.
LEMMA StreamAgrees ==
  ASSUME SettingsAssumption, StreamRequestAssumption, RequestIInv,
         NEW o \in StreamOptions, NEW resumes \in BOOLEAN, NEW plays \in BOOLEAN, RequestStream(o, resumes, plays)
  PROVE  RequestIInv'
<1> DEFINE g == g_psp_config
           c == IF resumes THEN g ELSE LaunchFixup(g)
           size == Row(c.res)
           rate == SurvivalCap(c, o, size)
<1>1. /\ SettingsIInv /\ moved \in BOOLEAN /\ sAt = "away" /\ ~sent.on /\ Usable(g) /\ customSlot \in Sizes
      /\ ~moved => expected = SizeOf(g)
  BY DEF RequestIInv, SettingsIInv, RequestStream
<1>2. /\ g_psp_config' = c /\ sKept' = (sKept /\ c = g)
      /\ moved' = (moved \/ (g.res = Custom /\ customSlot # SizeOf(g)))
      /\ sent' = (IF plays THEN [on |-> TRUE, resumed |-> resumes, mode |-> LaunchMode(c, o),
                                 sdp |-> Announced(c, o), signal |-> SignalBase(c, o)]
                  ELSE NoStream)
      /\ UNCHANGED <<sAt, sFile, g_menu_state, customSlot, sEdits, expected>>
  BY DEF RequestStream
<1>3. /\ Usable(c) /\ (~resumes => size = SizeOf(c))
      /\ ~moved' => SizeOf(c) = SizeOf(g)
  BY <1>1, <1>2, FixupFits
<1>4. SettingsIInv'
  <2>1. MenuUsable'
    BY <1>1, <1>2 DEF SettingsIInv, MenuUsable
  <2>2. sKept' \in BOOLEAN
    BY <1>1, <1>2 DEF SettingsIInv
  <2>3. sKept' => loadConfig(sFile') = g_psp_config'
    BY <1>1, <1>2 DEF SettingsIInv
  <2> HIDE DEF c
  <2> QED BY <1>1, <1>2, <1>3, <2>1, <2>2, <2>3 DEF SettingsIInv
<1>5. ~moved' => size = SizeOf(c)
  <2>1. CASE ~resumes
    BY <1>3, <2>1
  <2>2. CASE resumes
    BY <1>1, <1>2, <2>2 DEF Row, Usable
  <2> QED BY <2>1, <2>2
<1> HIDE DEF c
<1>6. ~moved' => expected' = SizeOf(c)
  BY <1>1, <1>2, <1>3
<1>7. moved' \in BOOLEAN
  BY <1>1, <1>2
<1>8. CASE ~plays
  <2>1. sent' = NoStream /\ ~sent'.on
    BY <1>2, <1>8 DEF NoStream
  <2>2. AnnouncedAgrees'
    BY <2>1 DEF AnnouncedAgrees
  <2> QED BY <1>1, <1>2, <1>4, <1>6, <1>7, <2>1, <2>2 DEF RequestIInv
<1>9. CASE plays
  <2>1. sent'.on /\ sent'.resumed = resumes /\ sent'.mode = LaunchMode(c, o) /\ sent'.sdp = Announced(c, o)
        /\ sent'.signal = SignalBase(c, o)
    BY <1>2, <1>9
  <2>2. rate \in Nat /\ rate >= BITRATE_MIN_KBPS /\ LaunchBitrate(rate) = rate
    BY <1>3, RateFits
  <2>3. AdaptiveFloor(rate) <= rate
    BY <2>2, FloorFits
  <2>4. /\ sent'.sdp.size = size /\ sent'.sdp.fps = c.fps /\ sent'.sdp.bitrate = rate /\ sent'.sdp.minimum = AdaptiveFloor(rate)
        /\ sent'.sdp.packet = PacketSize(o) /\ sent'.sdp.encryption = EncToUse(o) /\ sent'.sdp.audio = o.audio
        /\ sent'.sdp.slices = network_video_slices_per_frame(o, size, c.fps)
    BY <2>1 DEF Announced
  <2>5. sent'.signal = rate
    BY <2>1, <2>2 DEF SignalBase
  <2>6. ~sent'.resumed => \A f \in DOMAIN sent'.mode : sent'.mode[f] = sent'.sdp[f]
    <3> SUFFICES ASSUME ~resumes PROVE \A f \in DOMAIN sent'.mode : sent'.mode[f] = sent'.sdp[f]
      BY <2>1
    <3>1. sent'.mode = [size |-> SizeOf(c), fps |-> c.fps, slices |-> network_video_slices_per_frame(o, SizeOf(c), c.fps)]
      BY <2>1 DEF LaunchMode
    <3>2. sent'.mode.size = sent'.sdp.size /\ sent'.mode.fps = sent'.sdp.fps /\ sent'.mode.slices = sent'.sdp.slices
      BY <1>3, <2>4, <3>1
    <3>3. DOMAIN sent'.mode = {"size", "fps", "slices"}
      BY <3>1
    <3> QED BY <3>2, <3>3
  <2>7. "audio" \in EncToUse(o) => o.audio
    BY DEF EncToUse
  <2>8. ~moved' => sent'.sdp.size = expected'
    BY <1>5, <1>6, <2>4
  <2>9. AnnouncedAgrees'
    BY <2>2, <2>3, <2>4, <2>5, <2>6, <2>7, <2>8, PacketFits DEF AnnouncedAgrees
  <2> QED BY <1>1, <1>2, <1>4, <1>6, <1>7, <2>9 DEF RequestIInv
<1> QED BY <1>8, <1>9

\* Every step of settings and streams keeps the invariant.
LEMMA RequestStep ==
  ASSUME SettingsAssumption, StreamRequestAssumption, RequestIInv, [RequestNext]_requestVars
  PROVE  RequestIInv'
<1>1. CASE Configure
  <2>1. SettingsIInv' /\ ~sent'.on
    BY <1>1, SettingsStep DEF Configure, RequestIInv
  <2>2. AnnouncedAgrees'
    BY <2>1 DEF AnnouncedAgrees
  <2>3. moved' \in BOOLEAN /\ (sAt' = "away" /\ ~moved' => expected' = SizeOf(g_psp_config'))
    BY <1>1 DEF Configure, RequestIInv, Retarget
  <2> QED BY <2>1, <2>2, <2>3 DEF RequestIInv
<1>2. ASSUME NEW o \in StreamOptions, NEW resumes \in BOOLEAN, NEW plays \in BOOLEAN, RequestStream(o, resumes, plays)
      PROVE  RequestIInv'
  BY <1>2, StreamAgrees
<1>3. CASE StreamOver
  <2>1. ~sent'.on
    BY <1>3 DEF StreamOver, NoStream
  <2>2. AnnouncedAgrees'
    BY <2>1 DEF AnnouncedAgrees
  <2>3. SettingsIInv'
    BY <1>3 DEF StreamOver, settingsVars, RequestIInv, SettingsIInv, MenuUsable
  <2>4. moved' = FALSE /\ expected' = SizeOf(g_psp_config')
    BY <1>3 DEF StreamOver, Retarget, settingsVars
  <2> QED BY <2>1, <2>2, <2>3, <2>4 DEF RequestIInv
<1>4. CASE UNCHANGED requestVars
  <2>1. SettingsIInv'
    BY <1>4 DEF requestVars, settingsVars, RequestIInv, SettingsIInv, MenuUsable
  <2> QED BY <1>4, <2>1 DEF requestVars, settingsVars, RequestIInv, AnnouncedAgrees
<1> QED BY <1>1, <1>2, <1>3, <1>4 DEF RequestNext

\* What can be streamed is an even size of 30:17 that the panel can show, at a rate within bounds.
LEMMA UsableLaunches == SettingsIInv => LaunchUsable
<1> SUFFICES ASSUME SettingsIInv, sAt = "away" PROVE LaunchUsable
  BY DEF LaunchUsable
<1>1. Usable(g_psp_config) /\ (sKept => loadConfig(sFile) = g_psp_config)
  BY DEF SettingsIInv
<1>2. \E s \in {10, 12, 14, 16} : g_psp_config.w = 30 * s /\ g_psp_config.h = 17 * s
  BY <1>1 DEF Usable, SizeOf, Sizes
<1>3. /\ g_psp_config.fps \in 1 .. 144 /\ g_psp_config.bitrate \in MIN_BITRATE .. MAX_BITRATE
      /\ g_psp_config.fpsIdx # FPS_CUSTOM_INDEX => g_psp_config.fps = FPS_VALUES[g_psp_config.fpsIdx]
  BY <1>1 DEF Usable, Configs
<1> QED BY <1>1, <1>2, <1>3 DEF LaunchUsable

\* Whatever is in the file, pressed, typed and saved, a stream is launched with what can be streamed
\* and what the next boot reads back, and host, SDP, controller and AVC session are told the same
\* (loadConfig, update_config_from_menu, sunshine_launch_session, rtsp_announce).
THEOREM StreamIsAsConfigured == RequestInit /\ [][RequestNext]_requestVars => []StreamAsConfigured
<1>1. RequestInit => RequestIInv
  <2> SUFFICES ASSUME RequestInit PROVE RequestIInv
    OBVIOUS
  <2>1. SettingsIInv /\ ~sent.on /\ moved \in BOOLEAN /\ sAt = "boot"
    BY SettingsAssumption, SettingsInitInv DEF RequestInit, NoStream, SettingsInit
  <2> QED BY <2>1 DEF RequestIInv, AnnouncedAgrees
<1>2. RequestIInv /\ [RequestNext]_requestVars => RequestIInv'
  BY SettingsAssumption, StreamRequestAssumption, RequestStep
<1>3. RequestIInv => StreamAsConfigured
  BY UsableLaunches DEF RequestIInv, StreamAsConfigured
<1> QED BY <1>1, <1>2, <1>3, PTL

(***************************************************************************)
(* The hosts and what config.ini keeps of them.                            *)
(***************************************************************************)
Hosts == [ip : Ips, paired : BOOLEAN]
IpLists == Seq(Ips)

HostTypes ==
    /\ hScreen \in {"off", "settings", "list", "scan", "connect"}
    /\ g_manual_hosts \in IpLists /\ hPaired \in IpLists /\ hLast \in IpLists
    /\ hDisk \in [manual : IpLists, paired : IpLists]
    /\ g_hosts \in Seq(Hosts) /\ g_last_paired_host \in Ips \cup {NoIp}
    /\ hScreen = "connect" => hTarget \in Hosts

\* The selection is in the list, or at its start when it is empty.
SelectionIn(s, i) == i \in Nat /\ (s = <<>> => i = 0) /\ (s # <<>> => i < Len(s))

\* While the process runs, the copy that manual hosts are saved with has the pairings of the file.
HostInv ==
    /\ HostTypes
    /\ SelectionIn(g_hosts, g_selected_index)
    /\ hScreen # "off" => hLast = hDisk.paired

\* A removal takes one host out of a list of hosts, and no other.
LEMMA RemovalKeeps ==
  ASSUME NEW s \in IpLists, NEW ip
  PROVE  /\ WithoutIp(s, ip) \in IpLists
         /\ \A x \in ToSet(s) : x # ip => x \in ToSet(WithoutIp(s, ip))
<1>1. CASE ~ \E i \in 1 .. Len(s) : s[i] = ip
  <2>1. WithoutIp(s, ip) = s
    BY <1>1 DEF WithoutIp, RemoveFirst
  <2> QED BY <2>1
<1>2. CASE \E i \in 1 .. Len(s) : s[i] = ip
  <2> DEFINE I == {i \in 1 .. Len(s) : s[i] = ip}
             k == Min(I)
             w == RemoveAt(s, k)
  <2>1. WithoutIp(s, ip) = w
    BY <1>2 DEF WithoutIp, RemoveFirst, SelectInSeq
  <2>2. k \in I
    <3>1. I \subseteq Nat /\ I # {}
      BY <1>2 DEF IpLists
    <3> DEFINE less == {ss \in Nat \X Nat : ss[1] < ss[2]}
    <3>2. IsWellFoundedOn(less, Nat)
      BY NatLessThanWellFounded DEF OpToRel
    <3>3. \A x, y \in Nat : <<x, y>> \in less <=> x < y
      OBVIOUS
    <3> HIDE DEF less, I
    <3>4. PICK m \in I : \A y \in I : ~ (<<y, m>> \in less)
      BY <3>1, <3>2, WFMin
    <3>5. ASSUME NEW y \in I PROVE m =< y
      <4>1. m \in Nat /\ y \in Nat
        BY <3>1, <3>4
      <4>2. ~ (y < m)
        BY <3>3, <3>4, <4>1
      <4> QED BY <4>1, <4>2
    <3> QED BY <3>4, <3>5 DEF Min
  <2> HIDE DEF k
  <2>3. k \in 1 .. Len(s) /\ s[k] = ip /\ Len(s) \in Nat
    BY <2>2 DEF IpLists
  <2>4. /\ SubSeq(s, 1, k - 1) \in IpLists /\ Len(SubSeq(s, 1, k - 1)) = k - 1
        /\ \A i \in 1 .. k - 1 : SubSeq(s, 1, k - 1)[i] = s[i]
    BY <2>3 DEF IpLists
  <2>5. /\ SubSeq(s, k + 1, Len(s)) \in IpLists /\ Len(SubSeq(s, k + 1, Len(s))) = Len(s) - k
        /\ \A i \in 1 .. Len(s) - k : SubSeq(s, k + 1, Len(s))[i] = s[k + i]
    BY <2>3 DEF IpLists
  <2>6. /\ w \in IpLists /\ Len(w) = Len(s) - 1
        /\ \A i \in 1 .. Len(w) : w[i] = IF i < k THEN s[i] ELSE s[i + 1]
    <3> DEFINE a == SubSeq(s, 1, k - 1)
               b == SubSeq(s, k + 1, Len(s))
    <3>1. w = a \o b
      BY DEF RemoveAt
    <3>2. a \in Seq(Ips) /\ b \in Seq(Ips) /\ Len(a) = k - 1 /\ Len(b) = Len(s) - k
      BY <2>4, <2>5 DEF IpLists
    <3> HIDE DEF a, b, w
    <3>3. w \in Seq(Ips) /\ Len(w) = Len(a) + Len(b)
          /\ \A i \in 1 .. Len(a) + Len(b) : w[i] = IF i <= Len(a) THEN a[i] ELSE b[i - Len(a)]
      BY <3>1, <3>2
    <3>4. ASSUME NEW i \in 1 .. Len(w) PROVE w[i] = IF i < k THEN s[i] ELSE s[i + 1]
      <4>1. CASE i < k
        <5>1. i \in 1 .. k - 1 /\ w[i] = a[i]
          BY <2>3, <3>2, <3>3, <4>1
        <5>2. a[i] = s[i]
          BY <2>4, <5>1 DEF a
        <5> QED BY <4>1, <5>1, <5>2
      <4>2. CASE ~ (i < k)
        <5>1. i - (k - 1) \in 1 .. Len(s) - k /\ w[i] = b[i - (k - 1)]
          BY <2>3, <3>2, <3>3, <4>2
        <5>2. b[i - (k - 1)] = s[k + (i - (k - 1))]
          BY <2>5, <5>1 DEF b
        <5>3. k + (i - (k - 1)) = i + 1
          BY <2>3
        <5> QED BY <4>2, <5>1, <5>2, <5>3
      <4> QED BY <4>1, <4>2
    <3> QED BY <2>3, <3>2, <3>3, <3>4 DEF IpLists
  <2> HIDE DEF w
  <2>7. ASSUME NEW j \in 1 .. Len(s), s[j] # ip PROVE s[j] \in ToSet(w)
    <3>1. CASE j < k
      BY <2>3, <2>6, <2>7, <3>1 DEF ToSet, IpLists
    <3>2. CASE j > k
      <4>1. j - 1 \in 1 .. Len(w) /\ w[j - 1] = s[j]
        BY <2>3, <2>6, <3>2
      <4> QED BY <2>6, <4>1 DEF ToSet, IpLists
    <3> QED BY <2>3, <2>7, <3>1, <3>2
  <2> QED BY <2>1, <2>6, <2>7 DEF ToSet, IpLists
<1> QED BY <1>1, <1>2

\* A pairing that is added takes no other out of the list, unless its slots are full.
LEMMA PairingKeeps ==
  ASSUME hPaired \in IpLists, NEW ip \in Ips
  PROVE  /\ WithPaired(ip) \in IpLists
         /\ \A x \in ToSet(hPaired) : x \in ToSet(WithPaired(ip)) \/ Len(WithPaired(ip)) = MaxPaired
<1> DEFINE r == WithoutIp(hPaired, ip)
           s == <<ip>> \o r
           n == IF Len(s) < MaxPaired THEN Len(s) ELSE MaxPaired
<1>0. MaxPaired \in Nat \ {0}
  BY HostListAssumption DEF HostListAssumption
<1>1. r \in Seq(Ips) /\ \A x \in ToSet(hPaired) : x # ip => x \in ToSet(r)
  BY RemovalKeeps DEF IpLists
<1> HIDE DEF r
<1>2. s \in Seq(Ips) /\ Len(s) = Len(r) + 1 /\ s[1] = ip /\ \A i \in 1 .. Len(r) : s[i + 1] = r[i]
  BY <1>1
<1>3. WithPaired(ip) = SubSeq(s, 1, n)
  BY DEF WithPaired, r
<1> HIDE DEF s
<1>4. n \in 1 .. Len(s) /\ Len(s) \in Nat
  BY <1>0, <1>1, <1>2
<1>5. SubSeq(s, 1, n) \in Seq(Ips) /\ Len(SubSeq(s, 1, n)) = n
  BY <1>2, <1>4
<1>6. ASSUME NEW x \in ToSet(hPaired) PROVE x \in ToSet(SubSeq(s, 1, n)) \/ n = MaxPaired
  <2>1. x \in ToSet(s)
    <3>1. CASE x = ip
      BY <1>1, <1>2, <3>1 DEF ToSet
    <3>2. CASE x # ip
      <4>1. PICK j \in 1 .. Len(r) : r[j] = x
        <5>1. x \in ToSet(r) /\ DOMAIN r = 1 .. Len(r)
          BY <1>1, <3>2
        <5> QED BY <5>1 DEF ToSet
      <4>2. j + 1 \in 1 .. Len(s) /\ s[j + 1] = x
        BY <1>1, <1>2, <4>1
      <4> QED BY <1>2, <4>2 DEF ToSet
    <3> QED BY <3>1, <3>2
  <2>2. CASE Len(s) < MaxPaired
    <3>1. SubSeq(s, 1, n) = s
      BY <1>2, <2>2
    <3> QED BY <2>1, <3>1
  <2>3. CASE ~ (Len(s) < MaxPaired)
    BY <2>3
  <2> QED BY <2>2, <2>3
<1> QED BY <1>3, <1>5, <1>6 DEF IpLists

\* A host that is added to the manual ones takes none away.
LEMMA ManualKeeps ==
  ASSUME g_manual_hosts \in IpLists, NEW ip \in Ips
  PROVE  WithManual(ip) \in IpLists /\ ToSet(g_manual_hosts) \subseteq ToSet(WithManual(ip))
<1>1. CASE Contains(g_manual_hosts, ip)
  BY <1>1 DEF WithManual
<1>2. CASE ~ Contains(g_manual_hosts, ip)
  <2>1. WithManual(ip) = Append(g_manual_hosts, ip)
    BY <1>2 DEF WithManual
  <2>2. /\ Append(g_manual_hosts, ip) \in Seq(Ips) /\ Len(Append(g_manual_hosts, ip)) = Len(g_manual_hosts) + 1
        /\ \A i \in 1 .. Len(g_manual_hosts) : Append(g_manual_hosts, ip)[i] = g_manual_hosts[i]
    BY DEF IpLists
  <2> QED BY <2>1, <2>2 DEF ToSet, IpLists
<1> QED BY <1>1, <1>2

\* A set of addresses is made a sequence of them.
LEMMA SetInOrder ==
  ASSUME NEW S \in SUBSET Ips
  PROVE  SetToSeq(S) \in Seq(Ips)
<1>1. IsFiniteSet(S)
  BY HostListAssumption, FS_Subset DEF HostListAssumption
<1>2. Cardinality(S) \in Nat /\ ExistsBijection(1 .. Cardinality(S), S)
  BY <1>1, FS_CardinalityType
<1>3. \E f \in [1 .. Cardinality(S) -> S] : IsInjective(f)
  BY <1>2 DEF ExistsBijection, Bijection, Injection, IsInjective
<1>4. SetToSeq(S) \in [1 .. Cardinality(S) -> S]
  BY <1>3 DEF SetToSeq
<1> QED BY <1>2, <1>4

\* A scan lists hosts.
LEMMA ScanLists ==
  ASSUME NEW s \in Seq(Hosts), NEW paired, NEW t \in Scans(s, paired)
  PROVE  t \in Seq(Hosts)
<1>1. PICK answering \in SUBSET ToSet(paired), found \in NewHosts : t = Scanned(s, answering, found)
  BY DEF Scans
<1> DEFINE probed == [i \in DOMAIN s |-> IF s[i].ip \in answering THEN Entry(s[i].ip, TRUE) ELSE s[i]]
           new == SetToSeq(found \ ListedIps(s))
           added == [i \in DOMAIN new |-> Entry(new[i], new[i] \in answering)]
           all == probed \o added
           n == IF Len(all) < MaxHosts THEN Len(all) ELSE MaxHosts
<1>2. \A ip \in Ips : \A answers : Entry(ip, answers) \in Hosts
  BY DEF Entry, Hosts
<1>3. probed \in Seq(Hosts)
  <2>0. \A i \in 1 .. Len(s) : s[i] \in Hosts
    BY ElementOfSeq
  <2>1. \A i \in 1 .. Len(s) : s[i] \in Hosts /\ s[i].ip \in Ips
    BY <2>0 DEF Hosts
  <2>2. \A i \in 1 .. Len(s) : (IF s[i].ip \in answering THEN Entry(s[i].ip, TRUE) ELSE s[i]) \in Hosts
    BY <1>2, <2>1
  <2>3. DOMAIN s = 1 .. Len(s) /\ Len(s) \in Nat
    OBVIOUS
  <2>4. \A i \in 1 .. Len(s) : probed[i] \in Hosts
    BY <2>2, <2>3
  <2>5. probed = [i \in 1 .. Len(s) |-> probed[i]]
    BY <2>3
  <2> HIDE DEF probed
  <2>6. probed \in [1 .. Len(s) -> Hosts]
    BY <2>4, <2>5
  <2> QED BY <2>3, <2>6
<1>4. new \in Seq(Ips)
  <2>1. found \ ListedIps(s) \in SUBSET Ips
    BY DEF NewHosts
  <2> QED BY <2>1, SetInOrder
<1> HIDE DEF new
<1>5. added \in Seq(Hosts)
  <2>1. \A i \in 1 .. Len(new) : Entry(new[i], new[i] \in answering) \in Hosts
    BY <1>2, <1>4
  <2>2. DOMAIN new = 1 .. Len(new) /\ Len(new) \in Nat
    BY <1>4
  <2> QED BY <2>1, <2>2
<1> HIDE DEF probed, added
<1>6. all \in Seq(Hosts)
  BY <1>3, <1>5
<1>7. t = SubSeq(all, 1, n)
  BY <1>1 DEF Scanned, probed, added, new
<1> HIDE DEF all
<1>8. n \in 0 .. Len(all)
  BY <1>6, HostListAssumption DEF HostListAssumption
<1> QED BY <1>6, <1>7, <1>8

\* Whatever list is shown, the selection is in it.
LEMMA SelectionShown ==
  ASSUME NEW s \in Seq(Hosts), NEW sel \in Nat, ListIs(s, sel)
  PROVE  g_hosts' = s /\ SelectionIn(g_hosts', g_selected_index')
<1>1. Len(s) \in Nat /\ (s = <<>> <=> Len(s) = 0)
  OBVIOUS
<1> QED BY <1>1 DEF ListIs, SelectionIn

\* The list is opened on hosts, with the selection among them.
LEMMA ListOpens ==
  ASSUME HostTypes, g_manual_hosts' \in IpLists, g_selected_index \in Nat, OpenList
  PROVE  hScreen' = "list" /\ g_hosts' \in Seq(Hosts) /\ SelectionIn(g_hosts', g_selected_index')
<1> DEFINE manual == [i \in DOMAIN g_manual_hosts' |->
                        [ip |-> g_manual_hosts'[i], paired |-> Contains(hPaired', g_manual_hosts'[i])]]
<1>1. manual \in Seq(Hosts)
  <2>1. \A i \in 1 .. Len(g_manual_hosts') : g_manual_hosts'[i] \in Ips
    BY DEF IpLists
  <2>2. \A i \in 1 .. Len(g_manual_hosts') : Contains(hPaired', g_manual_hosts'[i]) \in BOOLEAN
    BY DEF Contains
  <2>3. \A i \in 1 .. Len(g_manual_hosts') :
           [ip |-> g_manual_hosts'[i], paired |-> Contains(hPaired', g_manual_hosts'[i])] \in Hosts
    BY <2>1, <2>2 DEF Hosts
  <2>4. DOMAIN g_manual_hosts' = 1 .. Len(g_manual_hosts') /\ Len(g_manual_hosts') \in Nat
    BY DEF IpLists
  <2> QED BY <2>3, <2>4
<1>2. hScreen' = "list" /\ \E s \in Scans(manual, hPaired') : ListIs(s, g_selected_index)
  BY DEF OpenList
<1> HIDE DEF manual
<1>3. PICK s \in Scans(manual, hPaired') : ListIs(s, g_selected_index)
  BY <1>2
<1>4. s \in Seq(Hosts)
  BY <1>1, ScanLists
<1> QED BY <1>2, <1>3, <1>4, SelectionShown

\* A save writes lists of hosts, or none, and keeps its copy of the pairings like the file's.
LEMMA SaveKeeps ==
  ASSUME HostInv, hScreen # "off", NEW opened \in BOOLEAN, NEW manual \in IpLists, NEW paired \in IpLists,
         Save(opened, manual, paired)
  PROVE  /\ g_manual_hosts' = manual /\ hLast' \in IpLists /\ hDisk' \in [manual : IpLists, paired : IpLists]
         /\ hLast' = hDisk'.paired
         /\ hDisk' = hDisk \/ hDisk' = [manual |-> manual, paired |-> paired]
<1>1. CASE opened
  BY <1>1 DEF Save
<1>2. CASE ~ opened
  BY <1>2 DEF Save, HostInv, HostTypes
<1> QED BY <1>1, <1>2

LEMMA UnsavedKeeps ==
  ASSUME HostInv, hScreen # "off", NotSaved
  PROVE  /\ g_manual_hosts' \in IpLists /\ hLast' \in IpLists /\ hDisk' \in [manual : IpLists, paired : IpLists]
         /\ hLast' = hDisk'.paired /\ hDisk' = hDisk /\ g_manual_hosts' = g_manual_hosts
BY DEF NotSaved, HostInv, HostTypes

\* Adding a manual host takes no host away.
LEMMA AddKeeps ==
  ASSUME HostInv, hScreen # "off", NEW ip \in Ips, NEW opened \in BOOLEAN, config_add_manual_host(ip, opened)
  PROVE  /\ g_manual_hosts' \in IpLists /\ hLast' \in IpLists /\ hDisk' \in [manual : IpLists, paired : IpLists]
         /\ hLast' = hDisk'.paired
         /\ ToSet(g_manual_hosts) \subseteq ToSet(g_manual_hosts')
         /\ hDisk' = hDisk \/ hDisk' = [manual |-> g_manual_hosts', paired |-> hDisk.paired]
<1>1. CASE ManualFull(ip)
  BY <1>1, UnsavedKeeps DEF config_add_manual_host
<1>2. CASE ~ ManualFull(ip)
  <2>1. Save(opened, WithManual(ip), hLast) /\ g_manual_hosts \in IpLists /\ hLast \in IpLists /\ hLast = hDisk.paired
    BY <1>2 DEF config_add_manual_host, HostInv, HostTypes
  <2>2. WithManual(ip) \in IpLists /\ ToSet(g_manual_hosts) \subseteq ToSet(WithManual(ip))
    BY <2>1, ManualKeeps
  <2> QED BY <2>1, <2>2, SaveKeeps
<1> QED BY <1>1, <1>2

\* A process that loses its power leaves lists in the file.
LEMMA LossKeeps ==
  ASSUME HostInv, NEW manual \in IpLists, NEW paired \in IpLists, SaveLost(manual, paired)
  PROVE  HostInv' /\ hScreen' = "off"
<1>1. <<>> \in IpLists /\ <<>> \in Seq(Hosts)
  BY DEF IpLists
<1>2. Prefixes(manual) \subseteq IpLists /\ Prefixes(paired) \subseteq IpLists
  <2>1. \A s \in IpLists : \A n \in 0 .. Len(s) : SubSeq(s, 1, n) \in IpLists
    BY DEF IpLists
  <2> QED BY <2>1 DEF Prefixes
<1>3. hDisk' \in [manual : IpLists, paired : IpLists]
  <2>1. \/ \E m \in Prefixes(manual) : hDisk' = [manual |-> m, paired |-> <<>>]
        \/ \E p \in Prefixes(paired) : hDisk' = [manual |-> manual, paired |-> p]
    BY DEF SaveLost
  <2> QED BY <1>1, <1>2, <2>1
<1> QED BY <1>1, <1>3 DEF SaveLost, PowerOff, HostInv, HostTypes, SelectionIn

\* What HostsKept asks of a step, of the pairings and of the manual hosts.
PairingsKept ==
    \A ip \in ToSet(hPaired) \cap ToSet(hDisk.paired) :
        \/ ip \in ToSet(hPaired') \cap ToSet(hDisk'.paired)
        \/ Refuses(ip) \/ MaxPaired \in {Len(hPaired'), Len(hDisk'.paired)}
ManualsKept ==
    \A ip \in ToSet(g_manual_hosts) \cap ToSet(hDisk.manual) :
        ip \in ToSet(g_manual_hosts') \cap ToSet(hDisk'.manual) \/ Deletes(ip)

\* The settings menu reads the file.
LEMMA EnterKeeps == ASSUME HostInv, EnterSettings PROVE HostInv' /\ PairingsKept /\ ManualsKept
<1>1. hDisk \in [manual : IpLists, paired : IpLists] /\ hDisk' = hDisk
      /\ g_manual_hosts' = hDisk.manual /\ hPaired' = hDisk.paired /\ hLast' = hDisk.paired
  BY DEF EnterSettings, HostInv, HostTypes
<1>2. g_last_paired_host' \in Ips \cup {NoIp}
  <2>1. CASE hDisk.paired = <<>>
    BY <2>1 DEF EnterSettings, HostInv, HostTypes
  <2>2. CASE hDisk.paired # <<>>
    BY <1>1, <2>2 DEF EnterSettings, IpLists
  <2> QED BY <2>1, <2>2
<1>3. <<>> \in Seq(Hosts)
  OBVIOUS
<1>4. HostInv'
  BY <1>1, <1>2, <1>3 DEF EnterSettings, HostInv, HostTypes, SelectionIn
<1> QED BY <1>1, <1>4 DEF PairingsKept, ManualsKept

\* Leaving the menu saves all that is in memory, or nothing.
LEMMA LeaveKeeps ==
  ASSUME HostInv, SkipSettings \/ \E opened \in BOOLEAN : LeaveSettings(opened)
  PROVE  HostInv' /\ PairingsKept /\ ManualsKept
<1>1. /\ hScreen = "settings" /\ OpenList /\ UNCHANGED <<hPaired, g_last_paired_host, hTarget>>
      /\ NotSaved \/ \E opened \in BOOLEAN : Save(opened, g_manual_hosts, hPaired)
  BY DEF SkipSettings, LeaveSettings
<1>2. g_manual_hosts \in IpLists /\ hPaired \in IpLists
  BY DEF HostInv, HostTypes
<1>3. /\ g_manual_hosts' = g_manual_hosts /\ hLast' \in IpLists /\ hDisk' \in [manual : IpLists, paired : IpLists]
      /\ hLast' = hDisk'.paired
      /\ hDisk' = hDisk \/ hDisk' = [manual |-> g_manual_hosts, paired |-> hPaired]
  BY <1>1, <1>2, SaveKeeps, UnsavedKeeps
<1>4. hScreen' = "list" /\ g_hosts' \in Seq(Hosts) /\ SelectionIn(g_hosts', g_selected_index')
  BY <1>1, <1>2, <1>3, ListOpens DEF HostInv, SelectionIn
<1>5. HostInv'
  BY <1>1, <1>2, <1>3, <1>4 DEF HostInv, HostTypes
<1> QED BY <1>1, <1>3, <1>5 DEF PairingsKept, ManualsKept

\* The list and the scan.
LEMMA BrowseKeeps ==
  ASSUME HostInv, Rescan \/ ScanEnds \/ \E d \in {-1, 1} : Move(d)
  PROVE  HostInv' /\ PairingsKept /\ ManualsKept
<1>1. /\ UNCHANGED <<g_manual_hosts, hPaired, hLast, hDisk, g_last_paired_host, hTarget>>
      /\ hScreen \in {"list", "scan"} /\ hScreen' \in {"list", "scan"}
  BY DEF Rescan, ScanEnds, Move
<1>2. g_hosts \in Seq(Hosts) /\ g_selected_index \in Nat
  BY DEF HostInv, HostTypes, SelectionIn
<1>3. g_hosts' \in Seq(Hosts) /\ SelectionIn(g_hosts', g_selected_index')
  <2>1. CASE Rescan
    <3>1. PICK s \in Scans(g_hosts, hPaired) : ListIs(s, g_selected_index)
      BY <2>1 DEF Rescan
    <3>2. s \in Seq(Hosts)
      BY <1>2, ScanLists
    <3> QED BY <1>2, <3>1, <3>2, SelectionShown
  <2>2. CASE ScanEnds
    <3>1. ListIs(g_hosts, g_selected_index)
      BY <2>2 DEF ScanEnds
    <3> QED BY <1>2, <3>1, SelectionShown
  <2>3. ASSUME NEW d \in {-1, 1}, Move(d) PROVE g_hosts' \in Seq(Hosts) /\ SelectionIn(g_hosts', g_selected_index')
    <3>1. ListIs(g_hosts, g_selected_index + d) /\ g_selected_index + d \in Nat
      BY <1>2, <2>3 DEF Move
    <3> QED BY <1>2, <3>1, SelectionShown
  <2> QED BY <2>1, <2>2, <2>3
<1> QED BY <1>1, <1>3 DEF HostInv, HostTypes, PairingsKept, ManualsKept

\* A host that is listed is a host.
LEMMA HostIsListed ==
  ASSUME NEW ip \in Ips, NEW answers \in BOOLEAN
  PROVE  Entry(ip, answers) \in Hosts
BY DEF Entry, Hosts, Contains

LEMMA ListGrows ==
  ASSUME NEW s \in Seq(Hosts), NEW e \in Hosts
  PROVE  addOrUpdateHost(s, e) \in Seq(Hosts) /\ Len(addOrUpdateHost(s, e)) >= Len(s)
BY DEF addOrUpdateHost

\* The scan finds a host and saves it.
LEMMA FindKeeps ==
  ASSUME HostInv, NEW ip \in Ips, NEW answers \in BOOLEAN, NEW opened \in BOOLEAN, ScanFinds(ip, answers, opened)
  PROVE  HostInv' /\ PairingsKept /\ ManualsKept
<1>1. /\ hScreen = "scan" /\ config_add_manual_host(ip, opened)
      /\ g_hosts' = addOrUpdateHost(g_hosts, Entry(ip, answers))
      /\ UNCHANGED <<hScreen, hPaired, g_selected_index, g_last_paired_host, hTarget>>
  BY DEF ScanFinds
<1>2. /\ g_manual_hosts' \in IpLists /\ hLast' \in IpLists /\ hDisk' \in [manual : IpLists, paired : IpLists]
      /\ hLast' = hDisk'.paired
      /\ ToSet(g_manual_hosts) \subseteq ToSet(g_manual_hosts')
      /\ hDisk' = hDisk \/ hDisk' = [manual |-> g_manual_hosts', paired |-> hDisk.paired]
  BY <1>1, AddKeeps
<1>3. g_hosts' \in Seq(Hosts) /\ SelectionIn(g_hosts', g_selected_index')
  <2>1. g_hosts' \in Seq(Hosts) /\ Len(g_hosts') >= Len(g_hosts) /\ g_hosts \in Seq(Hosts)
    BY <1>1, HostIsListed, ListGrows DEF HostInv, HostTypes
  <2> QED BY <1>1, <2>1 DEF HostInv, SelectionIn
<1>4. HostInv'
  BY <1>1, <1>2, <1>3 DEF HostInv, HostTypes
<1> QED BY <1>1, <1>2, <1>4 DEF PairingsKept, ManualsKept

\* So does the user who enters an address.
LEMMA EnteredKeeps ==
  ASSUME HostInv, NEW ip \in Ips, NEW answers \in BOOLEAN, NEW opened \in BOOLEAN, Add(ip, answers, opened)
  PROVE  HostInv' /\ PairingsKept /\ ManualsKept
<1> DEFINE s == addOrUpdateHost(g_hosts, Entry(ip, FALSE))
           t == IF answers /\ ip \in ListedIps(s) THEN [s EXCEPT ![IndexOf(s, ip)] = Entry(ip, TRUE)] ELSE s
           u == IF ~opened \/ ManualFull(ip) THEN g_hosts ELSE t
<1>1. /\ hScreen = "list" /\ config_add_manual_host(ip, opened) /\ ListIs(u, g_selected_index)
      /\ UNCHANGED <<hScreen, hPaired, g_last_paired_host, hTarget>>
  BY DEF Add
<1>2. /\ g_manual_hosts' \in IpLists /\ hLast' \in IpLists /\ hDisk' \in [manual : IpLists, paired : IpLists]
      /\ hLast' = hDisk'.paired
      /\ ToSet(g_manual_hosts) \subseteq ToSet(g_manual_hosts')
      /\ hDisk' = hDisk \/ hDisk' = [manual |-> g_manual_hosts', paired |-> hDisk.paired]
  BY <1>1, AddKeeps
<1>3. u \in Seq(Hosts)
  <2>1. g_hosts \in Seq(Hosts) /\ Entry(ip, FALSE) \in Hosts /\ Entry(ip, TRUE) \in Hosts
    BY HostIsListed DEF HostInv, HostTypes
  <2>2. s \in Seq(Hosts)
    BY <2>1, ListGrows
  <2> HIDE DEF s
  <2>3. [s EXCEPT ![IndexOf(s, ip)] = Entry(ip, TRUE)] \in Seq(Hosts)
    <3> DEFINE j == IndexOf(s, ip)
               e == Entry(ip, TRUE)
               x == [s EXCEPT ![j] = e]
    <3> HIDE DEF j, e
    <3>1. DOMAIN x = 1 .. Len(s) /\ Len(s) \in Nat
      BY <2>2
    <3>2. \A i \in 1 .. Len(s) : x[i] \in Hosts
      <4>1. \A i \in 1 .. Len(s) : s[i] \in Hosts
        BY <2>2, ElementOfSeq
      <4>2. e \in Hosts
        BY <2>1 DEF e
      <4>3. ASSUME NEW i \in 1 .. Len(s) PROVE x[i] = IF i = j THEN e ELSE s[i]
        BY <2>2
      <4> HIDE DEF x
      <4> QED BY <4>1, <4>2, <4>3
    <3>3. x = [i \in 1 .. Len(s) |-> x[i]]
      BY <3>1
    <3> HIDE DEF x
    <3>4. x \in [1 .. Len(s) -> Hosts]
      BY <3>2, <3>3
    <3>5. x \in Seq(Hosts)
      BY <3>1, <3>4
    <3> QED BY <3>5 DEF x, j, e
  <2> QED BY <2>1, <2>2, <2>3
<1> HIDE DEF u
<1>4. g_hosts' \in Seq(Hosts) /\ SelectionIn(g_hosts', g_selected_index')
  BY <1>1, <1>3, SelectionShown DEF HostInv, SelectionIn
<1>5. HostInv'
  BY <1>1, <1>2, <1>4 DEF HostInv, HostTypes
<1> QED BY <1>1, <1>2, <1>5 DEF PairingsKept, ManualsKept

\* A host that is deleted is the selected one, and leaves the list.
LEMMA DeleteKeeps ==
  ASSUME HostInv, NEW opened \in BOOLEAN, Delete(opened)
  PROVE  HostInv' /\ PairingsKept /\ ManualsKept
<1> DEFINE k == g_selected_index + 1
           ip == g_hosts[k].ip
           t == RemoveAt(g_hosts, k)
<1>1. /\ hScreen = "list" /\ g_hosts # <<>> /\ ListIs(t, g_selected_index)
      /\ IF Contains(g_manual_hosts, ip) THEN Save(opened, WithoutIp(g_manual_hosts, ip), hLast) ELSE NotSaved
      /\ UNCHANGED <<hScreen, hPaired, g_last_paired_host, hTarget>>
  BY DEF Delete
<1>2. g_hosts \in Seq(Hosts) /\ k \in 1 .. Len(g_hosts) /\ Len(g_hosts) \in Nat /\ g_selected_index \in Nat
  BY <1>1 DEF HostInv, HostTypes, SelectionIn
<1>3. t \in Seq(Hosts) /\ Len(t) = Len(g_hosts) - 1
  <2> HIDE DEF k
  <2>1. /\ SubSeq(g_hosts, 1, k - 1) \in Seq(Hosts) /\ Len(SubSeq(g_hosts, 1, k - 1)) = k - 1
        /\ SubSeq(g_hosts, k + 1, Len(g_hosts)) \in Seq(Hosts)
        /\ Len(SubSeq(g_hosts, k + 1, Len(g_hosts))) = Len(g_hosts) - k
    BY <1>2
  <2> DEFINE a == SubSeq(g_hosts, 1, k - 1)
             b == SubSeq(g_hosts, k + 1, Len(g_hosts))
  <2>2. t = a \o b
    BY DEF RemoveAt
  <2> HIDE DEF t
  <2>3. a \in Seq(Hosts) /\ b \in Seq(Hosts) /\ Len(a) + Len(b) = Len(g_hosts) - 1
    <3>1. a \in Seq(Hosts) /\ b \in Seq(Hosts) /\ Len(a) = k - 1 /\ Len(b) = Len(g_hosts) - k
      BY <2>1
    <3> HIDE DEF a, b
    <3> QED BY <1>2, <3>1
  <2> HIDE DEF a, b
  <2>4. t \in Seq(Hosts) /\ Len(t) = Len(a) + Len(b)
    BY <2>2, <2>3
  <2> QED BY <2>3, <2>4
<1> HIDE DEF t
<1>4. g_hosts' = t /\ SelectionIn(g_hosts', g_selected_index')
  BY <1>1, <1>2, <1>3, SelectionShown
<1>5. Deletes(ip)
  BY <1>1, <1>2, <1>3, <1>4 DEF Deletes
<1> HIDE DEF ip, k
<1>6. /\ g_manual_hosts' \in IpLists /\ hLast' \in IpLists /\ hDisk' \in [manual : IpLists, paired : IpLists]
      /\ hLast' = hDisk'.paired
      /\ \A x \in ToSet(g_manual_hosts) : x # ip => x \in ToSet(g_manual_hosts')
      /\ hDisk' = hDisk \/ hDisk' = [manual |-> g_manual_hosts', paired |-> hDisk.paired]
  <2>1. g_manual_hosts \in IpLists /\ hLast \in IpLists /\ hLast = hDisk.paired
    BY <1>1 DEF HostInv, HostTypes
  <2>2. CASE Contains(g_manual_hosts, ip)
    <3>1. WithoutIp(g_manual_hosts, ip) \in IpLists /\ Save(opened, WithoutIp(g_manual_hosts, ip), hLast)
      BY <1>1, <2>1, <2>2, RemovalKeeps
    <3>2. \A x \in ToSet(g_manual_hosts) : x # ip => x \in ToSet(WithoutIp(g_manual_hosts, ip))
      BY <2>1, RemovalKeeps
    <3> QED BY <1>1, <2>1, <3>1, <3>2, SaveKeeps
  <2>3. CASE ~ Contains(g_manual_hosts, ip)
    BY <1>1, <2>3, UnsavedKeeps
  <2> QED BY <2>2, <2>3
<1>7. HostInv'
  BY <1>1, <1>3, <1>4, <1>6 DEF HostInv, HostTypes
<1>8. PairingsKept
  BY <1>1, <1>6 DEF PairingsKept
<1>9. ManualsKept
  BY <1>5, <1>6 DEF ManualsKept
<1> QED BY <1>7, <1>8, <1>9

\* The host that is selected becomes a manual one.
LEMMA SelectKeeps ==
  ASSUME HostInv, NEW opened \in BOOLEAN, Select(opened)
  PROVE  HostInv' /\ PairingsKept /\ ManualsKept
<1>1. /\ hScreen = "list" /\ g_hosts # <<>> /\ hScreen' = "connect"
      /\ hTarget' = g_hosts[g_selected_index + 1]
      /\ config_add_manual_host(hTarget'.ip, opened)
      /\ UNCHANGED <<hPaired, g_last_paired_host, g_hosts, g_selected_index>>
  BY DEF Select, listVars
<1>2. hTarget' \in Hosts
  <2>1. g_hosts \in Seq(Hosts) /\ g_selected_index + 1 \in 1 .. Len(g_hosts)
    BY <1>1 DEF HostInv, HostTypes, SelectionIn
  <2> QED BY <1>1, <2>1, ElementOfSeq
<1>3. PICK ip \in Ips : config_add_manual_host(ip, opened)
  BY <1>1, <1>2 DEF Hosts
<1>4. /\ g_manual_hosts' \in IpLists /\ hLast' \in IpLists /\ hDisk' \in [manual : IpLists, paired : IpLists]
      /\ hLast' = hDisk'.paired
      /\ ToSet(g_manual_hosts) \subseteq ToSet(g_manual_hosts')
      /\ hDisk' = hDisk \/ hDisk' = [manual |-> g_manual_hosts', paired |-> hDisk.paired]
  BY <1>1, <1>3, AddKeeps
<1>5. HostInv'
  BY <1>1, <1>2, <1>4 DEF HostInv, HostTypes
<1> QED BY <1>1, <1>4, <1>5 DEF PairingsKept, ManualsKept

\* After a connection the list is shown again.
LEMMA BackKeeps ==
  ASSUME HostInv, g_manual_hosts' \in IpLists, BackToList
  PROVE  hScreen' = "list" /\ g_hosts' \in Seq(Hosts) /\ SelectionIn(g_hosts', g_selected_index')
<1>1. CASE OpenList
  BY <1>1, ListOpens DEF HostInv, SelectionIn
<1>2. CASE hScreen' = "list" /\ UNCHANGED listVars
  BY <1>2 DEF listVars, HostInv, HostTypes
<1> QED BY <1>1, <1>2 DEF BackToList

\* A pairing that is used or made is saved, and only full slots lose another.
LEMMA PairedKeeps ==
  ASSUME HostInv, hScreen = "connect", NEW ip \in Ips, NEW opened \in BOOLEAN,
         hPaired' = WithPaired(ip), Save(opened, g_manual_hosts, hPaired'), BackToList,
         g_last_paired_host' \in Ips \cup {NoIp}
  PROVE  HostInv' /\ PairingsKept /\ ManualsKept
<1>1. g_manual_hosts \in IpLists /\ hPaired \in IpLists
  BY DEF HostInv, HostTypes
<1>2. hPaired' \in IpLists /\ \A x \in ToSet(hPaired) : x \in ToSet(hPaired') \/ Len(hPaired') = MaxPaired
  BY <1>1, PairingKeeps
<1>3. /\ g_manual_hosts' = g_manual_hosts /\ hLast' \in IpLists /\ hDisk' \in [manual : IpLists, paired : IpLists]
      /\ hLast' = hDisk'.paired
      /\ hDisk' = hDisk \/ hDisk' = [manual |-> g_manual_hosts, paired |-> hPaired']
  <2> DEFINE p == hPaired'
  <2>1. p \in IpLists /\ Save(opened, g_manual_hosts, p)
    BY <1>2
  <2> HIDE DEF p
  <2>2. /\ g_manual_hosts' = g_manual_hosts /\ hLast' \in IpLists /\ hDisk' \in [manual : IpLists, paired : IpLists]
        /\ hLast' = hDisk'.paired
        /\ hDisk' = hDisk \/ hDisk' = [manual |-> g_manual_hosts, paired |-> p]
    BY <1>1, <2>1, SaveKeeps
  <2> QED BY <2>2 DEF p
<1>4. hScreen' = "list" /\ g_hosts' \in Seq(Hosts) /\ SelectionIn(g_hosts', g_selected_index')
  BY <1>1, <1>3, BackKeeps
<1>5. HostInv'
  BY <1>1, <1>2, <1>3, <1>4 DEF HostInv, HostTypes
<1> QED BY <1>2, <1>3, <1>5 DEF PairingsKept, ManualsKept

\* A connection without a pairing, or with one the host refuses, takes that host's pairing at most.
LEMMA RefusedKeeps ==
  ASSUME HostInv, ConnectUnpaired \/ \E opened \in BOOLEAN : LaunchRefused(opened)
  PROVE  HostInv' /\ PairingsKept /\ ManualsKept
<1>1. g_manual_hosts \in IpLists /\ hPaired \in IpLists
  BY DEF HostInv, HostTypes
<1>2. CASE ConnectUnpaired
  <2>1. /\ hScreen = "connect" /\ NotSaved /\ hPaired' = hPaired /\ BackToList
        /\ g_last_paired_host' \in Ips \cup {NoIp}
    BY <1>2 DEF ConnectUnpaired, HostInv, HostTypes
  <2>2. /\ hLast' \in IpLists /\ hDisk' \in [manual : IpLists, paired : IpLists]
        /\ hLast' = hDisk'.paired /\ hDisk' = hDisk /\ g_manual_hosts' = g_manual_hosts
    BY <2>1, UnsavedKeeps
  <2>3. hScreen' = "list" /\ g_hosts' \in Seq(Hosts) /\ SelectionIn(g_hosts', g_selected_index')
    BY <1>1, <2>1, <2>2, BackKeeps
  <2>4. HostInv'
    BY <1>1, <2>1, <2>2, <2>3 DEF HostInv, HostTypes
  <2> QED BY <2>1, <2>2, <2>4 DEF PairingsKept, ManualsKept
<1>3. ASSUME NEW opened \in BOOLEAN, LaunchRefused(opened) PROVE HostInv' /\ PairingsKept /\ ManualsKept
  <2> DEFINE p == WithoutIp(hPaired, hTarget.ip)
  <2>1. /\ hScreen = "connect" /\ hPaired' = p /\ Save(opened, g_manual_hosts, p) /\ BackToList
        /\ g_last_paired_host' = NoIp
    BY <1>3 DEF LaunchRefused
  <2>2. p \in IpLists /\ \A x \in ToSet(hPaired) : x # hTarget.ip => x \in ToSet(p)
    BY <1>1, RemovalKeeps
  <2> HIDE DEF p
  <2>3. /\ g_manual_hosts' = g_manual_hosts /\ hLast' \in IpLists /\ hDisk' \in [manual : IpLists, paired : IpLists]
        /\ hLast' = hDisk'.paired
        /\ hDisk' = hDisk \/ hDisk' = [manual |-> g_manual_hosts, paired |-> p]
    BY <1>1, <2>1, <2>2, SaveKeeps
  <2>4. hScreen' = "list" /\ g_hosts' \in Seq(Hosts) /\ SelectionIn(g_hosts', g_selected_index')
    BY <1>1, <2>1, <2>3, BackKeeps
  <2>5. HostInv'
    BY <1>1, <2>1, <2>2, <2>3, <2>4 DEF HostInv, HostTypes
  <2> QED BY <2>1, <2>2, <2>3, <2>5 DEF PairingsKept, ManualsKept, Refuses
<1> QED BY <1>2, <1>3

\* A step with the power on forgets no host without a reason.
LEMMA HostStep ==
  ASSUME HostInv, [HostNext]_hostVars
  PROVE  HostInv' /\ (hScreen' # "off" => PairingsKept /\ ManualsKept)
<1>1. CASE EnterSettings \/ SkipSettings \/ \E opened \in BOOLEAN : LeaveSettings(opened)
  BY <1>1, EnterKeeps, LeaveKeeps
<1>2. CASE Rescan \/ ScanEnds \/ \E d \in {-1, 1} : Move(d)
  BY <1>2, BrowseKeeps
<1>3. CASE SettingsLosePower
  BY <1>3, LossKeeps DEF SettingsLosePower, HostInv, HostTypes
<1>4. CASE PairingLosesPower
  <2>1. WithPaired(hTarget.ip) \in IpLists /\ g_manual_hosts \in IpLists
    BY <1>4, PairingKeeps DEF PairingLosesPower, HostInv, HostTypes, Hosts
  <2> QED BY <1>4, <2>1, LossKeeps DEF PairingLosesPower
<1>5. CASE SelectLosesPower
  <2>1. g_hosts \in Seq(Hosts) /\ g_selected_index + 1 \in 1 .. Len(g_hosts)
    BY <1>5 DEF SelectLosesPower, HostInv, HostTypes, SelectionIn
  <2>2. g_hosts[g_selected_index + 1] \in Hosts
    BY <2>1, ElementOfSeq
  <2>3. g_hosts[g_selected_index + 1].ip \in Ips
    BY <2>2 DEF Hosts
  <2>4. WithManual(g_hosts[g_selected_index + 1].ip) \in IpLists /\ hLast \in IpLists
    BY <2>3, ManualKeeps DEF HostInv, HostTypes
  <2> QED BY <1>5, <2>4, LossKeeps DEF SelectLosesPower
<1>6. ASSUME NEW ip \in Ips, ScanLosesPower(ip) PROVE HostInv' /\ hScreen' = "off"
  <2>1. WithManual(ip) \in IpLists /\ hLast \in IpLists
    BY ManualKeeps DEF HostInv, HostTypes
  <2> QED BY <1>6, <2>1, LossKeeps DEF ScanLosesPower
<1>7. CASE ExitApp
  <2>1. <<>> \in IpLists /\ <<>> \in Seq(Hosts)
    BY DEF IpLists
  <2> QED BY <1>7, <2>1 DEF ExitApp, PowerOff, HostInv, HostTypes, SelectionIn
<1>8. CASE ConnectUnpaired \/ \E opened \in BOOLEAN : LaunchRefused(opened)
  BY <1>8, RefusedKeeps
<1>9. ASSUME NEW opened \in BOOLEAN, ConnectPairs(opened) PROVE HostInv' /\ PairingsKept /\ ManualsKept
  <2>1. hTarget.ip \in Ips /\ hScreen = "connect"
    BY <1>9 DEF ConnectPairs, HostInv, HostTypes, Hosts
  <2> QED BY <1>9, <2>1, PairedKeeps DEF ConnectPairs
<1>10. ASSUME NEW opened \in BOOLEAN, ConnectPaired(opened) PROVE HostInv' /\ PairingsKept /\ ManualsKept
  <2>1. hScreen = "connect" /\ BackToList /\ g_last_paired_host' = g_last_paired_host
    BY <1>10 DEF ConnectPaired
  <2>2. g_last_paired_host \in Ips \cup {NoIp} /\ g_manual_hosts \in IpLists /\ hPaired \in IpLists
    BY DEF HostInv, HostTypes
  <2>3. CASE g_last_paired_host = NoIp
    <3>1. NotSaved /\ hPaired' = hPaired
      BY <1>10, <2>3 DEF ConnectPaired
    <3>2. /\ hLast' \in IpLists /\ hDisk' \in [manual : IpLists, paired : IpLists]
          /\ hLast' = hDisk'.paired /\ hDisk' = hDisk /\ g_manual_hosts' = g_manual_hosts
      BY <2>1, <3>1, UnsavedKeeps
    <3>3. hScreen' = "list" /\ g_hosts' \in Seq(Hosts) /\ SelectionIn(g_hosts', g_selected_index')
      BY <2>1, <2>2, <3>2, BackKeeps
    <3>4. HostInv'
      BY <2>1, <2>2, <3>1, <3>2, <3>3 DEF HostInv, HostTypes
    <3> QED BY <3>1, <3>2, <3>4 DEF PairingsKept, ManualsKept
  <2>4. CASE g_last_paired_host # NoIp
    <3>1. hPaired' = WithPaired(g_last_paired_host) /\ Save(opened, g_manual_hosts, hPaired')
      BY <1>10, <2>4 DEF ConnectPaired
    <3>2. g_last_paired_host \in Ips /\ g_last_paired_host' \in Ips \cup {NoIp}
      BY <2>1, <2>2, <2>4
    <3> QED BY <2>1, <3>1, <3>2, PairedKeeps
  <2> QED BY <2>3, <2>4
<1>11. ASSUME NEW opened \in BOOLEAN, Delete(opened) \/ Select(opened) PROVE HostInv' /\ PairingsKept /\ ManualsKept
  BY <1>11, DeleteKeeps, SelectKeeps
<1>12. ASSUME NEW opened \in BOOLEAN, NEW ip \in Ips, NEW answers \in {FALSE, Contains(hPaired, ip)},
              ScanFinds(ip, answers, opened) \/ Add(ip, answers, opened)
       PROVE  HostInv' /\ PairingsKept /\ ManualsKept
  <2>1. answers \in BOOLEAN
    BY DEF Contains
  <2> QED BY <1>12, <2>1, FindKeeps, EnteredKeeps
<1>13. CASE UNCHANGED hostVars
  BY <1>13 DEF hostVars, HostInv, HostTypes, PairingsKept, ManualsKept
<1> QED BY <1>1, <1>2, <1>3, <1>4, <1>5, <1>6, <1>7, <1>8, <1>9, <1>10, <1>11, <1>12, <1>13 DEF HostNext

\* While the power is on, the file and the memory lose a pairing only when the host refuses it or the
\* slots are full, and a manual host only when the user deletes it; with any number of hosts, slots and
\* failed saves (rememberLoadedConfig, config_add_manual_host, config_add_paired_host).
THEOREM HostsAreKept == HostInit /\ [][HostNext]_hostVars => HostsKept
<1>1. HostInit => HostInv
  <2>1. <<>> \in IpLists /\ <<>> \in Seq(Hosts)
    BY DEF IpLists
  <2> QED BY <2>1 DEF HostInit, HostInv, HostTypes, SelectionIn
<1>2. HostInv /\ [HostNext]_hostVars => HostInv'
  BY HostStep
<1>3. HostInv /\ [HostNext]_hostVars =>
        [hScreen' # "off" =>
           /\ \A ip \in ToSet(hPaired) \cap ToSet(hDisk.paired) :
                 \/ ip \in ToSet(hPaired') \cap ToSet(hDisk'.paired)
                 \/ Refuses(ip) \/ MaxPaired \in {Len(hPaired'), Len(hDisk'.paired)}
           /\ \A ip \in ToSet(g_manual_hosts) \cap ToSet(hDisk.manual) :
                 ip \in ToSet(g_manual_hosts') \cap ToSet(hDisk'.manual) \/ Deletes(ip)]_hostVars
  BY HostStep DEF PairingsKept, ManualsKept
<1> QED BY <1>1, <1>2, <1>3, PTL DEF HostsKept

(***************************************************************************)
(* The life of the process.                                                *)
(***************************************************************************)
\* Which of a stream's threads and sessions may exist where main is, and that its flags are down there.
Released ==
    /\ at \in {"settings", "wifi", "hosts", "connect"} => workers \cap StreamWorkers = {}
    /\ at = "start" => workers \cap StreamWorkers \subseteq {"audio"}
    /\ at \in {"abort2", "abort3", "abort4"} => "control" \notin workers
    /\ at \in {"abort3", "abort4"} => workers \cap {"receiver", "audio"} = {}
    /\ at = "abort4" => "decoder" \notin workers

FlagsDown ==
    /\ at \in {"settings", "wifi", "hosts", "connect", "start"} => ~me_running /\ status = 0
    /\ at \in {"abort1", "abort2", "abort3", "abort4"} => ~me_running

\* A process at its last stream does not connect again.
OneMore == at = "connect" => stream < MaxStreams

IInv == TypeOK /\ OneMore /\ Released /\ FlagsDown

\* The conjuncts of the type invariant: the flags, and the rest.
FlagTypes == {me_running, exit_request, torn, ready, seen, video_started, stuck, recent, silent} \subseteq BOOLEAN
OtherTypes ==
    /\ at \in Places /\ link \in {"hosts", "decide"}
    /\ status \in 0..2 /\ workers \subseteq Workers
    /\ phase \in 0..2 /\ soft \in 0..2 /\ restarts \in 0..Restarts
    /\ idle \in 0..(IdleLimit - 1) /\ waited \in {0, 10, 15, 20}
    /\ video \in {"none", "broken", "good"}
    /\ stream \in 0..MaxStreams /\ steps \in 0..MaxHostSteps

\* The flags keep their type ...
LEMMA FlagsStep == ASSUME LifecycleAssumption, TypeOK, [Next]_vars PROVE FlagTypes'
<1> USE DEF TypeOK, FlagTypes, flagVars, tearVars, loopVars, clockVars, streamVars, vars, AbortTo
<1>1. CASE Settings \/ Wifi \/ HostList
  BY <1>1 DEF Settings, Wifi, HostList
<1>2. CASE ConnectAll
  BY <1>2 DEF ConnectAll
<1>3. CASE StartStream
  BY <1>3 DEF StartStream
<1>4. CASE LoopTop
  BY <1>4 DEF LoopTop
<1>5. CASE StoppedScreen \/ ShowPicture
  BY <1>5 DEF StoppedScreen, ShowPicture, Decodes
<1>6. CASE NoPicture
  BY <1>6 DEF NoPicture, WatchdogB
<1>7. CASE WatchdogD \/ LoopBottom \/ UserLeaves
  BY <1>7 DEF WatchdogD, LoopBottom, UserLeaves
<1>8. CASE Abort
  BY <1>8 DEF Abort, AbortBegin, AbortStep, AbortEnd
<1>9. CASE Prepare \/ Decide \/ Rest \/ Finish \/ Handoff
  BY <1>9 DEF Prepare, Decide, Rest, Finish, Handoff
<1>10. CASE WorkerEndsStream \/ WorkerLeaves
  BY <1>10 DEF WorkerEndsStream, WorkerLeaves
<1>11. CASE TimePasses
  BY <1>11 DEF TimePasses, Later, Decodes
<1>12. ASSUME NEW v \in {"none", "broken", "good"}, HostSends(v) PROVE FlagTypes'
  BY <1>12 DEF HostSends
<1>13. CASE UNCHANGED vars
  BY <1>13
<1> QED BY <1>1, <1>2, <1>3, <1>4, <1>5, <1>6, <1>7, <1>8, <1>9, <1>10, <1>11, <1>12, <1>13 DEF Next, MainStep

\* ... and so does the rest, in every step of main, of the workers and of the host.
LEMMA OthersStep == ASSUME LifecycleAssumption, TypeOK, OneMore, [Next]_vars PROVE (OtherTypes /\ OneMore)'
<1> USE DEF OneMore, LifecycleAssumption, TypeOK, OtherTypes, flagVars, tearVars, loopVars, clockVars, streamVars, vars, AbortTo, Places
<1>1. CASE Settings \/ Wifi \/ HostList
  BY <1>1 DEF Settings, Wifi, HostList, Workers, StreamWorkers
<1>2. CASE ConnectAll
  <2>1. workers' \subseteq Workers
    BY <1>2 DEF ConnectAll, Workers, StreamWorkers
  <2>2. stream' \in 0..MaxStreams /\ at' \in {"hosts", "start"}
    BY <1>2 DEF ConnectAll
  <2> QED BY <1>2, <2>1, <2>2 DEF ConnectAll
<1>3. CASE StartStream
  <2>1. workers' \subseteq Workers
    BY <1>3 DEF StartStream, Workers, StreamWorkers
  <2>2. at' \in {"top", "abort", "prepare"} /\ link' \in {"hosts", "decide"} /\ soft' \in 0..2 /\ waited' = 0
    BY <1>3 DEF StartStream
  <2> QED BY <1>3, <2>1, <2>2 DEF StartStream
<1>4. CASE LoopTop
  BY <1>4 DEF LoopTop
<1>5. CASE StoppedScreen \/ ShowPicture
  BY <1>5 DEF StoppedScreen, ShowPicture, Decodes
<1>6. CASE NoPicture
  BY <1>6 DEF NoPicture, WatchdogB
<1>7. CASE WatchdogD \/ LoopBottom \/ UserLeaves
  BY <1>7 DEF WatchdogD, LoopBottom, UserLeaves
<1>8. CASE Abort
  BY <1>8 DEF Abort, AbortBegin, AbortStep, AbortEnd
<1>9. CASE Prepare \/ Decide \/ Rest \/ Finish \/ Handoff
  BY <1>9 DEF Prepare, Decide, Rest, Finish, Handoff
<1>10. CASE WorkerEndsStream \/ WorkerLeaves
  BY <1>10 DEF WorkerEndsStream, WorkerLeaves
<1>11. CASE TimePasses
  BY <1>11 DEF TimePasses, Later, Decodes
<1>12. ASSUME NEW v \in {"none", "broken", "good"}, HostSends(v) PROVE (OtherTypes /\ OneMore)'
  BY <1>12 DEF HostSends
<1>13. CASE UNCHANGED vars
  BY <1>13
<1> QED BY <1>1, <1>2, <1>3, <1>4, <1>5, <1>6, <1>7, <1>8, <1>9, <1>10, <1>11, <1>12, <1>13 DEF Next, MainStep

\* ... and what is released where.
LEMMA ReleasedStep == ASSUME LifecycleAssumption, IInv, [Next]_vars PROVE Released' /\ FlagsDown'
<1> USE DEF IInv, Released, FlagsDown, flagVars, tearVars, loopVars, clockVars, streamVars, vars, AbortTo, Places
<1>1. CASE Settings \/ Wifi \/ HostList
  BY <1>1 DEF Settings, Wifi, HostList, StreamWorkers
<1>2. CASE ConnectAll
  BY <1>2 DEF ConnectAll, StreamWorkers
<1>3. CASE StartStream
  BY <1>3 DEF StartStream, StreamWorkers
<1>4. CASE LoopTop \/ StoppedScreen \/ ShowPicture \/ NoPicture
  BY <1>4 DEF LoopTop, StoppedScreen, ShowPicture, NoPicture
<1>5. CASE WatchdogD \/ LoopBottom \/ UserLeaves
  BY <1>5 DEF WatchdogD, LoopBottom, UserLeaves
<1>6. CASE Abort
  BY <1>6 DEF Abort, AbortBegin, AbortStep, AbortEnd, StreamWorkers
<1>7. CASE Prepare \/ Decide \/ Rest \/ Finish \/ Handoff
  BY <1>7 DEF Prepare, Decide, Rest, Finish, Handoff
<1>8. CASE WorkerEndsStream \/ WorkerLeaves
  BY <1>8 DEF WorkerEndsStream, WorkerLeaves, StreamWorkers
<1>9. CASE TimePasses
  BY <1>9 DEF TimePasses, Live, InLoop
<1>10. ASSUME NEW v \in {"none", "broken", "good"}, HostSends(v) PROVE Released' /\ FlagsDown'
  BY <1>10 DEF HostSends, InLoop
<1>11. CASE UNCHANGED vars
  BY <1>11
<1> QED BY <1>1, <1>2, <1>3, <1>4, <1>5, <1>6, <1>7, <1>8, <1>9, <1>10, <1>11 DEF Next, MainStep

\* The invariant holds throughout.
LEMMA LifecycleInvariant == Spec => []IInv
<1>1. Init => IInv
  <2> SUFFICES ASSUME Init PROVE IInv
    OBVIOUS
  <2>1. FlagTypes
    BY DEF Init, FlagTypes
  <2>2. OtherTypes
    BY LifecycleAssumption DEF LifecycleAssumption, Init, OtherTypes, Places, Workers
  <2>3. OneMore /\ Released /\ FlagsDown
    BY DEF Init, OneMore, Released, FlagsDown, StreamWorkers
  <2> QED BY <2>1, <2>2, <2>3 DEF IInv, TypeOK, FlagTypes, OtherTypes
<1>2. IInv /\ [Next]_vars => IInv'
  <2> SUFFICES ASSUME IInv, [Next]_vars PROVE IInv'
    OBVIOUS
  <2>1. TypeOK' /\ OneMore'
    BY LifecycleAssumption, FlagsStep, OthersStep DEF IInv, TypeOK, FlagTypes, OtherTypes
  <2> QED BY <2>1, LifecycleAssumption, ReleasedStep DEF IInv
<1> QED BY <1>1, <1>2, PTL DEF Spec

\* Types of main's place, of the flags the workers write and of the watchdogs' counters (main.c).
THEOREM LifecycleTypes == Spec => []TypeOK
<1>1. IInv => TypeOK
  BY DEF IInv
<1> QED BY <1>1, LifecycleInvariant, PTL

\* Back at the host list no thread of the last stream is left and the flags its workers write are at
\* their start values, whoever ended it and however often (abort_stream_to_menu).
THEOREM HostListIsQuiet == Spec => []HostListQuiet
<1>1. IInv => HostListQuiet
  BY DEF IInv, Released, FlagsDown, HostListQuiet
<1> QED BY <1>1, LifecycleInvariant, PTL
==============================================================================
