---------------------------- MODULE EnrichmentMC ----------------------------
(* Two seasons of one anime, which share the ids of AniDB, MyAnimeList      *)
(* and Kitsu.  AniList has a next episode for the first, and no titles; the *)
(* second is unknown to Jikan.                                              *)
EXTENDS Enrichment

MCDetails(mal, aid, imdb, kitsu, titles, airing) ==
  [text |-> Wanted, mal |-> mal, aid |-> aid, imdb |-> imdb, kitsu |-> kitsu,
   titles |-> titles, thumbs |-> FALSE, airing |-> airing]
MCAniList == [s \in Series |->
  IF s = 1 THEN {MCDetails(None, 1, None, None, {}, TRUE)}
           ELSE {MCDetails(1, 1, None, None, {}, FALSE)}]
MCJikan == [s \in Series |->
  IF s = 1 THEN {MCDetails(1, None, 1, None, Episode, FALSE)} ELSE {}]
MCKitsu == [s \in Series |-> {MCDetails(None, None, None, 1, {}, FALSE)}]
MCKitsuList == [i \in Id |-> [titles |-> Episode, thumbs |-> TRUE]]
MCTvdbList == [i \in Id |-> [titles |-> Episode, thumbs |-> FALSE]]
MCTitles == [i \in Id |-> Episode]
MCTvdbOf == [i \in Id |-> i]

=============================================================================
