------------------------------- MODULE MCPage -------------------------------
(* A small instance of Page for TLC: each kind of widget in turn. *)
EXTENDS Page

MCKinds == {"style", "styles", "slide", "scroll", "smooth", "accordion",
            "drag", "slider", "sortables", "tips", "scroller",
            "events", "domready", "group", "images", "hash",
            "ajax", "json"}
MCPlaces == 0..5
MCDroppables == <<1..3, 3..4>>
=============================================================================
