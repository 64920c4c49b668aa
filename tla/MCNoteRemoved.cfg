CONSTANTS
    Writers = {1, 2}
    Images = {"i", "j"}
    FirstImages = {"i"}
    Times = {2, 3, 4}
    ClocksAgree = TRUE
    Parts = {{"images"}}
    MaxEdits = 3
SPECIFICATION NoteSpec
INVARIANTS
    RemovalRemembered
CHECK_DEADLOCK FALSE
