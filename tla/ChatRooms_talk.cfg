\* Two users who do two things in all: change the room, send, or type.  Three connections:
\* one may be lost or refused and made anew, or a page be told to connect twice.
CONSTANTS
    p1 = p1  p2 = p2
    tech = tech  general = general
    Pages <- TwoPages
    Rooms <- TwoRooms
    Home = tech
    MaxDials = 3
    MaxActs = 2
    MaxCuts = 1
    None = None
SPECIFICATION ChatSpec
SYMMETRY Alike
CHECK_DEADLOCK FALSE
INVARIANTS ShownInItsRoom ArrivesWhereMeant SameOrder NoticesAreTakenBack
