SPECIFICATION GallerySpec
CONSTANTS
 Photos = {f1}
 Recordings = {r1}
 Rooms = {x}
 GalleryCalls = {a1}
 Quota = 1
PROPERTIES RecordingsStay
CHECK_DEADLOCK FALSE
