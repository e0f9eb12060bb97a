----------------------------- MODULE ImageFile -----------------------------
(***************************************************************************)
(* img_write() and img_read() of csf_assign02 with the PNG library under   *)
(* them, pnglite.c.  An image is written and, if the file is whole, read   *)
(* again; or a file found somewhere is read, chunk by chunk and not        *)
(* necessarily well-formed.  zlib, the file system and malloc() are        *)
(* external, and each may fail.                                            *)
(***************************************************************************)
EXTENDS PngFilter, SequencesExt

CONSTANTS
  Colours,    \* 3: the samples of a pixel without its alpha
  Shapes,     \* width, height, colour type and depth of the files
  MaxChunks,  \* bound on the chunks of a file found somewhere
  MaxInt      \* 2^31 - 1

ColorType ==
  {"PNG_GREYSCALE", "PNG_TRUECOLOR", "PNG_INDEXED", "PNG_GREYSCALE_ALPHA",
   "PNG_TRUECOLOR_ALPHA", "undefined"}

ASSUME ImageFileAssumption ==
  /\ Colours \in Nat \ {0}
  /\ Shapes \subseteq (Nat \ {0}) \X (Nat \ {0}) \X ColorType \X (1 .. 16)
  /\ MaxChunks \in Nat

(* The sizes of the buffers are computed in an int (num_pixels) and in an  *)
(* unsigned int (png_datalen), unchecked; files whose header makes them    *)
(* wrap around are left out.                                               *)
ASSUME SizesFit ==
  /\ MaxInt \in Nat
  /\ \A s \in Shapes : s[1] * s[2] * (Colours + 1) + s[2] <= MaxInt

VARIABLES
  little_endian,   \* of the machine
  shape,           \* of the file
  origin,          \* "written" by img_write(), or "found"
  picture,         \* what the file should show, row by row, bytes in RGB(A) order
  disk,            \* the rows of the file written, unfiltered
  damaged,         \* a write failed
  pc,
  user_pointer,    \* the open FILE: "none", "read" or "write"
  allocated,       \* the blocks of memory in use
  left,            \* chunks of the file not read yet
  zlib,            \* the inflating stream
  inflated,        \* bytes of png_data that are initialised
  result,          \* of png_get_data()
  data,            \* the rows unfiltered so far
  image,           \* img->data, a word for every pixel
  returned         \* by img_read() or img_write()

machine == <<little_endian, shape, origin>>
file == <<picture, disk, damaged>>
stream == <<left, zlib, inflated>>
output == <<data, image>>
vars == <<machine, file, pc, user_pointer, allocated, stream, result, output, returned>>

-----------------------------------------------------------------------------
width == shape[1]
height == shape[2]
color_type == shape[3]
depth == shape[4]

(* Bytes of a pixel; 255 is an error code in a byte.                       *)
png_get_bpp ==
  CASE color_type \in {"PNG_GREYSCALE", "PNG_INDEXED"} -> depth \div 8
    [] color_type = "PNG_GREYSCALE_ALPHA" -> 2 * (depth \div 8)
    [] color_type = "PNG_TRUECOLOR" -> Colours * (depth \div 8)
    [] color_type = "PNG_TRUECOLOR_ALPHA" -> (Colours + 1) * (depth \div 8)
    [] color_type = "undefined" -> 255

(* What png_read_ihdr() lets pass, and of that what img_read() does.       *)
Supported == color_type # "PNG_INDEXED" /\ depth \in {8, 16}
Truecolor ==
  \/ color_type = "PNG_TRUECOLOR" /\ png_get_bpp = Colours
  \/ color_type = "PNG_TRUECOLOR_ALPHA" /\ png_get_bpp = Colours + 1

(* png_datalen: a filter number goes with every row.                       *)
png_datalen == width * height * png_get_bpp + height

RowLength == width * png_get_bpp
Rows(bytes) == [1 .. height -> [1 .. bytes -> Byte]]

(* A pixel in a register is a word of bytes, the most significant first;   *)
(* in memory the bytes of a word lie as the machine has them.              *)
InMemory(word) == IF little_endian THEN Reverse(word) ELSE word
FromMemory(bytes) == InMemory(bytes)

(* The value the bytes of a word have in the order they lie in.            *)
byteswap(word) == InMemory(word)
Swapped(word) == IF little_endian THEN byteswap(word) ELSE word

Pixels(row, bytes) == [k \in 1 .. width |-> SubSeq(row, (k - 1) * bytes + 1, k * bytes)]

(* Red is the most significant byte of a pixel and alpha the least.        *)
Opaque(rgb) == Append(rgb, Values - 1)
Shown(row) ==
  LET pixels == Pixels(row, png_get_bpp)
  IN IF color_type = "PNG_TRUECOLOR" THEN [k \in 1 .. width |-> Opaque(pixels[k])] ELSE pixels

-----------------------------------------------------------------------------
Init ==
  /\ little_endian \in BOOLEAN
  /\ shape \in Shapes
  /\ \/ /\ origin = "written" /\ pc = "img_write"
        /\ color_type = "PNG_TRUECOLOR_ALPHA" /\ depth = 8
        /\ picture \in Rows(RowLength)
        /\ image = [r \in 1 .. height |-> Shown(picture[r])]
        /\ left = 2
     \/ /\ origin = "found" /\ pc = "img_read"
        /\ picture = <<>> /\ image = <<>>
        /\ left \in 0 .. MaxChunks
  /\ disk = <<>> /\ damaged = FALSE
  /\ user_pointer = "none" /\ allocated = {}
  /\ zlib = "none" /\ inflated = 0 /\ result = "PNG_NO_ERROR"
  /\ data = <<>> /\ returned = "none"

Return(status) == pc' = "returned" /\ returned' = status

(* png_open_file_write(); then the buffer for the bytes in PNG order.      *)
OpenWrite ==
  /\ pc = "img_write"
  /\ \/ Return("IMG_ERR_COULD_NOT_OPEN") /\ UNCHANGED <<user_pointer, allocated>>
     \/ little_endian /\ Return("IMG_ERR_MALLOC_FAILED") /\ UNCHANGED <<user_pointer, allocated>>
     \/ /\ user_pointer' = "write"
        /\ allocated' = IF little_endian THEN {"data_to_write"} ELSE {}
        /\ pc' = "png_set_data" /\ UNCHANGED returned
  /\ UNCHANGED <<machine, file, stream, result, output>>

(* png_set_data(): filter number 0 before every row, the header, one IDAT  *)
(* and IEND.  Its two buffers may be NULL, which it does not look at.      *)
FilterRows ==
  /\ pc = "png_set_data"
  /\ \/ /\ pc' = "png_write_ihdr"
        /\ allocated' = allocated \cup {"filtered"}
        /\ disk' = [r \in 1 .. height |->
                      FlattenSeq([k \in 1 .. width |-> InMemory(Swapped(image[r][k]))])]
     \/ pc' = "killed" /\ UNCHANGED <<allocated, disk>>
  /\ UNCHANGED <<machine, picture, damaged, user_pointer, stream, result, output, returned>>

(* No result of a write is looked at.                                      *)
WriteHeader ==
  /\ pc = "png_write_ihdr"
  /\ pc' = "png_write_idats"
  /\ damaged' \in {damaged, TRUE}
  /\ UNCHANGED <<machine, picture, disk, user_pointer, allocated, stream, result, output, returned>>

(* Neither is that of compress().                                          *)
WriteIdats ==
  /\ pc = "png_write_idats"
  /\ \/ /\ pc' = "png_close_file"
        /\ allocated' = allocated \ {"filtered"}
        /\ damaged' \in {damaged, TRUE}
     \/ pc' = "killed" /\ UNCHANGED <<allocated, damaged>>
  /\ UNCHANGED <<machine, picture, disk, user_pointer, stream, result, output, returned>>

(* fclose() writes what is left in its buffer.                             *)
CloseWrite ==
  /\ pc = "png_close_file"
  /\ user_pointer' = "none"
  /\ allocated' = allocated \ {"data_to_write"}
  /\ damaged' \in {damaged, TRUE}
  /\ Return("IMG_SUCCESS")
  /\ UNCHANGED <<machine, picture, disk, stream, result, output>>

(* A file that is whole is read by the next program, which may not be able *)
(* to read all of it.                                                      *)
ReadBack ==
  /\ pc = "returned" /\ returned = "IMG_SUCCESS" /\ disk # <<>>
  /\ ~damaged /\ result = "PNG_NO_ERROR"
  /\ pc' = "img_read" /\ returned' = "none" /\ image' = <<>>
  /\ UNCHANGED <<machine, file, user_pointer, allocated, stream, result, data>>

-----------------------------------------------------------------------------
OpenFails ==
  /\ pc = "img_read"
  /\ Return("IMG_ERR_COULD_NOT_OPEN")
  /\ UNCHANGED <<machine, file, user_pointer, allocated, stream, result, output>>

(* png_open_read() refuses a file that it cannot read, is cut off, has     *)
(* another signature, another IHDR length, a wrong crc, interlaced or      *)
(* unsupported pixels.  The file stays open.                               *)
RefuseHeader ==
  /\ pc = "img_read"
  /\ user_pointer' = "read"
  /\ Return("IMG_ERR_COULD_NOT_OPEN")
  /\ UNCHANGED <<machine, file, allocated, stream, result, output>>

OpenRead ==
  /\ pc = "img_read" /\ Supported
  /\ pc' = "opened" /\ user_pointer' = "read"
  /\ UNCHANGED <<machine, file, allocated, stream, result, output, returned>>

NotTruecolor ==
  /\ pc = "opened" /\ ~Truecolor
  /\ user_pointer' = "none"
  /\ Return("IMG_ERR_NOT_TRUECOLOR")
  /\ UNCHANGED <<machine, file, allocated, stream, result, output>>

(* The buffers, each of which may be NULL.                                 *)
Buffers == IF color_type = "PNG_TRUECOLOR" THEN {"pixel_data", "pixel_data_raw"} ELSE {"pixel_data"}

AllocatePixels ==
  /\ pc = "opened" /\ Truecolor
  /\ allocated' \in SUBSET Buffers
  /\ pc' = "png_get_data"
  /\ UNCHANGED <<machine, file, user_pointer, stream, result, output, returned>>

-----------------------------------------------------------------------------
(* png_process_chunk(), in the loop of png_get_data().                     *)
Chunk == pc = "png_get_data" /\ result = "PNG_NO_ERROR" /\ left > 0
Kept == UNCHANGED <<machine, file, pc, user_pointer, output, returned>>

(* No chunk is left, or the next one cannot be read.                       *)
EndOfFile ==
  /\ pc = "png_get_data" /\ result = "PNG_NO_ERROR"
  /\ result' = "PNG_FILE_ERROR"
  /\ Kept /\ UNCHANGED <<allocated, stream>>

(* What an IDAT chunk needs, in the order it is allocated.                 *)
Needs == <<"png_data", "zs", "readbuf">>
Reading == {"png_data", "zs", "readbuf"}

(* The read buffer is allocated anew for a longer chunk.  Of the file      *)
(* written only the first chunk is an IDAT.                                *)
OutOfMemory ==
  /\ Chunk /\ (origin = "written" => left = 2)
  /\ \E k \in DOMAIN Needs :
       /\ Needs[k] = "readbuf" \/ Needs[k] \notin allocated
       /\ allocated' = (allocated \cup {Needs[m] : m \in 1 .. (k - 1)}) \ {Needs[k]}
  /\ result' = "PNG_MEMORY_ERROR"
  /\ left' = left - 1
  /\ Kept /\ UNCHANGED <<zlib, inflated>>

InflateInitFails ==
  /\ Chunk /\ (origin = "written" => left = 2)
  /\ "zs" \notin allocated
  /\ allocated' = allocated \cup {"png_data", "zs"}
  /\ zlib' = "not_initialised"
  /\ result' = "PNG_ZLIB_ERROR"
  /\ left' = left - 1
  /\ Kept /\ UNCHANGED inflated

(* An IDAT chunk that is cut off or cannot be read, or has the wrong crc,  *)
(* or data that zlib does not take: none at all before the end of the      *)
(* stream, some after it.                                                  *)
RefuseIdat ==
  /\ Chunk /\ (origin = "written" => left = 2)
  /\ allocated' = allocated \cup Reading
  /\ left' = left - 1
  /\ result' \in {"PNG_FILE_ERROR", "PNG_CRC_ERROR"}
                  \cup (IF origin = "found" THEN {"PNG_ZLIB_ERROR"} ELSE {})
  /\ zlib' = IF zlib = "none" THEN "more" ELSE zlib
  /\ Kept /\ UNCHANGED inflated

(* png_inflate() of the next bytes, which may be the last of the stream;   *)
(* zlib says so even if they do not fill png_data.                         *)
Inflate ==
  /\ Chunk
  /\ zlib \in {"none", "more"}
  /\ allocated' = allocated \cup Reading
  /\ \E bytes \in 0 .. (png_datalen - inflated), ends \in BOOLEAN :
       /\ origin = "written" => left = 2 /\ bytes = png_datalen /\ ends
       /\ inflated' = inflated + bytes
       /\ zlib' = IF ends THEN "ended" ELSE "more"
  /\ left' = left - 1
  /\ Kept /\ UNCHANGED result

(* Too much data: the first byte in excess may stay in zlib, unnoticed.    *)
InflateExcess ==
  /\ Chunk /\ origin = "found"
  /\ zlib \in {"none", "more"}
  /\ allocated' = allocated \cup Reading
  /\ inflated' = png_datalen
  /\ zlib' = "full"
  /\ result' \in {"PNG_NO_ERROR", "PNG_ZLIB_ERROR"}
  /\ left' = left - 1
  /\ Kept

(* An empty chunk after the end of the stream is taken.                    *)
InflateNothing ==
  /\ Chunk /\ origin = "found"
  /\ zlib = "ended"
  /\ left' = left - 1
  /\ Kept /\ UNCHANGED <<allocated, zlib, inflated, result>>

IendFound ==
  /\ Chunk
  /\ origin = "written" => left = 1
  /\ result' = "PNG_DONE"
  /\ left' = left - 1
  /\ Kept /\ UNCHANGED <<allocated, zlib, inflated>>

(* Any other chunk is skipped.  Its length is unsigned, so that the file   *)
(* never goes back; where it continues need not be a chunk.                *)
(* Mutant: the length has a sign.                                          *)
SkipAnywhere ==
  /\ Chunk /\ origin = "found"
  /\ left' \in 0 .. MaxChunks
  /\ Kept /\ UNCHANGED <<allocated, zlib, inflated, result>>
SkipChunk ==
  /\ Chunk /\ origin = "found"
  /\ left' \in 0 .. (left - 1)
  /\ Kept /\ UNCHANGED <<allocated, zlib, inflated, result>>

-----------------------------------------------------------------------------
(* After the loop.  png_end_inflate() does not free a stream that it       *)
(* cannot end.  Mutant: the read buffer stays.                             *)
LoopFreesStream == IF zlib = "not_initialised" THEN {} ELSE {"zs"}
LoopFrees == {"readbuf"} \cup (IF zlib = "not_initialised" THEN {} ELSE {"zs"})

ChunksDone ==
  /\ pc = "png_get_data" /\ result = "PNG_DONE"
  /\ allocated' = allocated \ LoopFrees
  /\ pc' = "png_unfilter"
  /\ UNCHANGED <<machine, file, user_pointer, stream, result, output, returned>>

(* png_get_data() fails, and so does img_read(), which forgets the buffer  *)
(* of an image without alpha.                                              *)
ChunksFailed ==
  /\ pc = "png_get_data" /\ result \notin {"PNG_NO_ERROR", "PNG_DONE"}
  /\ allocated' = allocated \ (LoopFrees \cup {"png_data", "pixel_data"})
  /\ user_pointer' = "none"
  /\ Return("IMG_ERR_MALLOC_FAILED")
  /\ UNCHANGED <<machine, file, stream, result, output>>

(* Where png_unfilter() writes.                                            *)
Target == IF color_type = "PNG_TRUECOLOR" THEN "pixel_data_raw" ELSE "pixel_data"
Row == Len(data) + 1
Initialised == inflated >= Row * (RowLength + 1)
Unfiltering == pc = "png_unfilter" /\ Row <= height /\ "png_data" \in allocated

(* The first row has none above.                                           *)
Above(rows, zeros) == IF Row = 1 THEN zeros ELSE rows[Row - 1]

(* One row.  A row of a file found somewhere, made with any of the filters,*)
(* shows up here.                                                          *)
UnfilterRow ==
  /\ Unfiltering /\ Target \in allocated /\ Initialised
  /\ \E shown \in IF origin = "written" THEN {disk[Row]} ELSE [1 .. RowLength -> Byte],
        filter \in IF origin = "written" THEN {0} ELSE FilterNumber :
       LET zeros == Zeros(shown)
           above == IF Row = 1 THEN zeros ELSE picture[Row - 1]
           in == IF origin = "written" THEN shown
                 ELSE Filtered(filter, png_get_bpp, shown, above)
       IN /\ data' = Append(data, Unfiltered(filter, png_get_bpp, in, Above(data, zeros)))
          /\ picture' = IF origin = "written" THEN picture ELSE Append(picture, shown)
  /\ UNCHANGED <<machine, disk, damaged, pc, user_pointer, allocated, stream, result, image, returned>>

(* The rest of png_data was never written: its bytes are those the heap    *)
(* had there, and so is the number of the filter.                          *)
UnfilterGarbage ==
  /\ Unfiltering /\ Target \in allocated /\ ~Initialised
  /\ data' \in { Append(data, row) : row \in [1 .. RowLength -> Byte] }
  /\ UNCHANGED <<machine, file, pc, user_pointer, allocated, stream, result, image, returned>>

(* The filter is looked at before anything is written.                     *)
UnknownFilter ==
  /\ Unfiltering /\ origin = "found"
  /\ result' = "PNG_UNKNOWN_FILTER"
  /\ allocated' = allocated \ {"png_data", "pixel_data"}
  /\ user_pointer' = "none"
  /\ Return("IMG_ERR_MALLOC_FAILED")
  /\ UNCHANGED <<machine, file, stream, output>>

(* All rows are there, or none if the file had no IDAT.                    *)
UnfilterDone ==
  /\ pc = "png_unfilter"
  /\ IF "png_data" \in allocated THEN Row = height + 1 /\ UNCHANGED data
                                 ELSE data' \in Rows(RowLength)
  /\ allocated' = allocated \ {"png_data"}
  /\ pc' = "convert"
  /\ UNCHANGED <<machine, file, user_pointer, stream, result, image, returned>>

(* A buffer that is NULL is written to or read.                            *)
NullPointer ==
  /\ \/ Unfiltering /\ Target \notin allocated
     \/ pc = "convert" /\ ~(Buffers \subseteq allocated)
  /\ pc' = "killed"
  /\ UNCHANGED <<machine, file, user_pointer, allocated, stream, result, output, returned>>

(* A pixel of the image from one of the file.  Mutant: the bytes of a      *)
(* pixel with alpha are left as they lie.                                  *)
ConvertedAsIs(pixel) ==
  IF color_type = "PNG_TRUECOLOR" THEN Opaque(pixel) ELSE FromMemory(pixel)
Converted(pixel) ==
  IF color_type = "PNG_TRUECOLOR" THEN Opaque(pixel) ELSE Swapped(FromMemory(pixel))

Convert ==
  /\ pc = "convert" /\ Buffers \subseteq allocated
  /\ image' = [r \in 1 .. height |->
                 LET pixels == Pixels(data[r], png_get_bpp)
                 IN [k \in 1 .. width |-> Converted(pixels[k])]]
  /\ allocated' = allocated \ {"pixel_data_raw"}
  /\ user_pointer' = "none"
  /\ Return("IMG_SUCCESS")
  /\ UNCHANGED <<machine, file, stream, result, data>>

-----------------------------------------------------------------------------
Next ==
  \/ OpenWrite \/ FilterRows \/ WriteHeader \/ WriteIdats \/ CloseWrite \/ ReadBack
  \/ OpenFails \/ RefuseHeader \/ OpenRead \/ NotTruecolor \/ AllocatePixels
  \/ EndOfFile \/ OutOfMemory \/ InflateInitFails \/ RefuseIdat
  \/ Inflate \/ InflateExcess \/ InflateNothing \/ IendFound \/ SkipChunk
  \/ ChunksDone \/ ChunksFailed \/ UnfilterRow \/ UnfilterGarbage
  \/ UnknownFilter \/ UnfilterDone \/ NullPointer \/ Convert

Spec == Init /\ [][Next]_vars

(* One sequential process, which the system schedules.                     *)
FairSpec == Spec /\ WF_vars(Next)

-----------------------------------------------------------------------------
Block == {"data_to_write", "filtered", "pixel_data", "pixel_data_raw", "png_data", "zs", "readbuf"}
Error == {"IMG_ERR_COULD_NOT_OPEN", "IMG_ERR_NOT_TRUECOLOR", "IMG_ERR_MALLOC_FAILED"}
Words == Seq([1 .. width -> [1 .. (Colours + 1) -> Byte]])

(* No more of png_data is initialised than there is, and no more rows are  *)
(* unfiltered.                                                             *)
TypeOK ==
  /\ little_endian \in BOOLEAN /\ shape \in Shapes /\ origin \in {"written", "found"}
  /\ picture \in Seq([1 .. RowLength -> Byte]) /\ Len(picture) <= height
  /\ disk \in Seq(Seq(Byte)) /\ damaged \in BOOLEAN
  /\ pc \in {"img_write", "png_set_data", "png_write_ihdr", "png_write_idats",
             "png_close_file", "img_read", "opened",
             "png_get_data", "png_unfilter", "convert", "returned", "killed"}
  /\ user_pointer \in {"none", "read", "write"}
  /\ allocated \subseteq Block
  /\ left \in 0 .. 2 \cup 0 .. MaxChunks
  /\ zlib \in {"none", "more", "full", "ended", "not_initialised"}
  /\ inflated \in 0 .. png_datalen
  /\ data \in Seq([1 .. RowLength -> Byte]) /\ Len(data) <= height
  /\ image \in Words
  /\ returned \in {"none", "IMG_SUCCESS"} \cup Error

(* Of a file that has all its data img_read() makes the picture in it,     *)
(* whatever filters its rows use, in however many chunks the bytes come    *)
(* and on either kind of machine.  (A file that ends early, or has no IDAT *)
(* at all, is read without an error too.)                                  *)
Expected == [r \in 1 .. height |-> Shown(picture[r])]

ReadsThePicture ==
  pc = "returned" /\ result = "PNG_DONE" /\ returned = "IMG_SUCCESS" /\ inflated = png_datalen
    => image = Expected

(* What img_write() wrote without a failure, img_read() reads, unless      *)
(* memory runs out or the file cannot be opened or read: then it says so.  *)
WrittenReadsBack ==
  pc = "returned" /\ origin = "written" =>
    \/ returned = "IMG_SUCCESS" /\ image = Expected
    \/ returned = "IMG_ERR_COULD_NOT_OPEN"
    \/ /\ returned = "IMG_ERR_MALLOC_FAILED"
       /\ result \in {"PNG_NO_ERROR", "PNG_MEMORY_ERROR", "PNG_FILE_ERROR", "PNG_CRC_ERROR"}
    \/ result = "PNG_ZLIB_ERROR" /\ zlib = "not_initialised"

(* On return the memory and the file are given back, but for the pixels of *)
(* an image that was read; three error paths forget something.             *)
Forgotten ==
  (IF result # "PNG_NO_ERROR" /\ returned # "IMG_SUCCESS" THEN {"pixel_data_raw"} ELSE {})
  \cup (IF zlib = "not_initialised" THEN {"zs"} ELSE {})

GivenBack ==
  /\ TypeOK
  /\ pc = "returned" =>
     /\ allocated \subseteq Forgotten \cup
          (IF returned = "IMG_SUCCESS" /\ result = "PNG_DONE" THEN {"pixel_data"} ELSE {})
     /\ user_pointer # "none" => user_pointer = "read" /\ returned = "IMG_ERR_COULD_NOT_OPEN"

(* Reading ends, whatever the file is.                                     *)
ReadingEnds == <>[](pc \in {"returned", "killed"})
=============================================================================
