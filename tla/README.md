# Formal models of dkn-overlay

dkn-overlay is a Gentoo overlay: 968 build recipes, their patches, 84 eclasses,
and, beside them, whole source files that the Electron and ungoogled-chromium
ebuilds copy over those of Chromium before they build
(`electron-41.0.3.ebuild:665-672`, `ungoogled-chromium-146...ebuild:774-781`).
Those files, and the eselect module that administers what the Electron ebuild
installs, are where the overlay's own logic is. This directory holds TLA+ models
of them, the configurations TLC checks, and proofs that TLAPS checks.

    tlc -workers 2 -config MCPngReader.cfg MCPngReader
    tlapm PngReader_proofs.tla

## 1. The system

| part | code | state it keeps | operations | model |
|---|---|---|---|---|
| PNG reader | `dev-util/electron/files/png_image_decoder-r1.cc` (`PNGImageReader::Parse`, `ParseSize`, `ParseFrameInfo`) and `.h` | read offset, frame list, the frame under construction, counters, flags | `Parse(kSize)`, `Parse(kMetaData)` on data that grows | `PngReader`, `FrameCatalogue` |
| PNG decoder | same file (`PngImageDecoder`, `PNGImageReader::Decode`) | frame buffers, libpng session, progressive offset, interlace buffer, alpha flag | size, frame, data, purge; libpng's callbacks | `PngDecoder` |
| PNG rows and metadata | `www-client/ungoogled-chromium/files/png_image_decoder.cc`, the same code in electron's copy but for the HDR chunks | color profile, HDR metadata, the format of a row, the row of the buffer, the alphas seen | `HeaderAvailable`, `RowAvailable` with its NEON copies | `PngPixels` |
| AVIF decoder | `www-client/ungoogled-chromium/files/avif_image_decoder.cc`, `.h` | segments of data, demuxer state, orientation, frame buffers, rows shown, YUV planes | `OnSetData`, `DecodeSize`, `DecodeFrameCount`, `Decode`, `DecodeToYUV`, purge; libavif's reads | `AvifDecoder` |
| JSON parser | `www-client/ungoogled-chromium/files/json_parser_r1.cc`, `json_parser.h` | index, line, last line break, nesting, error | `Parse` with options | `JsonParser`, `JsonGrammar` |
| eselect-electron | `app-eselect/eselect-electron/files/electron.eselect`, `dev-util/electron/electron-41.0.3.ebuild` | two symbolic links; the installed slots | set, unset, update, show, list; merge and unmerge | `EselectElectron` |
| font format check, launchers, init scripts, CUDA manifest converter, eclasses, ebuilds, patches | see section 8 | | | not modelled |

How they interact. A browser page hands its bytes to an image decoder as they
arrive and asks for frames at any time: `PngImageDecoder` calls `Parse` before
everything else, takes the frame list from the reader, feeds the chunks of a frame
to libpng, and is called back with rows; `AVIFImageDecoder` does the same with
libavif, which reads the data through a callback. A client of an AVIF image asks either
for frames or, once, for YUV planes. Both decoders share the base class
`ImageDecoder` (cache, dependencies between frames, purging). The JSON parser
stands alone. The eselect module and the package manager share the directory tree:
each merge or unmerge of a slot changes it and then runs `update`.

What is hard in them, and so what the properties are about (PROJECT.json lists
each hazard at its line):

* **Data that arrives in pieces.** Every early return "not enough data" leaves
  state behind with which the next call goes on. The results must not depend on
  where the data was cut.
* **Orders of calls.** Frames are asked for in any order, while data arrives, with
  buffers purged in between; there is one libpng session, one interlace buffer and
  one alpha flag for all frames.
* **Operations that must happen exactly once**: blending a row, color-correcting
  a row or a pixel, counting a line break, counting a frame.
* **Two builds of the same loop**: pixel by pixel, and in loads of eight or sixteen
  pixels with the rest one by one, in place where that is safe.
* **Numeric edges**: chunk ends in 32 bits, `>=` against `!=` on frame counts, the
  length 1 that means "unknown", the parity of a row at which rendering stops, the
  ends of the segments that a read is joined from.
* **Links read back as state**: eselect recovers the active slot from a link's
  target, and `ln -sf` follows a link to a directory.

## 2. Modules

| module | stands for |
|---|---|
| `PngReader` | one `Parse` call is `BeginParse` and then a step for each chunk or return, until `pc` is `"idle"` again; `Receive` lets more data arrive between calls. Variables are the reader's members without the trailing underscore. |
| `InductionLemmas` | induction over the naturals for one set at a time, with which the proofs unfold recursive functions, folds and CHOOSE |
| `FrameCatalogue` | what the reader promises its clients: a list of frames that only grows, of which only the first may still change, once, by getting its length, and that is fixed when the parse is complete. |
| `PngReader_proofs` | proofs about the frames `PngReader` constructs and their number, and the refinement |
| `PngReaderFrames_proofs` | proofs about which chunks it puts into which frame |
| `PngDecoder` | extends `PngReader`: the client's calls, the decoding of a frame chunk by chunk, libpng's sessions and rows, the buffers. |
| `PngDecoder_proofs` | proofs about the composition of decoder and reader |
| `PngPixels` | one row of libpng from the header of its image to the pixels in the buffer; a load of pixels is one action, as is the AND of the lanes, and each pixel of the rest. |
| `PngPixels_proofs` | proofs about `PngPixels` |
| `AvifDecoder` | `AVIFImageDecoder`; each call of the decoder is one action. |
| `AvifDecoder_proofs` | proofs about `AvifDecoder` |
| `JsonParser` | `Parse` as a machine that reads a character, a piece of a string or a whole number or literal in a step, with the calls that have not returned as a stack of containers. |
| `JsonParser_proofs` | proofs about `JsonParser`, and that it reads what `JsonGrammar` says |
| `JsonGrammar` | what texts mean: for each position of the input the set of all readings of a string, number, container or value from there on, by the parser's documented syntax and options and without its state, a look-ahead or an order of alternatives. White space, the rest of a string, members and values are recursive functions of the position (and of the depth that is left). |
| `EselectElectron` | actions of the eselect module in the steps between which they can be killed, and the package manager. |
| `EselectElectron_proofs` | proofs about `EselectElectron` |
| `MC*` | files, texts, images and slots for TLC |

### How state and actions correspond to the code

**PngReader.** A file is a record: its size, whether the signature is right, the
points at which its data may stop (`arrivals`), and a function from offsets to
chunks. A chunk has its type, its length, and, where the code reads them, the
fields of acTL and fcTL. `read_offset`, `frame_info`, `new_frame`,
`parsed_signature` and the others are the members of the class. Each branch of the
loops of `ParseSize` and `Parse` is an action whose guard is the conjunction of the
conditions on the way to it; `Fail` is `return false`, which makes the decoder fail.
Additions are checked against `SizeMax` where the code uses `CheckAdd`, and the one
whose sum decides a loop without a check, `read_offset_ + 8` in `ParseSize`
(`png_image_decoder-r1.cc:528`), wraps at `SizeMax + 1` (`HeaderExpected`);
what is read after it has wrapped is any eight bytes, which fail the check of
`chunk_end_offset`. The other sums that the code does not check cannot wrap: those in
`Parse` and behind line 539 are parts of a chunk end that was checked, and the ones in
`ProgressivelyDecodeFirstFrame` and `DecodeFrame` are of chunks that `Parse` has passed.
A file is at most `SizeMax` bytes, since the size of the data has the same type.
`ImageIsHighBitDepth` is the client's call: it reaches `SetBitDepth` between two calls
of `Parse`, before the size is known as well as after (before the IHDR libpng answers 0
and the call changes nothing; without a reader, before the first `Parse` and after a
failure, there is no call). libpng is external: it accepts or rejects a chunk.

**PngDecoder.** A byte of image data stands for one row of one pass, so what a row
of a buffer shows is a stack of layers, each a set of file offsets: this tells
apart a row blended once, blended twice, or with passes missing, which is all the
properties ask. Data behind the last row of the last pass has no row to go to, so whether
it is transparent does not matter to `OpaqueFramesAreOpaque`. `InitFrameBuffer`, `FindFramesToDecode`,
`FindRequiredPreviousFrame`, `ClearCacheExceptFrame` and `SetData` of the base
class are not in the repository: they are modelled from how this code uses them,
and marked external in PROJECT.json's map. Frames are numbered from 1; 0 is
`kNotFound`. `current_frame`, `offset` and `todo` are the local variables of
`Decode` and of the functions under it.

**PngPixels.** `PngDecoder` takes a row as one step; here it is the whole behavior. An
image is its header, the unknown chunks in order, what libpng knows of its colors, the
row libpng delivers, and the build. `still` is that the repetition count was
`kAnimationNone` when the bit depth was first asked for. `ReadHDRMetadata` takes an agTm of
any size (`png_image_decoder.cc:1074-1077`), and so does `ReadHdrChunk`, but that branch is
never reached: libpng is told to keep five kinds of unknown chunks, agTm not among them
(lines 92-94, `KeptUnknown`), and `ParseSize` does not hand it one (lines 615-616).
`ReadHeader` is `SetBitDepth`, `SetColorSpace` and
`HeaderAvailable` at the first IDAT. A pixel has one color channel, a list of the
profiles it was transformed by, and the pixel it was blended on: a transform that is
applied twice, or to what is already in the buffer, shows. `src` says from where the loops
read: libpng's row, the scanline kept for blending, or the buffer itself. The lanes of
`alpha_mask_vector` are sets of bits, and their AND is the intersection. `Premultiply` is
the arithmetic of the NEON instructions with its 8- and 16-bit widths, `Rounded` that of
the scalar code.

**AvifDecoder.** A byte is its offset, so what libavif reads can be compared with the
file; `segments` are the ends of the pieces in which the data is kept, and
`ReadFromSegmentReader` answers from one of them or from a copy. `client` is fixed in the
initial state: each decoder is asked for frames or for planes, as its callers do.
Orientation, clean aperture and profiles are read in `UpdateDemuxer`. A plane is
the image it was copied from, its size, and the distance of its rows. A row of a buffer says which image it came from, which chroma rows
were mixed into it, and how often it was color corrected. libyuv's bilinear
upsampling is modelled by the chroma rows it uses, as the comment and diagram in
`RenderImage` (lines 1066-1093) and the code's workaround require. libavif answers
with a number of rows that never decreases, even for 4:2:0 images, and with none
for images it does not decode incrementally; these are the facts the code asserts or
relies on. `Purge` clears the buffers of an image that has several frames, or that is
decoded incrementally: `Decode` expects the second (`avif_image_decoder.cc:611`, "In case
of buffer disposal after decoding"). A failure of libavif or of memory can happen in any
`Decode` or `DecodeToYUV`.

**JsonParser.** A character is a TLA+ string; a multi-byte character is one
character. `ConsumeDictionary` and `ConsumeList` are the elements of `stack`, their
`StackMarker` its depth. `then` says which call of `GetNextToken` is waiting. A
value is built as the parser builds it, and an error is its code, line and column.

**EselectElectron.** `bin_link` and `lib_link` are `/usr/bin/electron` and
`/usr/<libdir>/electron`. `strays` are the links that `ln -sf` made inside a slot's
directory because the link it was to replace led to a directory. `SlotDirs` is what
`get_slots` finds: the installed slots and the directories kept because of a stray.

## 3. Runs

Distinct states and times are of two workers.

| run | states | what it shows |
|---|---|---|
| `frames` | 756,000, 66 s | Every sequence of at most five fcTL, IDAT and fdAT chunks after acTL (one to three frames announced) and before IEND, and 30 files with each error, skipped chunks, and lengths and chunk ends at the limits, cut anywhere it matters, the bit depth asked for at any time: the list implements `FrameCatalogue`; every chunk of image data is in exactly one frame, with the kind of data, the control and the sequence numbers in order; never more frames than announced; half-float decoding is chosen for single images only, whenever the client asks; every `Parse` returns. |
| `half_float_blend` | violation | finding 1 |
| `decode` | 111,000, 12 s | Ten images decoded in any order of requests, arrivals, purges and questions for the bit depth: a complete frame shows what playing the animation shows, with opacity only where it is true; libpng never gets data of two frames; a frame is decoded only on a complete one; requests return, and frames that were received are answered, also those before the end of a truncated file. |
| `blended_twice`, `passes_lost`, `passes_blend` | violations | findings 2, 3 and 4 |
| `rows` | 72,000, 8 s | Rows of up to six pixels of every format, with and without profile, blended, premultiplied or raw, in loads of two and four or one by one, and files with up to three metadata chunks that are valid or broken: both builds write the same pixels, each transformed once and blended on what was there; alpha is noted exactly where a pixel has it; a broken cICP, light level or mastering display chunk is as if it were not there, and an agTm, which would be taken unchecked, is not kept. |
| `avif` | 28,000, 8 s | Still images with an even and an odd height, cropped ones, ones that are not 4:2:0, layered, animated, truncated and invalid ones, with all orientations, profiles, and widths around those at which planes are padded. The rows shown are exactly those of a rendering of the whole image, also when a buffer is disposed of between two pieces; the decoder never runs out of layers, shows the highest that has arrived, completes what was received, and shows everything in the end, in frames or in planes; libavif reads the bytes it asked for. |
| `json` | 292,000, 19 s | Every short text over five alphabets (structure, white space and comments, strings, numbers, literals) and longer ones by hand, under four sets of options: the parser returns exactly the value of the reference grammar, an error exactly when there is none, and counts lines right outside of block comments. |
| `comment_lines` | violation | finding 5 |
| `eselect` | 38,000 | Any sequence of commands, merges, unmerges and kills over three slots: a success leaves a launcher that exists, an update that of the slot that was active or of the highest; an update fails only over a leftover; the two links disagree only with a stray left behind. |
| `update_keeps` | violation | finding 6 |

### Bounds, and why they are enough

* `MaxChunks = 5` between acTL and IEND: the parser distinguishes the first frame,
  the one under construction and those before; five chunks give three frames, each
  error between two of them, and two data chunks in one frame. Longer files repeat
  these states.
* `Uint31Max = 1000`, `SizeMax = 900`, `MaxPngSize = 100` stand for 2^31-1,
  2^32-1 and 1,000,000. A chunk's length can thus exceed the first, or overflow the
  second without exceeding the first, as in the code; files end at `SizeMax`, some with
  chunks that end at each side of the offset at which `read_offset_ + 8` wraps.
* `MaxFrames = 3`, two rows, two passes of an interlaced image: enough for a frame
  that builds on one that gives way to an earlier one, for a row seen and one not
  seen, and for a pass that is combined with an earlier one.
* Loads of two and four pixels for the code's eight and sixteen, rows of one to six
  pixels in a buffer of seven: no load, a load and a rest, loads without a rest, and a
  pixel behind the row that must not be touched. Alphas of 255, 254 and 127 have bits in
  common, so that only all of them together tell that one is not opaque. The proofs are
  for every width and for loads of 2 to 16.
* AVIF images have up to eight rows and three layers, so that a piece ends at
  every parity and at the last row but one; sizes count arrivals. Images for the
  widths, orientations and profiles arrive at once.
* `MaxDepth = 3` for the `max_depth` the caller of the JSON parser chooses; the options are covered by four sets in
  which each is on twice and off twice.
* Slots 39, 40 and 41: one to stay, one to go, one that was left behind. The proofs
  are for any set of slots.

`CHECK_DEADLOCK FALSE` is set where the system stops: a file has arrived and has
been parsed or decoded, a parse has ended. The `eselect` runs check for deadlock.

### Fairness, and why the code justifies it

* `PngReader`: weak fairness of the steps of a call. `Parse` runs in one thread to
  its return. Nothing forces a call or more data.
* `PngDecoder`: weak fairness of the steps of a call (`CallStep`), for the same
  reason; requests and data are not forced.
* `AvifDecoder`: weak fairness of counting the frames and of decoding a frame or planes
  that are not complete: a page that shows an image paints it until it is complete. Data,
  purges and failures are not forced.
* `PngPixels`: none; it has safety properties only.
* `JsonParser`: weak fairness of `Next`: `Parse` runs in one thread to its return.
* `EselectElectron`: none; it has safety properties only.

## 4. Findings

Each is a run with the one property that a comment or assertion of the code states.

1. `half_float_blend`: a 16-bit APNG whose acTL announces one frame is decoded to half
   floats although its fcTL may ask for blending, which that path asserts never to
   happen (`png_image_decoder-r1.cc:1527-1532`).
2. `blended_twice`: when the progressive decoding of the first frame is given up for
   another frame and started again, its buffer is still partial and rows are blended
   over themselves.
3. `passes_lost`: in the same situation an interlaced first frame is decoded without
   an interlace buffer; only its last pass is shown.
4. `passes_blend`: an interlaced frame that blends is blended once for every pass.
5. `comment_lines`: line breaks in block comments are not counted
   (`json_parser_r1.cc:325-334`).
6. `update_keeps`: `active_slot` never recognises the link that `do_set` makes, so an
   update never keeps the active slot, `unset` removes nothing, and the next `set`
   leaves a stray link in the old slot's directory.

Not a run, because nothing follows from it: behind a chunk that ends within eight bytes
of the limit of the offset type the loop test of `ParseSize` wraps
(`png_image_decoder-r1.cc:528`) and a header is read that is not there, against the
precondition of `ReadAsConstPngBytep` (lines 112-113). The image then fails at the check
of the length, whatever was read (`HeaderIsHere`, section 5).

The `decode` run, which must pass, excludes findings 3 and 4 by its images: its only
interlaced animation has no alpha to blend, and a second frame that needs the first, for
which the first is never given up. It does not exclude finding 2: the first frame of
`Separate` (`MCPngDecoder`) can be blended twice in it, which
`CompleteFramesShowTheAnimation` does not count because it compares rows
`WithoutRepeats`; `BlendedOnce` counts it. `SuccessLeavesALauncher` holds with
finding 6 and would hold without it: an update may set the slot that was active before.

## 5. Proofs

All proofs are checked by `tlapm` without any assumption beyond those named by ASSUME.

**InductionLemmas.** The library's induction theorems take a predicate as a parameter,
which no installed prover can instantiate. `LeastNatural` gets a least element of a set
of naturals from the well-foundedness of inclusion among the subsets of a finite set,
which the library states without one; `SetInduction`, `GreatestNatural` and `MaxIs`
follow. A fact about a recursive function is then proved by taking the set of the
arguments at which it holds. `DescendingInduction` is the same from n down to 1, and
`DescendingRecursion` says that a function of `1 .. n` that is defined by its values at
greater arguments exists: the grammar's functions look ahead in the input.

**PngReader_proofs** (assumes `ReaderAssumption`: constants are naturals and files are
well-formed records, and `ChunksAssumption`: no chunk begins inside another; no bound on
files, chunks or calls).

* `Invariant`: `Spec => []IInv`, with `IInv == TypeOK /\ ReaderInv`. The properties
  below are not inductive alone, because a chunk changes the list only together with
  what was noted of earlier chunks. `ReaderInv` adds:
  `CallInv`, what each `pc` implies of the members;
  `ConstructionInv`, how `new_frame` relates to the list (the first frame is in the
  list while it is under construction, later ones are not);
  `ClosedInv`, that the frames are disjoint, in order, behind each other, end before
  the read offset, and are at least 12 bytes long, which is why the length 1 can mean
  "unknown" (`png_image_decoder-r1.h:116-120`);
  `CountInv`, the number of frames against acTL with the one under construction;
  and `LaterFramesClosed`, that only the first can have an unknown length.
* `TypeCorrect`, `ConstructionIsSound`, `FrameCountIsWithinActl` and
  `CompletionClosesFrames` follow from it.
* `ReaderImplementsCatalogue`: the refinement of `FrameCatalogue`. Each step either
  leaves the list alone, appends to it, or gives the first frame its length
  (`FrameListStep`).

The argument goes action by action (`StepType`, `StepCall`, `FrameDataStep`,
`ClosingStep`, joined in `StepReader`), with a lemma for every group of actions that
leaves the list alone.

**PngReaderFrames_proofs** (the same assumptions). `DataInvariant` proves `DataInv`, about
the set `Passed` of the chunks behind the read offset, on top of `IInv`:
`SequenceInv`, the next sequence number counts the fcTL and fdAT chunks passed;
`KindsInv`, an fcTL lies between any IDAT and any fdAT;
`ControlInv`, `new_frame` has the fields of the last fcTL passed;
`RunsInv`, each closed frame is a run of chunks without fcTL or IEND behind the fcTL whose
fields it has; and `CoverInv`, each data chunk passed lies in one of them or in the frame
under construction. Passing a chunk adds one element to `Passed`, which
`SequencePassed`, `KindsPassed`, `RunsExtend` and `RunsClose` follow through; `DataStays`
covers every step that passes none, those that return for lack of data among them.
`DataIsInOneFrame`, `FramesHaveTheirControl`, `NumbersAreInOrder`, `KindsAreNotMixed` and
`HalfFloatsForOneImage` are what the runs check. The last has an invariant of its own,
`DepthInv`: the repetition count of a single image is set only together with the size,
and before that `SetBitDepth` may fix the bit depth but never decides for half floats. It
goes one way only: an image of 16 bits whose client asks between the IHDR and the first
IDAT stays without half floats although its repetition count says that it is single.
`HeaderIsHere` is what makes the wrapped loop test of `ParseSize` harmless: a header
whose length passes the check is one that arrived.

**PngPixels_proofs** (assumes `PixelsAssumption`: images that PNG allows, rows of any
width, loads of 2, 4, 8 or 16 pixels). `PremultiplyRounds` shows that the shifts and
8-bit wrapping of the NEON loop are the rounded quotient by 255 of the scalar one, for
every color and alpha. `PixelsInvariant` proves the invariant: `SourceInv`, where the
transform went and that the pixels still to be read are there; `RowInv`, the pixels
written so far; `MaskInv`, that a bit is in all lanes exactly if all pixels so far have
it, which halving the lanes and the rest of the row preserve. `RowsAreExact` and
`AlphasAreSeen` follow, and with `PixelsTypeCorrect` that libpng's rows have the channels
and bits that `RowAvailable` reads. `ChunksAreRead` is `BrokenChunksAreIgnored` (`ChunksInv`): of
the metadata that may come several times the fold keeps the last valid chunk, and a valid
cICP chunk is found, however many broken ones there are; no agTm is among the chunks
that libpng keeps.

**AvifDecoder_proofs** (assumes `AvifAssumption`: any number of files, rows, images and
layers). `AvifInvariant` proves
`IInv == DataInv /\ ParseInv /\ ClientInv /\ LayerInv /\ HeightInv /\ FramesInv /\ PlanesInv`.
`HeightInv` is the one that is needed most: libavif has an even number of rows of a 4:2:0
image until it has all of them, the rows shown are those less the one that waits, and
status and height agree. `FramesInv` is then kept by each rendering, because the
conversion of an odd piece from one row above gives the rows of a conversion of the whole
(`PiecesAgree`, `RenderedRows`). From it follow `AvifTypeCorrect`,
`RowsShownAreExact`, `LayersAreLeft`, `OrientationsAreRight`, `PlanesHaveTheirSamples`,
and the action properties `HighestLayerShown` and `ReceivedFramesAreComplete`.
`ReadsAreOfTheFile` is `ReadsAreExact`: with `SegmentsInv`, that the last piece ends where
the data does, joining the segments gives consecutive bytes and reaches the end of every
read that is not past the data.

**JsonParser_proofs** (assumes `JsonAssumption`: texts are sequences of characters, none
of which is the model's mark for the end, option sets are sets of options, the depth is a
natural number; no bound on the length or nesting of a text).

* `JsonInvariant` proves
  `IInv == InputInv /\ PositionInv /\ StackInv /\ ErrorInv /\ RunningInv`: `CallerInv`,
  what the caller that waits for a token knows of its container; `ReadingInv`, that the
  token is the one at `index`; `ErrorInv`, that an error is followed by nothing but the way
  out; and `LinesInv`, that before any `*` has been read the line and its start are those
  of the text (an asterisk in a string or a line comment is left out as well, which is
  more than block comments need). From it follow `JsonTypeCorrect`, `ErrorsAreFailures` (`ErrorIffFailed`) and
  `LinesAreKnown` (`LinesAreCounted`); why block comments are excluded is finding 5.
* `ParserReadsTheGrammar` proves `ParsesTheGrammar`: Parse returns the value the grammar
  reads in the whole input, and none when it reads none, so a text that is accepted has
  only one reading. `Pending(doc)` says that what the parser has read (the containers on
  its stack, the string it is in) and some reading of the rest of the input make the
  document `doc`; `LeadsTo` is the part of it that works its way out through the stack.
  The invariant is `GrammarInv`, that the pending documents are those of the grammar,
  together with `IInv` and `TextInv`, what the stack and the string consist of. At the
  start `Pending` is the grammar's own definition; at the end it is the result. A lemma
  `...Reads` for each action shows that it leaves the pending documents: a character of
  white space is skipped because no token begins with one (`TokenBehind`), a token that
  its caller does not want ends every reading (`DeadEnd`), a value is read into its
  container (`ReturnReads`), the pieces of a string are those of the grammar
  (`PieceReads`, and `DecodedIsRead` for surrogates), and the longest number is the only
  one that the rest can follow (`NumberEnds`, `ShapeIsRead`).
  The functions of the grammar are unfolded by `DescendingRecursion`
  (`SpaceUnfolds`, `CharsUnfold`, `ValuesUnfold`), which also gives that they are the same
  in the next state.

**PngDecoder_proofs** (assumes `ReaderAssumption`, `ChunksAssumption` and
`DecoderAssumption`: what a file's header says of its rows, and that chunks begin within
the limit for files). Any number of frames, rows, requests, arrivals and purges.

* `DecoderInvariant` proves
  `DecoderInv == ParserInv /\ RequestInv /\ CacheInv /\ TodoInv /\ OffsetInv`.
  `ParserInv` is the invariants of the two reader modules, carried over to the composition
  (each step of the decoder leaves the reader alone, lets data arrive, or is a step of its
  calls), and `RegisteredInv`, where frames begin and end. `TodoInv`: each frame on the
  list of frames to decode is the one the next is drawn on (`Linked`), and the first is
  ready. `OffsetInv`: the loops of the decoder stand at the beginning of a chunk, behind
  chunks of their frame only. What libpng's callbacks do to buffers, any number of rows in
  one chunk, is proved once, as the relation `Drawing`.
  `DecoderTypeCorrect` and `RequiredFramesAreComplete` follow.
* `SessionInvariant`: `SessionInv`, that what libpng was fed is the data of one frame in
  order up to the offset, and, of a first frame that was left, up to
  `progressive_decode_offset` (`FirstFrameFed`), while other frames were decoded with
  sessions of their own. `LibpngIsFedOneFrame` follows with the reader's
  `EveryDataChunkInOneFrame`, which makes a chunk between two offsets one of the frame
  (`ChunkIsOwn`).
* `AnswerInvariant`: `AnswerInv`, that the last frame on the list is the one that was
  asked for, and that a frame left incomplete is an open first one; a closed one has all
  its chunks in the data received (`ClosedFirstFrameAhead`). From it the action property
  `ReceivedFramesAnswered`.
* `AlphaInvariant`: `AlphaInv`, that a frame called opaque was drawn from opaque rows
  only, and that the flag `current_buffer_saw_alpha`, which all frames share, tells of the
  data that libpng has now (`NotesInv`). A step keeps it because rows are drawn from a
  prefix of the frame's data (`FedIsAPrefix`). `OpaqueFramesAreTrue` follows.
* `ShowInvariant`: `ShowInv`, which relates the buffers to the animation played from its
  start (`Animation`, defined by the recursive function `Canvas`). `FitInv`: every fcTL
  accepted lies in the image, and an image decoded to half floats has one frame, so that
  no row of it blends. `StartsInv`: the canvas of each frame is what is left of the frame
  it requires, however many frames that restore what was there lie between
  (`CanvasKept`, `RequiredStarts`). `PaintInv`: a row of a complete frame shows the frame,
  one of a partial frame shows the frame or what was under it (`BuffersPainted`); what
  libpng was given has made the rows it has all the data of (`DrawnInv`), and of an
  interlaced image the combined ones (`LinesInv`). A byte given to libpng paints its row
  (`ScanPaints`, `DataPaints`), so a frame whose data is complete shows itself
  (`DrawnRowsShow`, `CompletedShows`).
  `CompleteFramesShowAnimation` follows, for images that are not both interlaced and
  animated (`InterlacedIsStill`): of those findings 3 and 4 show that it is false. A
  first frame that was given up and blends again (finding 2) is not excluded: the property
  is about rows `WithoutRepeats`, and that the second blending is a repeat holds because a
  frame's own data is new on its canvas (`OwnLayerNew`).
* `HalfFloatImagesAreStill` and `FramesLieInTheImage`, the assertion of
  `InitializeNewFrame` (`png_image_decoder-r1.cc:893`), follow from `FitInv`.

**EselectElectron_proofs** (assumes only that slots are positive numbers).
`EselectInvariant` proves `IInv`: types, `SlotInv` (an action on its way to a link has a
slot with a directory, an update the highest one), `LibInv` (the library link was made,
or landed in the directory the old link names), and the three properties of a command's
end. `EselectTypeCorrect`, `LauncherAfterSuccess`, `FailuresAreLeftovers` and
`DisagreementLeavesAStray` follow. The lemma `ActiveSlotIsNoSlot` is the root of
finding 6.

## 6. Only model-checked

* Liveness (`ParseReturns`, `RequestsReturn`, `ParseTerminates`, `FramesAreShown`): out of
  reach of the prover. Every invariant and action property of the runs is a theorem.

## 7. Plan

Done: every module of sections 1 and 2, with the abstract frame list, the composition of
decoder and reader, and the proofs of section 5: all properties of the passing runs except
the liveness of section 6 are theorems. Nothing of the plan is left.

`FrameCatalogue` and `PngReader` come first, `PngDecoder` composes with `PngReader`
(EXTENDS), and `JsonGrammar` with `JsonParser`; `PngPixels`, `AvifDecoder` and
`EselectElectron` stand alone: a row of `PngDecoder` is the whole of `PngPixels`.

## 8. Not modelled

* The parser and the frames of ungoogled-chromium's `png_image_decoder.cc` are electron's,
  and the other JSON parsers differ in the names of types: the models describe them too.
* `font_format_check.cc`: a pure function of a font's tables.
* In the PNG decoders: the orientation in eXIf, the numbers in profiles and HDR metadata
  (only whether a chunk is accepted), `CorrectAlphaWhenFrameBufferSawNoAlpha`; frames
  narrower than the image, except in `PngPixels`.
* In the AVIF decoder: gain maps, the numbers in color spaces and HDR metadata, durations
  and repetitions. A decoder that is asked for planes and for frames: its callers do one
  or the other.
* In the JSON parser: the value of a number (only whether it is finite), upper-case `E`
  and hexadecimal digits, and byte counts of multi-byte characters in columns.
* In eselect: several library directories, and a user's command that runs while a
  package is merged.
* The ufw service, the VMware services and the VirtualGL helper: what they keep is in the
  kernel, in ufw's functions and in the X server, none of which are in the repository; the
  scripts call them in a fixed order. Their hazards are listed in PROJECT.json.
* Launchers, dictionaries, the remaining init scripts and helpers, the CUDA manifest
  converter: a few commands in a row, or formatting.
* Ebuilds, patches, eclasses, metadata: recipes for the package manager, and changes to
  programs that are not here.
